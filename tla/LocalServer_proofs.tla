-------------------------- MODULE LocalServer_proofs --------------------------
(***************************************************************************)
(* Theorems about the local server, for any number of calls and worker     *)
(* threads and any retry budget, pruning limit, and number of crashes and  *)
(* requests: of its job queue (JobQueue), that the queue implements        *)
(* CallLifecycle (JobQueueRefinement), and of the queue together with the  *)
(* uploads that feed it (LocalServer).                                     *)
(***************************************************************************)
EXTENDS LocalServer, JobQueueRefinement, FiniteSetTheorems, TLAPS

-----------------------------------------------------------------------------
(***************************************************************************)
(* Type correctness. HoldsJob ties what a worker is doing to the job it    *)
(* holds: only an idle worker holds none. Without it call[w] could not be  *)
(* used as the index of a row.                                             *)
(***************************************************************************)
HoldsJob == \A w \in Workers : IF pc[w] = "idle" THEN call[w] = NoCall ELSE call[w] \in Calls

TypeInv == TypeOK /\ HoldsJob

(* Steps of the whole server that the queue alone does not take: an insert that
   fails once the recording is in place (LocalServer.StoreFails), and a crash at
   that point, which is a Halt. They touch a recording and nothing else. *)
AudioOnly ==
    UNCHANGED <<store, wav, wform, boot, queue, retries, worker, requests, pruner, runs, used>>

QueueStep ==
    \/ \E w \in Workers : WorkerStep(w) \/ HandlerDies(w)
    \/ \E c \in Calls : Request(c)
    \/ Prune \/ Startup \/ Halt \/ AudioOnly

LEMMA NextIsQueueStep == [Next]_vars => QueueStep
  BY DEF Next, QueueStep, Crash, vars, AudioOnly, files

USE DEF Statuses, Stages, SaveSteps, ChunkStages, FatalStages

LEMMA InitTyped == Init => TypeInv
  BY DEF Init, TypeInv, TypeOK, StoreOK, FilesOK, QueueOK, WorkersOK, RequestsOK, CountersOK,
         HoldsJob

LEMMA WorkerTyped ==
  ASSUME TypeInv, NEW w \in Workers, WorkerStep(w) \/ HandlerDies(w)
  PROVE  TypeInv'
<1> USE DEF TypeInv, TypeOK, store, files, boot, worker, requests, pruner
<1>1. CASE Take(w)
  <2>1. QueueOK' /\ Head(queue) \in Calls
    BY <1>1 DEF Take, QueueOK
  <2>2. WorkersOK'
    BY <1>1, <2>1 DEF Take, WorkersOK
  <2>3. HoldsJob'
    BY <1>1, <2>1 DEF Take, HoldsJob, WorkersOK
  <2>4. StoreOK' /\ FilesOK' /\ RequestsOK' /\ CountersOK'
    BY <1>1 DEF Take, StoreOK, FilesOK, RequestsOK, CountersOK
  <2>5. QED BY <2>1, <2>2, <2>3, <2>4
<1>2. CASE Skip(w)
  <2>1. WorkersOK'
    BY <1>2 DEF Skip, WorkersOK
  <2>2. HoldsJob'
    BY <1>2 DEF Skip, HoldsJob, WorkersOK
  <2>3. StoreOK' /\ FilesOK' /\ QueueOK' /\ RequestsOK' /\ CountersOK'
    BY <1>2 DEF Skip, StoreOK, FilesOK, QueueOK, RequestsOK, CountersOK
  <2>4. QED BY <2>1, <2>2, <2>3
<1>3. CASE Begin(w)
  <2>0. call[w] \in Calls /\ runs[call[w]] \in Nat
    BY <1>3 DEF Begin, HoldsJob, CountersOK
  <2>1. StoreOK'
    BY <1>3 DEF Begin, SetStatus, Live, StoreOK
  <2>2. WorkersOK'
    BY <1>3, <2>0 DEF Begin, SetStatus, Live, WorkersOK
  <2>3. HoldsJob'
    BY <1>3 DEF Begin, SetStatus, Live, HoldsJob, WorkersOK
  <2>4. CountersOK'
    BY <1>3, <2>0 DEF Begin, SetStatus, Live, CountersOK
  <2>5. FilesOK' /\ QueueOK' /\ RequestsOK'
    BY <1>3 DEF Begin, SetStatus, Live, FilesOK, QueueOK, RequestsOK
  <2>6. QED BY <2>1, <2>2, <2>3, <2>4, <2>5
<1>4. CASE Convert(w)
  <2>1. StoreOK'
    BY <1>4 DEF Convert, SetStatus, Live, StoreOK
  <2>2. FilesOK'
    BY <1>4 DEF Convert, SetStatus, Live, FilesOK
  <2>3. WorkersOK'
    BY <1>4 DEF Convert, SetStatus, Live, WorkersOK
  <2>4. HoldsJob'
    BY <1>4 DEF Convert, SetStatus, Live, HoldsJob, WorkersOK
  <2>5. QueueOK' /\ RequestsOK' /\ CountersOK'
    BY <1>4 DEF Convert, SetStatus, Live, QueueOK, RequestsOK, CountersOK
  <2>6. QED BY <2>1, <2>2, <2>3, <2>4, <2>5
<1>5. CASE OpenPart(w)
  <2>1. WorkersOK'
    BY <1>5 DEF OpenPart, WorkersOK
  <2>2. StoreOK' /\ FilesOK' /\ QueueOK' /\ RequestsOK' /\ CountersOK' /\ HoldsJob'
    BY <1>5 DEF OpenPart, StoreOK, FilesOK, QueueOK, RequestsOK, CountersOK, HoldsJob
  <2>3. QED BY <2>1, <2>2
<1>6. CASE Advance(w)
  <2>1. StoreOK'
    BY <1>6 DEF Advance, SetStatus, Live, CleanChunks, NextStage, StoreOK
  <2>2. WorkersOK'
    BY <1>6 DEF Advance, SetStatus, Live, CleanChunks, NextStage, WorkersOK
  <2>3. HoldsJob'
    BY <1>6 DEF Advance, SetStatus, Live, CleanChunks, NextStage, HoldsJob, WorkersOK
  <2>4. FilesOK' /\ QueueOK' /\ RequestsOK' /\ CountersOK'
    BY <1>6 DEF Advance, SetStatus, Live, CleanChunks, NextStage, FilesOK, QueueOK, RequestsOK,
           CountersOK
  <2>5. QED BY <2>1, <2>2, <2>3, <2>4
<1>7. CASE SaveTranscript(w)
  <2>1. StoreOK'
    BY <1>7 DEF SaveTranscript, Live, StoreOK, WorkersOK
  <2>2. WorkersOK'
    BY <1>7 DEF SaveTranscript, Live, WorkersOK
  <2>3. HoldsJob'
    BY <1>7 DEF SaveTranscript, Live, HoldsJob, WorkersOK
  <2>4. FilesOK' /\ QueueOK' /\ RequestsOK' /\ CountersOK'
    BY <1>7 DEF SaveTranscript, Live, FilesOK, QueueOK, RequestsOK, CountersOK
  <2>5. QED BY <2>1, <2>2, <2>3, <2>4
<1>8. CASE SaveMetrics(w)
  <2>1. StoreOK'
    BY <1>8 DEF SaveMetrics, Live, StoreOK, WorkersOK
  <2>2. WorkersOK'
    BY <1>8 DEF SaveMetrics, Live, WorkersOK
  <2>3. HoldsJob'
    BY <1>8 DEF SaveMetrics, Live, HoldsJob, WorkersOK
  <2>4. FilesOK' /\ QueueOK' /\ RequestsOK' /\ CountersOK'
    BY <1>8 DEF SaveMetrics, Live, FilesOK, QueueOK, RequestsOK, CountersOK
  <2>5. QED BY <2>1, <2>2, <2>3, <2>4
<1>9. CASE SaveQa(w)
  <2>1. StoreOK'
    BY <1>9 DEF SaveQa, Live, StoreOK, WorkersOK
  <2>2. WorkersOK'
    BY <1>9 DEF SaveQa, Live, WorkersOK
  <2>3. HoldsJob'
    BY <1>9 DEF SaveQa, Live, HoldsJob, WorkersOK
  <2>4. FilesOK' /\ QueueOK' /\ RequestsOK' /\ CountersOK'
    BY <1>9 DEF SaveQa, Live, FilesOK, QueueOK, RequestsOK, CountersOK
  <2>5. QED BY <2>1, <2>2, <2>3, <2>4
<1>10. CASE Complete(w)
  <2>1. StoreOK'
    BY <1>10 DEF Complete, SetStatus, Live, StoreOK
  <2>2. WorkersOK'
    BY <1>10 DEF Complete, SetStatus, Live, WorkersOK
  <2>3. HoldsJob'
    BY <1>10 DEF Complete, SetStatus, Live, HoldsJob, WorkersOK
  <2>4. FilesOK' /\ QueueOK' /\ RequestsOK' /\ CountersOK'
    BY <1>10 DEF Complete, SetStatus, Live, FilesOK, QueueOK, RequestsOK, CountersOK
  <2>5. QED BY <2>1, <2>2, <2>3, <2>4
<1>11. CASE Settle(w)
  <2>1. QueueOK'
    BY <1>11 DEF Settle, QueueOK
  <2>2. WorkersOK'
    BY <1>11 DEF Settle, WorkersOK
  <2>3. HoldsJob'
    BY <1>11 DEF Settle, HoldsJob, WorkersOK
  <2>4. StoreOK' /\ FilesOK' /\ RequestsOK' /\ CountersOK'
    BY <1>11 DEF Settle, StoreOK, FilesOK, RequestsOK, CountersOK
  <2>5. QED BY <2>1, <2>2, <2>3, <2>4
<1>12. CASE Fail(w)
  <2>1. StoreOK'
    BY <1>12 DEF Fail, Working, SetStatus, Live, StoreOK, HoldsJob
  <2>2. FilesOK'
    BY <1>12 DEF Fail, Working, WavAfterFailure, SetStatus, Live, CleanChunks, FilesOK
  <2>3. WorkersOK'
    BY <1>12 DEF Fail, Working, WavAfterFailure, SetStatus, Live, CleanChunks, WorkersOK
  <2>4. HoldsJob'
    BY <1>12 DEF Fail, Working, WavAfterFailure, SetStatus, Live, CleanChunks, HoldsJob, WorkersOK
  <2>5. QueueOK' /\ RequestsOK' /\ CountersOK'
    BY <1>12 DEF Fail, Working, WavAfterFailure, SetStatus, Live, CleanChunks, QueueOK,
           RequestsOK, CountersOK
  <2>6. QED BY <2>1, <2>2, <2>3, <2>4, <2>5
<1>13. CASE OomRetry(w)
  <2>1. StoreOK'
    BY <1>13 DEF OomRetry, SetStatus, Live, CleanChunks, StoreOK
  <2>2. QueueOK'
    BY <1>13 DEF OomRetry, QueueOK, HoldsJob
  <2>3. WorkersOK'
    BY <1>13 DEF OomRetry, SetStatus, Live, CleanChunks, WorkersOK
  <2>4. HoldsJob'
    BY <1>13 DEF OomRetry, SetStatus, Live, CleanChunks, HoldsJob, WorkersOK
  <2>5. FilesOK' /\ RequestsOK' /\ CountersOK'
    BY <1>13 DEF OomRetry, SetStatus, Live, CleanChunks, FilesOK, RequestsOK, CountersOK
  <2>6. QED BY <2>1, <2>2, <2>3, <2>4, <2>5
<1>14. CASE OomGiveUp(w)
  <2>1. StoreOK'
    BY <1>14 DEF OomGiveUp, SetStatus, Live, CleanChunks, StoreOK
  <2>2. WorkersOK'
    BY <1>14 DEF OomGiveUp, SetStatus, Live, CleanChunks, WorkersOK
  <2>3. HoldsJob'
    BY <1>14 DEF OomGiveUp, SetStatus, Live, CleanChunks, HoldsJob, WorkersOK
  <2>4. FilesOK' /\ QueueOK' /\ RequestsOK' /\ CountersOK'
    BY <1>14 DEF OomGiveUp, SetStatus, Live, CleanChunks, FilesOK, QueueOK, RequestsOK, CountersOK
  <2>5. QED BY <2>1, <2>2, <2>3, <2>4
<1>15. CASE Requeue(w)
  <2>1. QueueOK'
    BY <1>15 DEF Requeue, QueueOK, HoldsJob
  <2>2. WorkersOK'
    BY <1>15 DEF Requeue, WorkersOK
  <2>3. HoldsJob'
    BY <1>15 DEF Requeue, HoldsJob, WorkersOK
  <2>4. StoreOK' /\ FilesOK' /\ RequestsOK' /\ CountersOK'
    BY <1>15 DEF Requeue, StoreOK, FilesOK, RequestsOK, CountersOK
  <2>5. QED BY <2>1, <2>2, <2>3, <2>4
<1>16. CASE HandlerDies(w)
  <2>1. FilesOK'
    BY <1>16 DEF HandlerDies, Working, WavAfterFailure, CleanChunks, FilesOK
  <2>2. QueueOK'
    BY <1>16 DEF Use, Note, HandlerDies, Working, WavAfterFailure, CleanChunks, QueueOK
  <2>3. WorkersOK'
    BY <1>16 DEF HandlerDies, Working, WavAfterFailure, CleanChunks, WorkersOK
  <2>4. HoldsJob'
    BY <1>16 DEF HandlerDies, Working, WavAfterFailure, CleanChunks, HoldsJob, WorkersOK
  <2>5. CountersOK'
    BY <1>16 DEF Use, Note, HandlerDies, Working, WavAfterFailure, CleanChunks, CountersOK
  <2>6. StoreOK' /\ RequestsOK'
    BY <1>16 DEF HandlerDies, Working, WavAfterFailure, CleanChunks, StoreOK, RequestsOK
  <2>7. QED BY <2>1, <2>2, <2>3, <2>4, <2>5, <2>6
<1>17. CASE OomCheck(w)
  <2>1. WorkersOK'
    BY <1>17 DEF OomCheck, CleanChunks, WorkersOK
  <2>2. HoldsJob'
    BY <1>17 DEF OomCheck, CleanChunks, HoldsJob, WorkersOK
  <2>3. StoreOK' /\ FilesOK' /\ QueueOK' /\ RequestsOK' /\ CountersOK'
    BY <1>17 DEF OomCheck, StoreOK, FilesOK, QueueOK, RequestsOK, CountersOK
  <2>4. QED BY <2>1, <2>2, <2>3
<1>18. QED
  BY <1>1, <1>2, <1>3, <1>4, <1>5, <1>6, <1>7, <1>8, <1>9, <1>10, <1>11, <1>12, <1>13, <1>14, <1>15,
     <1>16, <1>17 DEF WorkerStep

LEMMA RequestTyped ==
  ASSUME TypeInv, NEW c \in Calls, Request(c)
  PROVE  TypeInv'
<1> USE DEF TypeInv, TypeOK, store, files, boot, worker, requests, pruner
<1>1. CASE Upload(c)
  <2>1. Cardinality({d \in Calls : born[d] # 0}) \in Nat
    BY CallsAssumption, FS_Subset, FS_CardinalityType
  <2>0. \/ UNCHANGED <<filename, used>>
        \/ \E d \in Calls : Use("named") /\ filename' = [filename EXCEPT ![c] = d]
    BY <1>1 DEF Upload
  <2>2. StoreOK'
    <3>1. filename' \in [Calls -> Calls \cup {NoCall}]
      BY <2>0 DEF StoreOK
    <3>2. /\ born' = [born EXCEPT ![c] = 1 + Cardinality({d \in Calls : born[d] # 0})]
          /\ row' = [row EXCEPT ![c] = "queued"] /\ UNCHANGED <<transcript, metrics, qa>>
      BY <1>1 DEF Upload
    <3>3. QED BY <2>1, <3>1, <3>2 DEF StoreOK
  <2>3. FilesOK'
    BY <1>1 DEF Upload, FilesOK
  <2>4. QueueOK'
    BY <1>1 DEF Upload, QueueOK
  <2>5. CountersOK'
    <3>1. runs' = runs
      BY <1>1 DEF Upload
    <3>2. QED BY <2>0, <3>1 DEF Use, Note, CountersOK
  <2>6. WorkersOK' /\ RequestsOK' /\ HoldsJob'
    BY <1>1 DEF Upload, WorkersOK, RequestsOK, HoldsJob
  <2>7. QED BY <2>2, <2>3, <2>4, <2>5, <2>6
<1>2. CASE ReprocessMark(c)
  <2>1. StoreOK'
    BY <1>2 DEF ReprocessMark, SetStatus, Live, StoreOK
  <2>2. RequestsOK'
    BY <1>2 DEF ReprocessMark, SetStatus, Live, RequestsOK
  <2>3. CountersOK'
    BY <1>2 DEF Use, Note, ReprocessMark, SetStatus, Live, CountersOK
  <2>4. FilesOK' /\ QueueOK' /\ WorkersOK' /\ HoldsJob'
    BY <1>2 DEF ReprocessMark, SetStatus, Live, FilesOK, QueueOK, WorkersOK, HoldsJob
  <2>5. QED BY <2>1, <2>2, <2>3, <2>4
<1>3. CASE ReprocessSubmit(c)
  <2>1. QueueOK'
    BY <1>3 DEF ReprocessSubmit, QueueOK
  <2>2. RequestsOK'
    BY <1>3 DEF ReprocessSubmit, RequestsOK
  <2>3. StoreOK' /\ FilesOK' /\ WorkersOK' /\ CountersOK' /\ HoldsJob'
    BY <1>3 DEF ReprocessSubmit, StoreOK, FilesOK, WorkersOK, CountersOK, HoldsJob
  <2>4. QED BY <2>1, <2>2, <2>3
<1>4. CASE DeleteRead(c)
  <2>1. RequestsOK'
    BY <1>4 DEF DeleteRead, RequestsOK
  <2>2. CountersOK'
    BY <1>4 DEF Use, Note, DeleteRead, CountersOK
  <2>3. StoreOK' /\ FilesOK' /\ QueueOK' /\ WorkersOK' /\ HoldsJob'
    BY <1>4 DEF DeleteRead, StoreOK, FilesOK, QueueOK, WorkersOK, HoldsJob
  <2>4. QED BY <2>1, <2>2, <2>3
<1>5. CASE DeleteAudio(c)
  <2>1. FilesOK'
    BY <1>5 DEF DeleteAudio, FilesOK
  <2>2. RequestsOK'
    BY <1>5 DEF DeleteAudio, RequestsOK
  <2>3. StoreOK' /\ QueueOK' /\ WorkersOK' /\ CountersOK' /\ HoldsJob'
    BY <1>5 DEF DeleteAudio, StoreOK, QueueOK, WorkersOK, CountersOK, HoldsJob
  <2>4. QED BY <2>1, <2>2, <2>3
<1>6. CASE DeleteWav(c)
  <2>1. FilesOK'
    BY <1>6 DEF DeleteWav, FilesOK
  <2>2. RequestsOK'
    BY <1>6 DEF DeleteWav, RequestsOK
  <2>3. StoreOK' /\ QueueOK' /\ WorkersOK' /\ CountersOK' /\ HoldsJob'
    BY <1>6 DEF DeleteWav, StoreOK, QueueOK, WorkersOK, CountersOK, HoldsJob
  <2>4. QED BY <2>1, <2>2, <2>3
<1>7. CASE DeleteRow(c)
  <2>1. StoreOK'
    BY <1>7 DEF DeleteRow, DropRows, StoreOK
  <2>2. RequestsOK'
    BY <1>7 DEF DeleteRow, DropRows, RequestsOK
  <2>3. FilesOK' /\ QueueOK' /\ WorkersOK' /\ CountersOK' /\ HoldsJob'
    BY <1>7 DEF DeleteRow, DropRows, FilesOK, QueueOK, WorkersOK, CountersOK, HoldsJob
  <2>4. QED BY <2>1, <2>2, <2>3
<1>8. CASE GetWaveform(c)
  <2>1. FilesOK'
    BY <1>8 DEF GetWaveform, FilesOK
  <2>2. CountersOK'
    BY <1>8 DEF Use, Note, GetWaveform, CountersOK
  <2>3. StoreOK' /\ QueueOK' /\ WorkersOK' /\ RequestsOK' /\ HoldsJob'
    BY <1>8 DEF GetWaveform, StoreOK, QueueOK, WorkersOK, RequestsOK, HoldsJob
  <2>4. QED BY <2>1, <2>2, <2>3
<1>9. CASE DeleteFails(c)
  <2>1. RequestsOK'
    BY <1>9 DEF DeleteFails, RequestsOK
  <2>2. CountersOK'
    BY <1>9 DEF Use, Note, DeleteFails, CountersOK
  <2>3. StoreOK' /\ FilesOK' /\ QueueOK' /\ WorkersOK' /\ HoldsJob'
    BY <1>9 DEF DeleteFails, StoreOK, FilesOK, QueueOK, WorkersOK, HoldsJob
  <2>4. QED BY <2>1, <2>2, <2>3
<1>10. QED
  BY <1>1, <1>2, <1>3, <1>4, <1>5, <1>6, <1>7, <1>8, <1>9 DEF Request

LEMMA PrunerTyped ==
  ASSUME TypeInv, Prune
  PROVE  TypeInv'
<1> USE DEF TypeInv, TypeOK, store, files, boot, worker, requests, pruner
<1>1. CASE Scan
  <2>1. RequestsOK'
    BY <1>1 DEF Scan, Files, RequestsOK
  <2>2. StoreOK' /\ FilesOK' /\ QueueOK' /\ WorkersOK' /\ CountersOK' /\ HoldsJob'
    BY <1>1 DEF Scan, Files, StoreOK, FilesOK, QueueOK, WorkersOK, CountersOK, HoldsJob
  <2>3. QED BY <2>1, <2>2
<1>2. ASSUME NEW c \in Calls, PruneRow(c) PROVE TypeInv'
  <2>1. StoreOK'
    BY <1>2 DEF PruneRow, DropRows, StoreOK
  <2>2. RequestsOK'
    BY <1>2 DEF PruneRow, DropRows, RequestsOK
  <2>3. FilesOK' /\ QueueOK' /\ WorkersOK' /\ CountersOK' /\ HoldsJob'
    BY <1>2 DEF PruneRow, DropRows, FilesOK, QueueOK, WorkersOK, CountersOK, HoldsJob
  <2>4. QED BY <2>1, <2>2, <2>3
<1>3. CASE PruneFile
  <2>1. FilesOK'
    BY <1>3 DEF PruneFile, FilesOK
  <2>2. RequestsOK'
    BY <1>3 DEF PruneFile, RequestsOK
  <2>3. StoreOK' /\ QueueOK' /\ WorkersOK' /\ CountersOK' /\ HoldsJob'
    BY <1>3 DEF PruneFile, StoreOK, QueueOK, WorkersOK, CountersOK, HoldsJob
  <2>4. QED BY <2>1, <2>2, <2>3
<1>4. ASSUME NEW c \in Calls, PruneRowFails(c) PROVE TypeInv'
  <2>1. StoreOK'
    BY <1>4 DEF PruneRowFails, DropRows, StoreOK
  <2>2. RequestsOK'
    BY <1>4 DEF PruneRowFails, DropRows, RequestsOK
  <2>3. CountersOK'
    BY <1>4 DEF PruneRowFails, Use, Note, CountersOK
  <2>4. FilesOK' /\ QueueOK' /\ WorkersOK' /\ HoldsJob'
    BY <1>4 DEF PruneRowFails, DropRows, FilesOK, QueueOK, WorkersOK, HoldsJob
  <2>5. QED BY <2>1, <2>2, <2>3, <2>4
<1>5. CASE PruneFileFails
  <2>1. RequestsOK'
    BY <1>5 DEF PruneFileFails, RequestsOK
  <2>2. CountersOK'
    BY <1>5 DEF PruneFileFails, Use, Note, CountersOK
  <2>3. StoreOK' /\ FilesOK' /\ QueueOK' /\ WorkersOK' /\ HoldsJob'
    BY <1>5 DEF PruneFileFails, StoreOK, FilesOK, QueueOK, WorkersOK, HoldsJob
  <2>4. QED BY <2>1, <2>2, <2>3
<1>6. QED
  BY <1>1, <1>2, <1>3, <1>4, <1>5 DEF Prune

LEMMA BootTyped ==
  ASSUME TypeInv, Startup
  PROVE  TypeInv'
<1> USE DEF TypeInv, TypeOK, store, files, boot, worker, requests, pruner
<1>1. CASE Boot
  <2>1. StoreOK'
    BY <1>1 DEF Boot, StoreOK
  <2>2. QueueOK'
    BY <1>1 DEF Boot, QueueOK
  <2>3. FilesOK' /\ WorkersOK' /\ RequestsOK' /\ CountersOK' /\ HoldsJob'
    BY <1>1 DEF Boot, FilesOK, WorkersOK, RequestsOK, CountersOK, HoldsJob
  <2>4. QED BY <2>1, <2>2, <2>3
<1>2. CASE ReadPending
  <2>1. QueueOK'
    BY <1>2 DEF ReadPending, QueueOK
  <2>2. StoreOK' /\ FilesOK' /\ WorkersOK' /\ RequestsOK' /\ CountersOK' /\ HoldsJob'
    BY <1>2 DEF ReadPending, StoreOK, FilesOK, WorkersOK, RequestsOK, CountersOK, HoldsJob
  <2>3. QED BY <2>1, <2>2
<1>3. ASSUME NEW c \in Calls, SubmitPending(c) PROVE TypeInv'
  <2>1. QueueOK'
    BY <1>3 DEF SubmitPending, QueueOK
  <2>2. StoreOK' /\ FilesOK' /\ WorkersOK' /\ RequestsOK' /\ CountersOK' /\ HoldsJob'
    BY <1>3 DEF SubmitPending, StoreOK, FilesOK, WorkersOK, RequestsOK, CountersOK, HoldsJob
  <2>3. QED BY <2>1, <2>2
<1>4. CASE Serve
  <2>1. QueueOK'
    BY <1>4 DEF Serve, QueueOK
  <2>2. StoreOK' /\ FilesOK' /\ WorkersOK' /\ RequestsOK' /\ CountersOK' /\ HoldsJob'
    BY <1>4 DEF Serve, StoreOK, FilesOK, WorkersOK, RequestsOK, CountersOK, HoldsJob
  <2>3. QED BY <2>1, <2>2
<1>5. QED
  BY <1>1, <1>2, <1>3, <1>4 DEF Startup

LEMMA HaltTyped ==
  ASSUME TypeInv, Halt, FilesOK'
  PROVE  TypeInv'
<1> USE DEF TypeInv, TypeOK, store
<1>1. QueueOK'
  BY DEF Halt, QueueOK
<1>2. WorkersOK'
  BY DEF Halt, WorkersOK
<1>3. HoldsJob'
  BY DEF Halt, HoldsJob, WorkersOK
<1>4. RequestsOK'
  BY DEF Halt, RequestsOK
<1>5. CountersOK'
  <2>1. Use("crash") /\ runs' = runs
    BY DEF Halt
  <2>2. QED BY <2>1 DEF Use, Note, CountersOK
<1>6. StoreOK'
  BY DEF Halt, StoreOK
<1>7. QED BY <1>1, <1>2, <1>3, <1>4, <1>5, <1>6

LEMMA AudioOnlyTyped ==
  ASSUME TypeInv, AudioOnly, FilesOK'
  PROVE  TypeInv'
  BY DEF TypeInv, TypeOK, StoreOK, QueueOK, WorkersOK, RequestsOK, CountersOK, HoldsJob,
         AudioOnly, store, boot, worker, requests, pruner

LEMMA QueueStepTyped ==
  ASSUME TypeInv, QueueStep, FilesOK'
  PROVE  TypeInv'
  BY WorkerTyped, RequestTyped, PrunerTyped, BootTyped, HaltTyped, AudioOnlyTyped DEF QueueStep

LEMMA TypeInvariant == Spec => []TypeInv
<1>1. ASSUME TypeInv, [Next]_vars PROVE TypeInv'
  <2>1. CASE Crash \/ UNCHANGED vars
    <3>1. FilesOK'
      BY <1>1, <2>1 DEF Crash, Halt, vars, files, TypeInv, TypeOK, FilesOK
    <3>2. QED BY <1>1, <3>1, NextIsQueueStep, QueueStepTyped
  <2>2. QED
    BY <1>1, <2>1, WorkerTyped, RequestTyped, PrunerTyped, BootTyped DEF Next
<1>2. QED
  BY InitTyped, <1>1, PTL DEF Spec

(* Every variable of the job queue always holds a value of its declared kind,
   through every handler, failure, crash and restart. *)
THEOREM TypeCorrect == Spec => []TypeOK
  BY TypeInvariant, PTL DEF TypeInv

(***************************************************************************)
(* No call is stranded. NoStrandedCall is not inductive as it stands: it   *)
(* says nothing of the time between Boot and ReadPending, when every       *)
(* unfinished row has to read "queued" or pending_call_ids() would miss it,*)
(* which in turn needs that nothing is at work before that.                *)
(***************************************************************************)
Quiet ==
    phase \in {"down", "booting"} =>
        queue = <<>> /\ pending = {} /\ marked = {} /\ \A w \in Workers : pc[w] = "idle"
ResetDone == phase = "booting" => \A c \in Calls : row[c] # "processing"

StrandInv == NoStrandedCall /\ Quiet /\ ResetDone

(* Appending a job to the queue loses no job; taking one loses the head. *)
LEMMA QueueMoves ==
  ASSUME NEW c \in Calls, NEW d \in Calls, queue \in Seq(Calls)
  PROVE  /\ queue' = Append(queue, c) => Queued(c)' /\ (Queued(d) => Queued(d)')
         /\ queue # <<>> /\ queue' = Tail(queue) /\ Queued(d) => d = Head(queue) \/ Queued(d)'
<1>1. ASSUME queue' = Append(queue, c) PROVE Queued(c)' /\ (Queued(d) => Queued(d)')
  <2>1. Len(queue') = Len(queue) + 1 /\ queue'[Len(queue) + 1] = c
    BY <1>1
  <2>2. \A i \in 1..Len(queue) : queue'[i] = queue[i]
    BY <1>1
  <2>3. QED
    BY <1>1, <2>1, <2>2 DEF Queued
<1>2. ASSUME queue # <<>>, queue' = Tail(queue), Queued(d)
      PROVE  d = Head(queue) \/ Queued(d)'
  <2>1. PICK i \in 1..Len(queue) : queue[i] = d
    BY <1>2 DEF Queued
  <2>2. CASE i = 1
    BY <2>1, <2>2
  <2>3. CASE i # 1
    <3>1. i - 1 \in 1..Len(queue') /\ queue'[i - 1] = d
      BY <1>2, <2>1, <2>3
    <3>2. i - 1 \in DOMAIN queue'
      BY <1>2, <3>1
    <3>3. QED
      BY <3>1, <3>2 DEF Queued
  <2>4. QED
    BY <2>2, <2>3
<1>3. QED
  BY <1>1, <1>2

LEMMA InitStrand == Init => StrandInv
  BY DEF Init, StrandInv, NoStrandedCall, Quiet, ResetDone

(* Only two things can strand a call: its row becomes unfinished, or a job of
   it goes. A step that does neither preserves NoStrandedCall. *)
LEMMA KeepsJobs ==
  ASSUME NoStrandedCall, UNCHANGED phase,
         \A d \in Calls : Unfinished(d)' => Unfinished(d) \/ HasJob(d)',
         \A d \in Calls : Unfinished(d)' /\ HasJob(d) => HasJob(d)'
  PROVE  NoStrandedCall'
  BY DEF NoStrandedCall

(* A worker that is not idle works only once startup() has started jobs. *)
LEMMA WorkerUp ==
  ASSUME Quiet, NEW w \in Workers, pc[w] # "idle" \/ queue # <<>>
  PROVE  phase \notin {"down", "booting"}
  BY DEF Quiet

LEMMA WorkerStrand ==
  ASSUME TypeInv, StrandInv, NEW w \in Workers, WorkerStep(w) \/ HandlerDies(w)
  PROVE  StrandInv'
<1> USE DEF store, files, boot, worker, requests, pruner
<1>1. UNCHANGED <<phase, pending, marked>> /\ phase \notin {"down", "booting"}
  BY WorkerUp DEF StrandInv, WorkerStep, Take, Skip, Begin, Convert, OpenPart, Advance,
     SaveTranscript, SaveMetrics, SaveQa, Complete, Settle, Fail, OomCheck, OomRetry, OomGiveUp,
     Requeue,
     HandlerDies, Working
<1>2. Quiet' /\ ResetDone'
  BY <1>1 DEF Quiet, ResetDone
<1>3. pc \in [Workers -> {"idle", "start", "retrying", "backoff", "settling", "dead"}
      \cup Stages \cup SaveSteps]
        /\ call \in [Workers -> Calls \cup {NoCall}] /\ queue \in Seq(Calls)
        /\ row \in [Calls -> Statuses \cup {"absent"}]
        /\ (pc[w] # "idle" => call[w] \in Calls)
  BY DEF TypeInv, TypeOK, StoreOK, QueueOK, WorkersOK, HoldsJob
<1>4. ASSUME pc[w] \notin {"idle", "settling"}, UNCHANGED <<queue, call>>,
             \/ UNCHANGED row
             \/ SetStatus(call[w], "processing"),
             \E p \in Stages \cup SaveSteps \cup {"retrying", "backoff",
             "dead"} : pc' = [pc EXCEPT ![w] = p]
      PROVE  NoStrandedCall'
  <2>1. \A v \in Workers : pc[v] # "settling" => pc'[v] # "settling"
    BY <1>4, <1>3
  <2>2. pc'[w] # "settling" /\ call'[w] = call[w]
    BY <1>4, <1>3
  <2>3. \A d \in Calls : HasJob(d) => HasJob(d)'
    BY <1>1, <1>4, <2>1 DEF HasJob, Queued
  <2>4. \A d \in Calls : d # call[w] => row'[d] = row[d]
    BY <1>3, <1>4 DEF SetStatus, Live
  <2>5. \A d \in Calls : d = call[w] => HasJob(d)'
    BY <2>2 DEF HasJob
  <2>6. \A d \in Calls : Unfinished(d)' => Unfinished(d) \/ HasJob(d)'
    BY <2>4, <2>5 DEF Unfinished
  <2>7. QED
    BY <1>1, <2>3, <2>6, KeepsJobs DEF StrandInv
<1>5. ASSUME pc[w] # "idle", UNCHANGED <<queue, call>>, pc' = [pc EXCEPT ![w] = "settling"],
             row' = [row EXCEPT ![call[w]] = row'[call[w]]],
             \A d \in Calls : d = call[w] => ~Unfinished(d)'
      PROVE  NoStrandedCall'
  <2>1. \A d \in Calls : d # call[w] => row'[d] = row[d]
    BY <1>3, <1>5
  <2>2. \A v \in Workers : v # w => pc'[v] = pc[v]
    BY <1>3, <1>5
  <2>3. \A d \in Calls : d # call[w] /\ HasJob(d) => HasJob(d)'
    BY <1>1, <1>5, <2>2 DEF HasJob, Queued
  <2>4. \A d \in Calls : Unfinished(d)' => Unfinished(d) /\ d # call[w]
    BY <1>5, <2>1 DEF Unfinished
  <2>5. QED
    BY <1>1, <2>3, <2>4, KeepsJobs DEF StrandInv
<1>6. ASSUME Take(w) PROVE NoStrandedCall'
  <2>1. \A d \in Calls : Queued(d) => d = Head(queue) \/ Queued(d)'
    BY <1>3, <1>6, QueueMoves DEF Take
  <2>2. call'[w] = Head(queue) /\ pc'[w] # "settling" /\ call[w] \notin Calls
    BY <1>3, <1>6, CallsAssumption DEF Take, TypeInv, HoldsJob
  <2>3. \A v \in Workers : v # w => call'[v] = call[v] /\ pc'[v] = pc[v]
    BY <1>3, <1>6 DEF Take
  <2>4. \A d \in Calls : HasJob(d) => HasJob(d)'
    BY <1>1, <2>1, <2>2, <2>3 DEF HasJob
  <2>5. UNCHANGED row
    BY <1>6 DEF Take
  <2>6. QED
    BY <1>1, <2>4, <2>5, KeepsJobs DEF StrandInv, Unfinished
<1>7. ASSUME Settle(w) PROVE NoStrandedCall'
  <2>1. \A v \in Workers : v # w => call'[v] = call[v] /\ pc'[v] = pc[v]
    BY <1>3, <1>7 DEF Settle
  <2>2. \A d \in Calls : HasJob(d) => HasJob(d)'
    BY <1>1, <1>7, <2>1 DEF Settle, HasJob, Queued
  <2>3. QED
    BY <1>1, <1>7, <2>2, KeepsJobs DEF StrandInv, Unfinished, Settle
<1>8. ASSUME Requeue(w) PROVE NoStrandedCall'
  <2>1. \A v \in Workers : v # w => call'[v] = call[v] /\ pc'[v] = pc[v]
    BY <1>3, <1>8 DEF Requeue
  <2>2. \A d \in Calls : Queued(d) \/ d = call[w] => Queued(d)'
    BY <1>3, <1>8, QueueMoves DEF Requeue
  <2>3. \A d \in Calls : HasJob(d) => HasJob(d)'
    BY <1>1, <2>1, <2>2 DEF HasJob
  <2>4. QED
    BY <1>1, <1>8, <2>3, KeepsJobs DEF StrandInv, Unfinished, Requeue
<1>9. ASSUME Begin(w) PROVE NoStrandedCall'
  BY <1>4, <1>9 DEF Begin
<1>10. ASSUME Convert(w) PROVE NoStrandedCall'
  BY <1>4, <1>10 DEF Convert
<1>11. ASSUME OpenPart(w) PROVE NoStrandedCall'
  BY <1>1, <1>11, KeepsJobs DEF OpenPart, StrandInv, Unfinished, HasJob, Queued
<1>12. ASSUME Advance(w) PROVE NoStrandedCall'
  BY <1>4, <1>12 DEF Advance, NextStage
<1>13. ASSUME SaveTranscript(w) PROVE NoStrandedCall'
  BY <1>4, <1>13 DEF SaveTranscript
<1>14. ASSUME SaveMetrics(w) PROVE NoStrandedCall'
  BY <1>4, <1>14 DEF SaveMetrics
<1>15. ASSUME SaveQa(w) PROVE NoStrandedCall'
  BY <1>4, <1>15 DEF SaveQa
<1>16. ASSUME OomRetry(w) PROVE NoStrandedCall'
  BY <1>4, <1>16 DEF OomRetry
<1>17. ASSUME HandlerDies(w) PROVE NoStrandedCall'
  BY <1>3, <1>17, <1>4 DEF HandlerDies, Working
<1>18. ASSUME Skip(w) PROVE NoStrandedCall'
  BY <1>3, <1>5, <1>18 DEF Skip, Live, Unfinished
<1>19. ASSUME Complete(w) PROVE NoStrandedCall'
  BY <1>3, <1>5, <1>19 DEF Complete, SetStatus, Live, Unfinished
<1>20. ASSUME Fail(w) PROVE NoStrandedCall'
  BY <1>3, <1>5, <1>20 DEF Fail, Working, SetStatus, Live, Unfinished
<1>21. ASSUME OomGiveUp(w) PROVE NoStrandedCall'
  BY <1>3, <1>5, <1>21 DEF OomGiveUp, SetStatus, Live, Unfinished
<1>22. ASSUME OomCheck(w) PROVE NoStrandedCall'
  BY <1>4, <1>22 DEF OomCheck
<1>23. NoStrandedCall'
  BY <1>6, <1>7, <1>8, <1>9, <1>10, <1>11, <1>12, <1>13, <1>14, <1>15, <1>16, <1>17, <1>18,
     <1>19, <1>20, <1>21, <1>22 DEF WorkerStep
<1>24. QED
  BY <1>2, <1>23 DEF StrandInv

(* The handlers: a step of a request, or of the pruner, leaves the workers
   alone. *)
LEMMA KeepsWorkers ==
  ASSUME NEW d \in Calls, HasJob(d), UNCHANGED <<pending, call, pc>>,
         Queued(d) => Queued(d)',
         d \in marked => d \in marked' \/ Queued(d)'
  PROVE  HasJob(d)'
  BY DEF HasJob

LEMMA RequestStrand ==
  ASSUME TypeInv, StrandInv, NEW c \in Calls, Request(c)
  PROVE  StrandInv'
<1> USE DEF store, files, boot, worker, requests, pruner
<1>1. UNCHANGED <<phase, pending, pc, call>>
  BY DEF Request, Upload, ReprocessMark, ReprocessSubmit, DeleteRead, DeleteAudio, DeleteWav,
     DeleteRow, DeleteFails, GetWaveform
<1>2. queue \in Seq(Calls) /\ row \in [Calls -> Statuses \cup {"absent"}]
  BY DEF TypeInv, TypeOK, QueueOK, StoreOK
<1>3. CASE Upload(c)
  <2>1. Queued(c)' /\ \A d \in Calls : Queued(d) => Queued(d)'
    BY <1>2, <1>3, QueueMoves DEF Upload
  <2>2. \A d \in Calls : d # c => row'[d] = row[d]
    BY <1>2, <1>3 DEF Upload
  <2>3. HasJob(c)' /\ \A d \in Calls : HasJob(d) => HasJob(d)'
    BY <1>1, <1>3, <2>1, KeepsWorkers DEF HasJob, Upload
  <2>4. NoStrandedCall'
    BY <1>1, <2>2, <2>3, KeepsJobs DEF StrandInv, Unfinished
  <2>5. QED
    BY <1>1, <1>3, <2>4 DEF Upload, StrandInv, Quiet, ResetDone
<1>4. CASE ReprocessMark(c)
  <2>1. \A d \in Calls : d # c => row'[d] = row[d]
    BY <1>2, <1>4 DEF ReprocessMark, SetStatus
  <2>2. HasJob(c)' /\ \A d \in Calls : HasJob(d) => HasJob(d)'
    BY <1>1, <1>4, KeepsWorkers DEF ReprocessMark, HasJob, Queued
  <2>3. NoStrandedCall'
    BY <1>1, <2>1, <2>2, KeepsJobs DEF StrandInv, Unfinished
  <2>4. QED
    BY <1>1, <1>4, <2>3 DEF ReprocessMark, StrandInv, Quiet, ResetDone
<1>5. CASE ReprocessSubmit(c)
  <2>1. Queued(c)' /\ \A d \in Calls : Queued(d) => Queued(d)'
    BY <1>2, <1>5, QueueMoves DEF ReprocessSubmit
  <2>2. \A d \in Calls : HasJob(d) => HasJob(d)'
    BY <1>1, <1>5, <2>1, KeepsWorkers DEF ReprocessSubmit
  <2>3. NoStrandedCall'
    BY <1>1, <1>5, <2>2, KeepsJobs DEF ReprocessSubmit, StrandInv, Unfinished
  <2>4. QED
    BY <1>1, <1>5, <2>3 DEF ReprocessSubmit, StrandInv, Quiet, ResetDone
<1>6. ASSUME UNCHANGED <<queue, marked>>,
             \A d \in Calls : row'[d] = row[d] \/ row'[d] = "absent"
      PROVE  StrandInv'
  <2>1. \A d \in Calls : HasJob(d) => HasJob(d)'
    BY <1>1, <1>6, KeepsWorkers DEF Queued
  <2>2. NoStrandedCall'
    BY <1>1, <1>6, <2>1, KeepsJobs DEF StrandInv, Unfinished
  <2>3. QED
    BY <1>1, <1>6, <2>2 DEF StrandInv, Quiet, ResetDone
<1>7. CASE DeleteRead(c) \/ DeleteAudio(c) \/ DeleteWav(c)
            \/ DeleteFails(c) \/ GetWaveform(c)
  BY <1>6, <1>7 DEF DeleteRead, DeleteAudio, DeleteWav, DeleteFails, GetWaveform
<1>8. CASE DeleteRow(c)
  BY <1>2, <1>6, <1>8 DEF DeleteRow, DropRows
<1>9. QED
  BY <1>3, <1>4, <1>5, <1>7, <1>8 DEF Request

LEMMA PrunerStrand ==
  ASSUME TypeInv, StrandInv, Prune
  PROVE  StrandInv'
<1> USE DEF store, files, boot, worker, requests, pruner
<1>1. UNCHANGED <<phase, pending, pc, call, queue, marked>>
  BY DEF Prune, Scan, PruneRow, PruneFile, PruneRowFails, PruneFileFails
<1>2. \A d \in Calls : row'[d] = row[d] \/ row'[d] = "absent"
  BY DEF Prune, Scan, PruneRow, PruneFile, PruneRowFails, PruneFileFails, DropRows, TypeInv,
         TypeOK, StoreOK
<1>3. \A d \in Calls : HasJob(d) => HasJob(d)'
  BY <1>1, KeepsWorkers DEF Queued
<1>4. NoStrandedCall'
  BY <1>1, <1>2, <1>3, KeepsJobs DEF StrandInv, Unfinished
<1>5. QED
  BY <1>1, <1>2, <1>4 DEF StrandInv, Quiet, ResetDone

LEMMA BootStrand ==
  ASSUME TypeInv, StrandInv, Startup \/ Halt
  PROVE  StrandInv'
<1> USE DEF store, files, boot, worker, requests, pruner
<1>1. CASE Boot
  BY <1>1 DEF Boot, StrandInv, NoStrandedCall, Quiet, ResetDone
<1>2. CASE ReadPending
  <2>1. \A d \in Calls : Unfinished(d)' => HasJob(d)'
    BY <1>2 DEF ReadPending, StrandInv, ResetDone, Unfinished, HasJob
  <2>2. QED
    BY <1>2, <2>1 DEF ReadPending, StrandInv, NoStrandedCall, Quiet, ResetDone
<1>3. ASSUME NEW c \in Calls, SubmitPending(c) PROVE StrandInv'
  <2>1. Queued(c)' /\ \A d \in Calls : Queued(d) => Queued(d)'
    BY <1>3, QueueMoves DEF SubmitPending, TypeInv, TypeOK, QueueOK
  <2>2. \A d \in Calls : HasJob(d) => HasJob(d)'
    BY <1>3, <2>1 DEF SubmitPending, HasJob
  <2>3. UNCHANGED <<row, phase>>
    BY <1>3 DEF SubmitPending
  <2>4. NoStrandedCall'
    BY <2>2, <2>3, KeepsJobs DEF StrandInv, Unfinished
  <2>5. phase \notin {"down", "booting"}
    BY <1>3 DEF SubmitPending, StrandInv, Quiet
  <2>6. QED
    BY <1>3, <2>3, <2>4, <2>5 DEF SubmitPending, StrandInv, Quiet, ResetDone
<1>4. CASE Serve
  <2>1. \A d \in Calls : HasJob(d)' <=> HasJob(d)
    BY <1>4 DEF Serve, HasJob, Queued
  <2>2. QED
    BY <1>4, <2>1 DEF Serve, StrandInv, NoStrandedCall, Quiet, ResetDone, Unfinished
<1>5. CASE Halt
  BY <1>5 DEF Halt, StrandInv, NoStrandedCall, Quiet, ResetDone
<1>6. QED
  BY <1>1, <1>2, <1>3, <1>4, <1>5 DEF Startup

LEMMA AudioOnlyStrand == StrandInv /\ AudioOnly => StrandInv'
  BY DEF StrandInv, NoStrandedCall, Unfinished, HasJob, Queued, Quiet, ResetDone,
         AudioOnly, store, boot, worker, requests

LEMMA QueueStepStrand ==
  ASSUME TypeInv, StrandInv, QueueStep
  PROVE  StrandInv'
  BY WorkerStrand, RequestStrand, PrunerStrand, BootStrand, AudioOnlyStrand DEF QueueStep

LEMMA StrandInvariant == Spec => []StrandInv
<1>1. TypeInv /\ StrandInv /\ [Next]_vars => StrandInv'
  BY NextIsQueueStep, QueueStepStrand
<1>2. QED
  BY InitStrand, TypeInvariant, <1>1, PTL DEF Spec

(* Whatever is queued, running, failing, retried, reprocessed, deleted, pruned
   or crashed: while the server runs, every call its database shows as
   unfinished has a job that is waiting, at work, about to be submitted, or
   that died with its worker thread. *)
THEOREM NothingStranded == Spec => []NoStrandedCall
  BY StrandInvariant, PTL DEF StrandInv

(***************************************************************************)
(* What becomes of a deleted row. The worker that is saving a transcript   *)
(* and the handler that deletes the call run in different threads.         *)
(***************************************************************************)

(* A row once gone stays gone: every UPDATE finds nothing to update, and an
   upload uses a fresh id. *)
LEMMA RowStaysAbsent ==
  ASSUME TypeInv, [Next]_vars, NEW c \in Calls, born[c] # 0, ~Live(c)
  PROVE  row'[c] = "absent"
<1> USE DEF store, files, boot, worker, requests, pruner, Live, TypeInv, TypeOK, StoreOK
<1>1. ASSUME NEW w \in Workers, WorkerStep(w) \/ HandlerDies(w) PROVE row'[c] = "absent"
  BY <1>1 DEF WorkerStep, Take, Skip, Begin, Convert, OpenPart, Advance, SaveTranscript,
     SaveMetrics, SaveQa, Complete, Settle, Fail, OomCheck, OomRetry, OomGiveUp, Requeue,
     HandlerDies,
     SetStatus
<1>2. ASSUME NEW d \in Calls, Request(d) PROVE row'[c] = "absent"
  BY <1>2 DEF Request, Upload, ReprocessMark, ReprocessSubmit, DeleteRead, DeleteAudio,
     DeleteWav, DeleteRow, DeleteFails, GetWaveform, DropRows, SetStatus
<1>3. CASE Prune
  BY <1>3 DEF Prune, Scan, PruneRow, PruneFile, PruneRowFails, PruneFileFails, DropRows
<1>4. CASE Startup \/ Crash
  BY <1>4 DEF Startup, Boot, ReadPending, SubmitPending, Serve, Crash, Halt
<1>5. CASE UNCHANGED vars
  BY <1>5 DEF vars
<1>6. QED
  BY <1>1, <1>2, <1>3, <1>4, <1>5 DEF Next

(* A deleted call never comes back, whichever threads still work on it. *)
THEOREM DeletedStaysDeleted == Spec => NoResurrection
<1>1. TypeInv /\ [Next]_vars => \A c \in Calls : born[c] # 0 /\ ~Live(c) => row'[c] = "absent"
  BY RowStaysAbsent
<1>2. QED
  BY TypeInvariant, <1>1, PTL DEF Spec, NoResurrection

LEMMA WorkerKeepsClean ==
  ASSUME TypeInv, DeletedLeavesNoData, NEW w \in Workers, WorkerStep(w) \/ HandlerDies(w)
  PROVE  DeletedLeavesNoData'
<1> USE DEF store, files, boot, worker, requests, pruner, Live, TypeInv, TypeOK, StoreOK,
            DeletedLeavesNoData
<1>1. CASE SaveTranscript(w) \/ SaveMetrics(w) \/ SaveQa(w)
  BY <1>1 DEF SaveTranscript, SaveMetrics, SaveQa
<1>2. CASE Begin(w) \/ Convert(w) \/ Advance(w) \/ Complete(w) \/ OomRetry(w) \/ OomGiveUp(w)
  BY <1>2 DEF Begin, Convert, Advance, Complete, OomCheck, OomRetry, OomGiveUp, SetStatus
<1>3. CASE Fail(w)
  BY <1>3 DEF Fail, SetStatus
<1>4. CASE Take(w) \/ Skip(w) \/ OpenPart(w) \/ Settle(w) \/ OomCheck(w) \/ Requeue(w)
              \/ HandlerDies(w)
  BY <1>4 DEF Take, Skip, OpenPart, Settle, OomCheck, Requeue, HandlerDies
<1>5. QED
  BY <1>1, <1>2, <1>3, <1>4 DEF WorkerStep

LEMMA RequestKeepsClean ==
  ASSUME TypeInv, DeletedLeavesNoData, NEW c \in Calls, Request(c)
  PROVE  DeletedLeavesNoData'
<1> USE DEF store, files, boot, worker, requests, pruner, Live, TypeInv, TypeOK, StoreOK,
            DeletedLeavesNoData
<1>1. CASE Upload(c)
  BY <1>1 DEF Upload
<1>2. CASE ReprocessMark(c)
  BY <1>2 DEF ReprocessMark, SetStatus
<1>3. CASE DeleteRow(c)
  BY <1>3 DEF DeleteRow, DropRows
<1>4. CASE ReprocessSubmit(c) \/ DeleteRead(c) \/ DeleteAudio(c) \/ DeleteWav(c)
            \/ DeleteFails(c) \/ GetWaveform(c)
  BY <1>4 DEF ReprocessSubmit, DeleteRead, DeleteAudio, DeleteWav, DeleteFails, GetWaveform
<1>5. QED
  BY <1>1, <1>2, <1>3, <1>4 DEF Request

(* A call deleted by a request or pruned at any moment, also between the saves
   of a worker that is completing it, leaves no transcript, metrics or QA
   behind, and no later save brings any back. *)
THEOREM DeletionIsComplete == Spec => []DeletedLeavesNoData
<1>1. Init => DeletedLeavesNoData
  BY DEF Init, DeletedLeavesNoData
<1>2. ASSUME TypeInv, DeletedLeavesNoData, [Next]_vars PROVE DeletedLeavesNoData'
  <2> USE <1>2 DEF store, files, boot, worker, requests, pruner, Live, TypeInv, TypeOK, StoreOK,
                   DeletedLeavesNoData
  <2>1. CASE Prune
    BY <2>1 DEF Prune, Scan, PruneRow, PruneFile, PruneRowFails, PruneFileFails, DropRows
  <2>2. CASE Startup \/ Crash
    BY <2>2 DEF Startup, Boot, ReadPending, SubmitPending, Serve, Crash, Halt
  <2>3. CASE UNCHANGED vars
    BY <2>3 DEF vars
  <2>4. QED
    BY <2>1, <2>2, <2>3, WorkerKeepsClean, RequestKeepsClean DEF Next
<1>3. QED
  BY TypeInvariant, <1>1, <1>2, PTL DEF Spec

(***************************************************************************)
(* Recordings. What makes AudioKept inductive is that the pruner removes   *)
(* the file of a row that is gone for good.                                *)
(***************************************************************************)
PrunedAreGone ==
    /\ \A c \in Calls : audio[c] \/ c \in doomed => born[c] # 0
    /\ pruning # NoCall => born[pruning] # 0 /\ ~Live(pruning)

KeptInv == AudioKept /\ PrunedAreGone

LEMMA KeptByWorkers ==
  ASSUME TypeInv, KeptInv, NEW w \in Workers, WorkerStep(w) \/ HandlerDies(w)
  PROVE  KeptInv'
<1>1. /\ UNCHANGED <<born, audio, deleting, doomed, pruning>>
      /\ used'.crash = used.crash /\ used'.error = used.error
      /\ row' = row \/ \E s \in Statuses : SetStatus(call[w], s)
  BY DEF TypeInv, TypeOK, CountersOK, Use, Note, store, files, boot, worker, requests, pruner,
     WorkerStep, Take, Skip, Begin, Convert, OpenPart, Advance, SaveTranscript, SaveMetrics,
     SaveQa, Complete, Settle, Fail, OomCheck, OomRetry, OomGiveUp, Requeue, HandlerDies
<1>2. \A c \in Calls : Live(c)' <=> Live(c)
  BY <1>1 DEF SetStatus, Live, TypeInv, TypeOK, StoreOK
<1>3. pruning \in Calls \cup {NoCall}
  BY DEF TypeInv, TypeOK, RequestsOK
<1>4. QED
  BY <1>1, <1>2, <1>3 DEF KeptInv, AudioKept, PrunedAreGone

LEMMA UploadIsBorn == 1 + Cardinality({d \in Calls : born[d] # 0}) # 0
<1>1. IsFiniteSet({d \in Calls : born[d] # 0})
  BY CallsAssumption, FS_Subset
<1>2. QED
  BY <1>1, FS_CardinalityType

LEMMA KeptByOthers ==
  ASSUME TypeInv, KeptInv, (\E c \in Calls : Request(c)) \/ Prune \/ Startup \/ Crash
  PROVE  KeptInv'
<1> USE DEF TypeInv, TypeOK, StoreOK, FilesOK, RequestsOK, CountersOK, KeptInv, AudioKept,
            PrunedAreGone, Live, store, files, boot, worker, requests, pruner
<1>1. ASSUME NEW c \in Calls, Upload(c) PROVE KeptInv'
  <2>1. used'.crash = used.crash /\ used'.error = used.error
    BY <1>1 DEF Upload, Use, Note
  <2>2. QED BY <1>1, <2>1, CallsAssumption, UploadIsBorn DEF Upload
<1>2. ASSUME NEW c \in Calls, ReprocessMark(c) PROVE KeptInv'
  BY <1>2 DEF ReprocessMark, SetStatus, Use, Note
<1>3. ASSUME NEW c \in Calls, ReprocessSubmit(c) \/ DeleteRead(c) \/ GetWaveform(c) PROVE KeptInv'
  <2>1. CASE ReprocessSubmit(c)
    BY <2>1 DEF ReprocessSubmit
  <2>2. CASE DeleteRead(c)
    BY <2>2 DEF DeleteRead, Use, Note
  <2>3. CASE GetWaveform(c)
    BY <2>3 DEF GetWaveform, Use, Note
  <2>4. QED BY <1>3, <2>1, <2>2, <2>3
<1>4. ASSUME NEW c \in Calls, DeleteAudio(c) \/ DeleteWav(c) PROVE KeptInv'
  BY <1>4 DEF DeleteAudio, DeleteWav
<1>5. ASSUME NEW c \in Calls, DeleteRow(c) PROVE KeptInv'
  BY <1>5 DEF DeleteRow, DropRows
<1>6. CASE Scan
  BY <1>6 DEF Scan, Files
<1>7. ASSUME NEW c \in Calls, PruneRow(c) PROVE KeptInv'
  BY <1>7 DEF PruneRow, DropRows, RowsOf
<1>8. CASE PruneFile
  BY <1>8 DEF PruneFile
<1>9. CASE Startup
  BY <1>9 DEF Startup, Boot, ReadPending, SubmitPending, Serve
<1>10. CASE Crash
  <2>1. used'.crash > 0 /\ UNCHANGED <<audio, born, row>> /\ doomed' = {} /\ pruning' = NoCall
    BY <1>10 DEF Crash, Halt, Use, Note
  <2>2. QED BY <2>1
<1>11. ASSUME NEW c \in Calls, DeleteFails(c) PROVE KeptInv'
  BY <1>11 DEF DeleteFails, Use, Note
<1>12. ASSUME NEW c \in Calls, PruneRowFails(c) PROVE KeptInv'
  BY <1>12 DEF PruneRowFails, DropRows, Use, Note
<1>13. CASE PruneFileFails
  BY <1>13 DEF PruneFileFails, Use, Note
<1>14. QED
  BY <1>1, <1>2, <1>3, <1>4, <1>5, <1>6, <1>7, <1>8, <1>9, <1>10, <1>11, <1>12, <1>13
  DEF Request, Prune

(* The recording of a call is there for as long as its row is, through every
   deletion and every round of the pruner, unless a DELETE is between the two, or
   the server has crashed or an exception has cut a DELETE short (delete_call,
   run_cleanup). *)
THEOREM AudioIsKept == Spec => []AudioKept
<1>1. Init => KeptInv
  BY DEF Init, KeptInv, AudioKept, PrunedAreGone, Live
<1>2. TypeInv /\ KeptInv /\ [Next]_vars => KeptInv'
  <2>1. TypeInv /\ KeptInv /\ UNCHANGED vars => KeptInv'
    BY DEF KeptInv, AudioKept, PrunedAreGone, Live, vars, store, files, requests, pruner
  <2>2. QED
    BY <2>1, KeptByWorkers, KeptByOthers DEF Next
<1>3. QED
  BY TypeInvariant, <1>1, <1>2, PTL DEF Spec, KeptInv

(***************************************************************************)
(* One job per call. Of the four places a job can be in - the queue, a     *)
(* worker, a reprocess handler, the list startup() works off - a call is   *)
(* in one only, once, and not before it has been uploaded.                 *)
(***************************************************************************)
AtWork(c, w) == call[w] = c /\ pc[w] \notin {"settling", "dead"}
Doing(c) == \E w \in Workers : AtWork(c, w)

QueuedOnce == \A i, j \in DOMAIN queue : queue[i] = queue[j] => i = j
DoneOnce == \A c \in Calls : \A v, w \in Workers : AtWork(c, v) /\ AtWork(c, w) => v = w
OnePlace ==
    \A c \in Calls :
        /\ Queued(c) => ~Doing(c) /\ c \notin marked /\ c \notin pending
        /\ Doing(c) => c \notin marked /\ c \notin pending
        /\ c \in marked => c \notin pending
BornFirst ==
    \A c \in Calls : Live(c) \/ Queued(c) \/ Doing(c) \/ c \in marked
        \/ c \in pending => born[c] # 0

OnceInv == QueuedOnce /\ DoneOnce /\ OnePlace /\ BornFirst

LEMMA InitOnce == Init => OnceInv
  BY CallsAssumption
  DEF Init, OnceInv, QueuedOnce, DoneOnce, OnePlace, BornFirst, Queued, Doing, AtWork, Live

(* A step that only takes jobs away *)
LEMMA FewerJobs ==
  ASSUME OnceInv, UNCHANGED <<queue, born>>,
         \A c \in Calls : Live(c)' => Live(c),
         \A c \in Calls, w \in Workers : AtWork(c, w)' => AtWork(c, w),
         marked' \subseteq marked, pending' \subseteq pending
  PROVE  OnceInv'
<1>1. \A c \in Calls : (Doing(c)' => Doing(c)) /\ (Queued(c)' <=> Queued(c))
  BY DEF Doing, Queued
<1>2. QED BY <1>1 DEF OnceInv, QueuedOnce, DoneOnce, OnePlace, BornFirst

(* A job is put at the end of the queue. *)
LEMMA JobQueued ==
  ASSUME OnceInv, NEW c \in Calls, queue \in Seq(Calls), queue' = Append(queue, c),
         ~Queued(c), ~Doing(c)', c \notin marked', c \notin pending', born'[c] # 0,
         \A d \in Calls : born[d] # 0 => born'[d] # 0,
         \A d \in Calls : d # c => (Live(d)' => Live(d)),
         \A d \in Calls, w \in Workers : AtWork(d, w)' => AtWork(d, w),
         marked' \subseteq marked, pending' \subseteq pending
  PROVE  OnceInv'
<1>1. \A d \in Calls : Queued(d)' => Queued(d) \/ d = c
  <2>1. DOMAIN queue' = 1..(Len(queue) + 1) /\ DOMAIN queue = 1..Len(queue)
        /\ queue'[Len(queue) + 1] = c /\ \A i \in 1..Len(queue) : queue'[i] = queue[i]
    OBVIOUS
  <2>2. QED BY <2>1 DEF Queued
<1>2. QueuedOnce'
  <2>1. DOMAIN queue' = 1..(Len(queue) + 1) /\ DOMAIN queue = 1..Len(queue)
        /\ queue'[Len(queue) + 1] = c /\ \A i \in 1..Len(queue) : queue'[i] = queue[i]
    OBVIOUS
  <2>2. \A i \in 1..Len(queue) : queue[i] # c
    BY <2>1 DEF Queued
  <2>3. QED BY <2>1, <2>2 DEF OnceInv, QueuedOnce
<1>3. DoneOnce'
  BY DEF OnceInv, DoneOnce
<1>4. \A d \in Calls : Doing(d)' => Doing(d)
  BY DEF Doing
<1>5. OnePlace' /\ BornFirst'
  BY <1>1, <1>4 DEF OnceInv, OnePlace, BornFirst
<1>6. QED BY <1>2, <1>3, <1>5 DEF OnceInv

LEMMA WorkerOnce ==
  ASSUME TypeInv, OnceInv, NEW w \in Workers, WorkerStep(w) \/ HandlerDies(w)
  PROVE  OnceInv'
<1> USE DEF store, files, boot, worker, requests, pruner
<1>1. /\ call \in [Workers -> Calls \cup {NoCall}] /\ queue \in Seq(Calls)
      /\ pc \in [Workers -> {"idle", "start", "retrying", "backoff", "settling", "dead"}
         \cup Stages \cup SaveSteps]
      /\ row \in [Calls -> Statuses \cup {"absent"}]
      /\ pc[w] = "idle" => call[w] = NoCall
      /\ pc[w] # "idle" => call[w] \in Calls
      /\ NoCall \notin Calls
  BY CallsAssumption DEF TypeInv, TypeOK, QueueOK, WorkersOK, HoldsJob, StoreOK
<1>2. UNCHANGED <<marked, pending, born>>
  BY DEF WorkerStep, Take, Skip, Begin, Convert, OpenPart, Advance, SaveTranscript, SaveMetrics,
     SaveQa, Complete, Settle, Fail, OomCheck, OomRetry, OomGiveUp, Requeue, HandlerDies
<1>3. \A c \in Calls : Live(c)' => Live(c)
  <2>1. row' = row \/ \E s \in Statuses : SetStatus(call[w], s)
    BY DEF WorkerStep, Take, Skip, Begin, Convert, OpenPart, Advance, SaveTranscript, SaveMetrics,
       SaveQa, Complete, Settle, Fail, OomCheck, OomRetry, OomGiveUp, Requeue, HandlerDies
  <2>2. QED BY <1>1, <2>1 DEF SetStatus, Live
<1>4. CASE Take(w)
  <2>1. queue # <<>> /\ queue' = Tail(queue) /\ Head(queue) = queue[1] /\ Head(queue) \in Calls
    BY <1>1, <1>4 DEF Take
  <2>2. DOMAIN queue = 1..Len(queue) /\ Len(queue) > 0 /\ DOMAIN queue' = 1..(Len(queue) - 1)
        /\ \A i \in 1..(Len(queue) - 1) : queue'[i] = queue[i + 1]
    BY <1>1, <2>1
  <2>3. \A c \in Calls : Queued(c)' => Queued(c) /\ c # Head(queue)
    BY <2>1, <2>2 DEF Queued, OnceInv, QueuedOnce
  <2>4. QueuedOnce'
    <3>1. ASSUME NEW i \in 1..(Len(queue) - 1), NEW j \in 1..(Len(queue) - 1), queue'[i] = queue'[j]
          PROVE  i = j
      <4>1. i + 1 \in DOMAIN queue /\ j + 1 \in DOMAIN queue /\ queue[i + 1] = queue[j + 1]
        BY <1>1, <2>2, <3>1
      <4>2. i + 1 = j + 1
        BY <4>1 DEF OnceInv, QueuedOnce
      <4>3. QED BY <4>2
    <3>2. QED BY <2>2, <3>1 DEF QueuedOnce
  <2>5. Queued(Head(queue))
    BY <2>1, <2>2 DEF Queued
  <2>6. \A c \in Calls, v \in Workers : AtWork(c, v)' => AtWork(c, v) \/ (v = w /\ c = Head(queue))
    BY <1>1, <1>4 DEF Take, AtWork
  <2>7. \A c \in Calls : Doing(c)' => Doing(c) \/ c = Head(queue)
    BY <2>6 DEF Doing
  <2>8. \A v \in Workers : ~AtWork(Head(queue), v)
    BY <2>1, <2>5 DEF OnceInv, OnePlace, Doing
  <2>9. DoneOnce'
    BY <2>6, <2>8 DEF OnceInv, DoneOnce
  <2>10. OnePlace' /\ BornFirst'
    BY <1>2, <1>3, <2>1, <2>3, <2>5, <2>7 DEF OnceInv, OnePlace, BornFirst
  <2>11. QED BY <2>4, <2>9, <2>10 DEF OnceInv
<1>5. CASE Requeue(w)
  <2>1. call[w] \in Calls /\ AtWork(call[w], w)
    BY <1>1, <1>5 DEF Requeue, AtWork
  <2>2. ~Queued(call[w]) /\ call[w] \notin marked /\ call[w] \notin pending /\ born[call[w]] # 0
    BY <2>1 DEF OnceInv, OnePlace, BornFirst, Doing
  <2>3. \A c \in Calls, v \in Workers : AtWork(c, v)' => AtWork(c, v) /\ v # w
    BY <1>1, <1>5 DEF Requeue, AtWork
  <2>4. \A v \in Workers : AtWork(call[w], v) => v = w
    BY <2>1 DEF OnceInv, DoneOnce
  <2>5. ASSUME NEW c \in Calls, c = call[w] PROVE ~Doing(c)'
    BY <2>3, <2>4, <2>5 DEF Doing
  <2>6. PICK c \in Calls : c = call[w]
    BY <2>1
  <2>7. queue' = Append(queue, c)
    BY <1>5, <2>6 DEF Requeue
  <2>8. QED BY <1>1, <1>2, <1>3, <2>2, <2>3, <2>5, <2>6, <2>7, JobQueued
<1>6. ASSUME UNCHANGED queue, \A c \in Calls, v \in Workers : AtWork(c, v)' => AtWork(c, v)
      PROVE  OnceInv'
  BY <1>2, <1>3, <1>6, FewerJobs
<1>7. CASE Skip(w) \/ Begin(w) \/ Convert(w) \/ OpenPart(w) \/ Advance(w)
  BY <1>1, <1>6, <1>7 DEF Skip, Begin, Convert, OpenPart, Advance, AtWork
<1>8. CASE SaveTranscript(w) \/ SaveMetrics(w) \/ SaveQa(w) \/ Complete(w)
  BY <1>1, <1>6, <1>8 DEF SaveTranscript, SaveMetrics, SaveQa, Complete, AtWork
<1>9. CASE Settle(w)
  BY <1>1, <1>6, <1>9 DEF Settle, AtWork
<1>10. CASE Fail(w) \/ OomCheck(w) \/ OomRetry(w) \/ OomGiveUp(w) \/ HandlerDies(w)
  BY <1>1, <1>6, <1>10 DEF Fail, OomCheck, OomRetry, OomGiveUp, HandlerDies, Working, AtWork
<1>11. QED BY <1>4, <1>5, <1>7, <1>8, <1>9, <1>10 DEF WorkerStep

LEMMA RequestOnce ==
  ASSUME ~Overlap, TypeInv, OnceInv, NEW c \in Calls, Request(c)
  PROVE  OnceInv'
<1> USE DEF store, files, boot, worker, requests, pruner
<1>1. /\ queue \in Seq(Calls) /\ row \in [Calls -> Statuses \cup {"absent"}]
      /\ born \in [Calls -> Nat]
  BY DEF TypeInv, TypeOK, QueueOK, StoreOK
<1>2. CASE Upload(c)
  <2>1. ~Queued(c) /\ ~Doing(c) /\ c \notin marked /\ c \notin pending
    BY <1>2 DEF Upload, OnceInv, BornFirst
  <2>2. born'[c] # 0 /\ \A d \in Calls : born[d] # 0 => born'[d] # 0
    BY <1>1, <1>2, UploadIsBorn DEF Upload
  <2>3. \A d \in Calls : d # c => (Live(d)' => Live(d))
    BY <1>1, <1>2 DEF Upload, Live
  <2>4. \A d \in Calls, w \in Workers : AtWork(d, w)' => AtWork(d, w)
    BY <1>2 DEF Upload, AtWork
  <2>5. ~Doing(c)'
    BY <2>1, <2>4 DEF Doing
  <2>6. UNCHANGED <<marked, pending>> /\ queue' = Append(queue, c)
    BY <1>2 DEF Upload
  <2>7. QED BY <1>1, <2>1, <2>2, <2>3, <2>4, <2>5, <2>6, JobQueued
<1>3. CASE ReprocessMark(c)
  <2>1. ~Queued(c) /\ ~Doing(c) /\ c \notin marked /\ c \notin pending
    BY <1>3 DEF ReprocessMark, Settled, InFlight, Doing, AtWork
  <2>2. UNCHANGED <<queue, pending, born>> /\ marked' = marked \cup {c}
        /\ \A d \in Calls, w \in Workers : AtWork(d, w)' <=> AtWork(d, w)
    BY <1>3 DEF ReprocessMark, AtWork
  <2>3. Live(c) /\ \A d \in Calls : Live(d)' => Live(d)
    BY <1>1, <1>3 DEF ReprocessMark, SetStatus, Live
  <2>4. \A d \in Calls : (Doing(d)' <=> Doing(d)) /\ (Queued(d)' <=> Queued(d))
    BY <2>2 DEF Doing, Queued
  <2>5. QueuedOnce' /\ DoneOnce'
    BY <2>2 DEF OnceInv, QueuedOnce, DoneOnce
  <2>6. OnePlace' /\ BornFirst'
    BY <2>1, <2>2, <2>3, <2>4 DEF OnceInv, OnePlace, BornFirst
  <2>7. QED BY <2>5, <2>6 DEF OnceInv
<1>4. CASE ReprocessSubmit(c)
  <2>1. c \in marked /\ ~Queued(c) /\ ~Doing(c) /\ c \notin pending /\ born[c] # 0
    BY <1>4 DEF ReprocessSubmit, OnceInv, OnePlace, BornFirst
  <2>2. /\ UNCHANGED <<born, pending>> /\ marked' = marked \ {c} /\ queue' = Append(queue, c)
        /\ \A d \in Calls : Live(d)' => Live(d)
        /\ \A d \in Calls, w \in Workers : AtWork(d, w)' => AtWork(d, w)
    BY <1>4 DEF ReprocessSubmit, AtWork, Live
  <2>3. ~Doing(c)'
    BY <2>1, <2>2 DEF Doing
  <2>4. QED BY <1>1, <2>1, <2>2, <2>3, JobQueued
<1>5. CASE DeleteRead(c) \/ DeleteAudio(c) \/ DeleteWav(c) \/ DeleteRow(c)
            \/ DeleteFails(c) \/ GetWaveform(c)
  <2>1. UNCHANGED <<queue, born, marked, pending, call, pc>> /\ \A d \in Calls : Live(d)' => Live(d)
    BY <1>1, <1>5 DEF DeleteRead, DeleteAudio, DeleteWav, DeleteRow, DeleteFails, GetWaveform,
           DropRows, Live
  <2>2. QED BY <2>1, FewerJobs DEF AtWork
<1>6. QED BY <1>2, <1>3, <1>4, <1>5 DEF Request

LEMMA ServerOnce ==
  ASSUME TypeInv, Quiet, OnceInv, Prune \/ Startup \/ Halt \/ AudioOnly
  PROVE  OnceInv'
<1> USE DEF store, files, boot, worker, requests, pruner
<1>1. /\ queue \in Seq(Calls) /\ row \in [Calls -> Statuses \cup {"absent"}]
      /\ NoCall \notin Calls
  BY CallsAssumption DEF TypeInv, TypeOK, QueueOK, StoreOK
<1>2. CASE Prune \/ Boot \/ Serve \/ AudioOnly
  <2>1. UNCHANGED <<queue, born, marked, pending, call, pc>> /\ \A d \in Calls : Live(d)' => Live(d)
    BY <1>1, <1>2 DEF Prune, Scan, PruneRow, PruneFile, PruneRowFails, PruneFileFails, Boot,
           Serve, DropRows, Live, AudioOnly
  <2>2. QED BY <2>1, FewerJobs DEF AtWork
<1>3. CASE Halt
  <2>1. /\ queue' = <<>> /\ marked' = {} /\ pending' = {} /\ UNCHANGED <<born, row>>
        /\ \A c \in Calls, w \in Workers : ~AtWork(c, w)'
    BY <1>1, <1>3 DEF Halt, AtWork
  <2>2. \A c \in Calls : ~Queued(c)' /\ ~Doing(c)'
    BY <2>1 DEF Queued, Doing
  <2>3. QED
    BY <2>1, <2>2 DEF OnceInv, QueuedOnce, DoneOnce, OnePlace, BornFirst, Live
<1>4. CASE ReadPending
  <2>1. /\ queue = <<>> /\ marked = {} /\ UNCHANGED <<queue, marked, born, row, call, pc>>
        /\ pending' \subseteq {c \in Calls : Live(c)}
    BY <1>4 DEF ReadPending, Quiet, Live
  <2>2. \A c \in Calls, w \in Workers : ~AtWork(c, w)
    BY <1>1, <1>4 DEF ReadPending, Quiet, AtWork, TypeInv, HoldsJob
  <2>3. \A c \in Calls : ~Queued(c)' /\ ~Doing(c)'
    BY <2>1, <2>2 DEF Queued, Doing, AtWork
  <2>4. QED
    BY <2>1, <2>2, <2>3 DEF OnceInv, QueuedOnce, DoneOnce, OnePlace, BornFirst, Live, AtWork
<1>5. ASSUME NEW c \in Calls, SubmitPending(c) PROVE OnceInv'
  <2>1. c \in pending /\ ~Queued(c) /\ ~Doing(c) /\ c \notin marked /\ born[c] # 0
    BY <1>5 DEF SubmitPending, OnceInv, OnePlace, BornFirst
  <2>2. /\ UNCHANGED <<born, marked>> /\ pending' = pending \ {c} /\ queue' = Append(queue, c)
        /\ \A d \in Calls : Live(d)' => Live(d)
        /\ \A d \in Calls, w \in Workers : AtWork(d, w)' => AtWork(d, w)
    BY <1>5 DEF SubmitPending, AtWork, Live
  <2>3. ~Doing(c)'
    BY <2>1, <2>2 DEF Doing
  <2>4. QED BY <1>1, <2>1, <2>2, <2>3, JobQueued
<1>6. QED BY <1>2, <1>3, <1>4, <1>5 DEF Startup

LEMMA QueueStepOnce ==
  ASSUME ~Overlap, TypeInv, StrandInv, OnceInv, QueueStep
  PROVE  OnceInv'
  BY WorkerOnce, RequestOnce, ServerOnce DEF QueueStep, StrandInv

LEMMA OnePlaceIsOneJob == ASSUME OnceInv, TypeInv PROVE OneJobPerCall
<1> SUFFICES ASSUME NEW c \in Calls
             PROVE  Cardinality(Jobs(c)) + Cardinality(InFlight(c))
                       + Cardinality({c} \cap marked) + Cardinality({c} \cap pending) =< 1
  BY DEF OneJobPerCall
<1>1. ASSUME NEW S, \A x, y \in S : x = y
      PROVE  Cardinality(S) = IF S = {} THEN 0 ELSE 1
  <2>1. CASE S = {}
    BY <2>1, FS_EmptySet
  <2>2. CASE S # {}
    <3>1. PICK x : x \in S
      BY <2>2
    <3>2. S = {x}
      BY <1>1, <3>1
    <3>3. Cardinality({x}) = 1
      BY FS_Singleton
    <3>4. QED BY <2>2, <3>2, <3>3
  <2>3. QED BY <2>1, <2>2
<1>2. Cardinality(Jobs(c)) = IF Queued(c) THEN 1 ELSE 0
  <2>1. \A i, j \in Jobs(c) : i = j
    BY DEF Jobs, OnceInv, QueuedOnce
  <2>2. Jobs(c) = {} <=> ~Queued(c)
    BY DEF Jobs, Queued
  <2>3. QED BY <1>1, <2>1, <2>2
<1>3. Cardinality(InFlight(c)) = IF Doing(c) THEN 1 ELSE 0
  <2>1. \A v, w \in InFlight(c) : v = w
    BY DEF InFlight, OnceInv, DoneOnce, AtWork
  <2>2. InFlight(c) = {} <=> ~Doing(c)
    BY DEF InFlight, Doing, AtWork
  <2>3. QED BY <1>1, <2>1, <2>2
<1>4. Cardinality({c} \cap marked) = IF c \in marked THEN 1 ELSE 0
  <2>1. {c} \cap marked = {} <=> c \notin marked
    OBVIOUS
  <2>2. QED BY <1>1, <2>1
<1>5. Cardinality({c} \cap pending) = IF c \in pending THEN 1 ELSE 0
  <2>1. {c} \cap pending = {} <=> c \notin pending
    OBVIOUS
  <2>2. QED BY <1>1, <2>1
<1>6. QED BY <1>2, <1>3, <1>4, <1>5 DEF OnceInv, OnePlace

(* When clients wait for a call to settle before they ask for it again, the
   queue, the retries, the handlers and a restart never have two jobs of one
   call at work, for any number of calls and workers (_loop, submit, startup). *)
THEOREM OneJobAtATime == ASSUME ~Overlap PROVE Spec => []OneJobPerCall
<1>1. TypeInv /\ StrandInv /\ OnceInv /\ [Next]_vars => OnceInv'
  BY NextIsQueueStep, QueueStepOnce
<1>2. QED
  BY InitOnce, <1>1, TypeInvariant, StrandInvariant, OnePlaceIsOneJob, PTL DEF Spec

(***************************************************************************)
(* Retries. A count belongs to a job that waits or that a worker holds, and*)
(* the worker that lets go of the job either queues it again or forgets the*)
(* count. Between the check and the increment the count must not grow,     *)
(* which takes that no other worker has a job of the call (OnceInv).       *)
(***************************************************************************)
RetryingInBudget == \A w \in Workers : pc[w] = "retrying" => retries[call[w]] < MaxOomRetries

BudgetInv == RetryBudget /\ RetryingInBudget

Held(c) == Queued(c) \/ \E w \in Workers : call[w] = c

LEMMA KeepsBudget ==
  ASSUME BudgetInv, UNCHANGED retries, \A c \in Calls : Held(c) => Held(c)',
         \A w \in Workers : pc'[w] = "retrying" => pc[w] = "retrying" /\ call'[w] = call[w]
  PROVE  BudgetInv'
  BY DEF BudgetInv, RetryBudget, RetryingInBudget, Held

LEMMA WorkerKeepsBudget ==
  ASSUME TypeInv, OnceInv, BudgetInv, NEW w \in Workers, WorkerStep(w) \/ HandlerDies(w)
  PROVE  BudgetInv'
<1> USE DEF store, files, boot, worker, requests, pruner
<1>1. /\ call \in [Workers -> Calls \cup {NoCall}] /\ queue \in Seq(Calls)
      /\ pc \in [Workers -> {"idle", "start", "retrying", "backoff", "settling", "dead"}
                                \cup Stages \cup SaveSteps]
      /\ retries \in [Calls -> Nat]
      /\ \A v \in Workers : pc[v] = "idle" => call[v] = NoCall
      /\ \A v \in Workers : pc[v] # "idle" => call[v] \in Calls
  BY DEF TypeInv, TypeOK, QueueOK, WorkersOK, HoldsJob
<1>2. ASSUME UNCHANGED <<queue, call, retries>>,
             \A v \in Workers : pc'[v] = "retrying" => pc[v] = "retrying"
      PROVE  BudgetInv'
  <2>1. \A c \in Calls : Held(c) => Held(c)'
    BY <1>2 DEF Held, Queued
  <2>2. QED BY <1>2, <2>1, KeepsBudget
<1>3. CASE Take(w)
  <2>1. \A c \in Calls : Queued(c) => c = Head(queue) \/ Queued(c)'
    BY <1>1, <1>3, QueueMoves DEF Take
  <2>2. call'[w] = Head(queue) /\ call[w] = NoCall /\ \A v \in Workers : v # w => call'[v] = call[v]
    BY <1>1, <1>3 DEF Take
  <2>3. \A c \in Calls : Held(c) => Held(c)'
    BY <2>1, <2>2, CallsAssumption DEF Held
  <2>4. \A v \in Workers : pc'[v] = "retrying" => pc[v] = "retrying" /\ call'[v] = call[v]
    BY <1>1, <1>3 DEF Take
  <2>5. QED BY <1>3, <2>3, <2>4, KeepsBudget DEF Take
<1>4. CASE Requeue(w)
  <2>1. \A c \in Calls : Queued(c) \/ c = call[w] => Queued(c)'
    BY <1>1, <1>4, QueueMoves DEF Requeue
  <2>2. \A v \in Workers : v # w => call'[v] = call[v]
    BY <1>1, <1>4 DEF Requeue
  <2>3. \A c \in Calls : Held(c) => Held(c)'
    BY <2>1, <2>2 DEF Held
  <2>4. \A v \in Workers : pc'[v] = "retrying" => pc[v] = "retrying" /\ call'[v] = call[v]
    BY <1>1, <1>4 DEF Requeue
  <2>5. QED BY <1>4, <2>3, <2>4, KeepsBudget DEF Requeue
<1>5. CASE Settle(w)
  <2>1. \A v \in Workers : v # w => call'[v] = call[v] /\ pc'[v] = pc[v]
    BY <1>1, <1>5 DEF Settle
  <2>2. \A c \in Calls : Held(c) /\ c # call[w] => Held(c)'
    BY <1>5, <2>1 DEF Held, Queued, Settle
  <2>3. \A c \in Calls : retries'[c] = IF c = call[w] THEN 0 ELSE retries[c]
    BY <1>1, <1>5 DEF Settle
  <2>4. RetryBudget'
    BY <2>2, <2>3, BoundsAssumption DEF BudgetInv, RetryBudget, Held
  <2>5. pc'[w] # "retrying"
    BY <1>1, <1>5 DEF Settle
  <2>6. RetryingInBudget'
    BY <1>1, <2>1, <2>3, <2>5, BoundsAssumption DEF BudgetInv, RetryingInBudget
  <2>7. QED BY <2>4, <2>6 DEF BudgetInv
(* the increment *)
<1>6. ASSUME UNCHANGED <<queue, call>>, pc[w] = "retrying",
             retries' = [retries EXCEPT ![call[w]] = @ + 1],
             \E p \in {"backoff", "dead"} : pc' = [pc EXCEPT ![w] = p]
      PROVE  BudgetInv'
  <2>1. call[w] \in Calls /\ AtWork(call[w], w) /\ retries[call[w]] < MaxOomRetries
    BY <1>1, <1>6 DEF AtWork, BudgetInv, RetryingInBudget
  <2>2. \A c \in Calls : Held(c) => Held(c)'
    BY <1>6 DEF Held, Queued
  <2>3. Held(call[w])'
    BY <1>6 DEF Held
  <2>4. \A c \in Calls : retries'[c] = IF c = call[w] THEN retries[c] + 1 ELSE retries[c]
    BY <1>1, <1>6
  <2>5. RetryBudget'
    BY <1>1, <2>1, <2>2, <2>3, <2>4, BoundsAssumption DEF BudgetInv, RetryBudget, Held
  <2>6. ASSUME NEW v \in Workers, pc'[v] = "retrying"
        PROVE  pc[v] = "retrying" /\ call[v] \in Calls /\ call[v] # call[w]
    <3>1. v # w /\ pc[v] = "retrying" /\ call[v] \in Calls
      BY <1>1, <1>6, <2>6
    <3>2. AtWork(call[v], v)
      BY <3>1 DEF AtWork
    <3>3. QED BY <2>1, <3>1, <3>2 DEF OnceInv, DoneOnce
  <2>7. RetryingInBudget'
    BY <1>6, <2>4, <2>6 DEF BudgetInv, RetryingInBudget
  <2>8. QED BY <2>5, <2>7 DEF BudgetInv
<1>7. CASE OomRetry(w)
  BY <1>6, <1>7 DEF OomRetry
<1>8. CASE HandlerDies(w)
  <2>1. CASE UNCHANGED retries
    BY <1>1, <1>2, <1>8, <2>1 DEF HandlerDies
  <2>2. QED BY <1>6, <1>8, <2>1 DEF HandlerDies
<1>9. CASE Skip(w) \/ Begin(w) \/ Convert(w) \/ OpenPart(w) \/ SaveTranscript(w)
  BY <1>1, <1>2, <1>9 DEF Skip, Begin, Convert, OpenPart, SaveTranscript
<1>10. CASE SaveMetrics(w) \/ SaveQa(w) \/ Complete(w) \/ Fail(w) \/ OomGiveUp(w)
  BY <1>1, <1>2, <1>10 DEF SaveMetrics, SaveQa, Complete, Fail, OomGiveUp
<1>11. CASE Advance(w)
  BY <1>1, <1>2, <1>11 DEF Advance, NextStage
(* the check *)
<1>12. CASE OomCheck(w)
  <2>1. UNCHANGED <<queue, call, retries>> /\ retries[call[w]] < MaxOomRetries
        /\ \A v \in Workers \ {w} : pc'[v] = pc[v]
    BY <1>1, <1>12 DEF OomCheck
  <2>2. \A c \in Calls : Held(c)' <=> Held(c)
    BY <2>1 DEF Held, Queued
  <2>3. QED BY <2>1, <2>2 DEF BudgetInv, RetryBudget, RetryingInBudget, Held
<1>13. QED
  BY <1>3, <1>4, <1>5, <1>7, <1>8, <1>9, <1>10, <1>11, <1>12 DEF WorkerStep

LEMMA OthersKeepBudget ==
  ASSUME TypeInv, BudgetInv,
         (\E c \in Calls : Request(c)) \/ Prune \/ Startup \/ Crash \/ UNCHANGED vars
  PROVE  BudgetInv'
<1> USE DEF store, files, boot, worker, requests, pruner
<1>1. queue \in Seq(Calls)
  BY DEF TypeInv, TypeOK, QueueOK
<1>2. ASSUME UNCHANGED <<pc, call, retries>>,
             UNCHANGED queue \/ \E d \in Calls : queue' = Append(queue, d)
      PROVE  BudgetInv'
  <2>1. \A c \in Calls : Queued(c) => Queued(c)'
    BY <1>1, <1>2, QueueMoves DEF Queued
  <2>2. QED BY <1>2, <2>1, KeepsBudget DEF Held
<1>3. ASSUME NEW c \in Calls, Request(c) PROVE BudgetInv'
  BY <1>2, <1>3 DEF Request, Upload, ReprocessMark, ReprocessSubmit, DeleteRead, DeleteAudio,
     DeleteWav, DeleteRow, DeleteFails, GetWaveform
<1>4. CASE Prune
  BY <1>2, <1>4 DEF Prune, Scan, PruneRow, PruneFile, PruneRowFails, PruneFileFails
<1>5. CASE Startup
  BY <1>2, <1>5 DEF Startup, Boot, ReadPending, SubmitPending, Serve
<1>6. CASE Crash
  BY <1>6, BoundsAssumption DEF Crash, Halt, BudgetInv, RetryBudget, RetryingInBudget
<1>7. CASE UNCHANGED vars
  BY <1>2, <1>7 DEF vars
<1>8. QED BY <1>3, <1>4, <1>5, <1>6, <1>7

(* When clients wait for a call to settle before they ask for it again, the
   retries of a call never exceed MAX_OOM_RETRIES, though the check and the
   increment are apart, and none are left over for a later job of the call
   (_loop). *)
THEOREM RetriesAreBounded == ASSUME ~Overlap PROVE Spec => []RetryBudget
<1>1. Init => BudgetInv
  BY BoundsAssumption DEF Init, BudgetInv, RetryBudget, RetryingInBudget
<1>2. TypeInv /\ StrandInv /\ OnceInv /\ BudgetInv /\ [Next]_vars => OnceInv' /\ BudgetInv'
  BY WorkerKeepsBudget, OthersKeepBudget, NextIsQueueStep, QueueStepOnce DEF Next
<1>3. QED
  BY InitOnce, TypeInvariant, StrandInvariant, <1>1, <1>2, PTL DEF Spec, BudgetInv

(***************************************************************************)
(* Results. While a job of a call is anywhere, the row does not read that  *)
(* it is over, and what its worker has saved so far is of its own run.     *)
(***************************************************************************)
Over == {"completed", "failed"}

NotYetOver ==
    \A c \in Calls : Queued(c) \/ Doing(c) \/ c \in marked \/ c \in pending => row[c] \notin Over
OwnResults ==
    \A w \in Workers :
        /\ pc[w] \in Stages \cup SaveSteps => run[w] # 0
        /\ pc[w] \in {"savingMetrics", "savingQa", "completing"} /\ Live(call[w])
              => transcript[call[w]] = run[w]
        /\ pc[w] \in {"savingQa", "completing"} /\ Live(call[w]) => metrics[call[w]] = run[w]

ResultsInv == NotYetOver /\ OwnResults /\ CompletedHasResults

LEMMA InitResults == Init => ResultsInv
  BY CallsAssumption
  DEF Init, ResultsInv, NotYetOver, OwnResults, CompletedHasResults, Queued, Doing, AtWork, Live

LEMMA WorkerResults ==
  ASSUME TypeInv, OnceInv, ResultsInv, NEW w \in Workers, WorkerStep(w) \/ HandlerDies(w)
  PROVE  ResultsInv'
<1> USE DEF Over, store, files, boot, worker, requests, pruner
<1>1. /\ call \in [Workers -> Calls \cup {NoCall}] /\ queue \in Seq(Calls)
      /\ pc \in [Workers -> {"idle", "start", "retrying", "backoff", "settling", "dead"}
         \cup Stages \cup SaveSteps]
      /\ row \in [Calls -> Statuses \cup {"absent"}]
      /\ transcript \in [Calls -> Nat] /\ metrics \in [Calls -> Nat]
      /\ run \in [Workers -> Nat] /\ runs \in [Calls -> Nat]
      /\ \A v \in Workers : pc[v] = "idle" => call[v] = NoCall
      /\ \A v \in Workers : pc[v] # "idle" => call[v] \in Calls
      /\ NoCall \notin Calls
  BY CallsAssumption DEF TypeInv, TypeOK, QueueOK, WorkersOK, HoldsJob, StoreOK, CountersOK
<1>2. UNCHANGED <<marked, pending>>
  BY DEF WorkerStep, Take, Skip, Begin, Convert, OpenPart, Advance, SaveTranscript, SaveMetrics,
     SaveQa, Complete, Settle, Fail, OomCheck, OomRetry, OomGiveUp, Requeue, HandlerDies
<1>3. ASSUME pc[w] \notin {"idle", "settling", "dead"}
      PROVE  /\ call[w] \in Calls /\ AtWork(call[w], w) /\ Doing(call[w])
             /\ \A v \in Workers : AtWork(call[w], v) => v = w
             /\ row[call[w]] \notin Over
             /\ ~Queued(call[w]) /\ call[w] \notin marked /\ call[w] \notin pending
  <2>1. call[w] \in Calls /\ AtWork(call[w], w)
    BY <1>1, <1>3 DEF AtWork
  <2>2. Doing(call[w])
    BY <2>1 DEF Doing
  <2>3. QED
    BY <2>1, <2>2 DEF OnceInv, DoneOnce, OnePlace, ResultsInv, NotYetOver
<1>4. ASSUME UNCHANGED <<row, transcript, metrics>>,
             \A c \in Calls : Queued(c)' \/ Doing(c)' => Queued(c) \/ Doing(c),
             \A v \in Workers :
                pc'[v] \in Stages \cup SaveSteps =>
                    /\ UNCHANGED <<call[v], run[v]>>
                    /\ pc'[v] = pc[v]
      PROVE  ResultsInv'
  BY <1>2, <1>4 DEF ResultsInv, NotYetOver, OwnResults, CompletedHasResults, Live
<1>5. CASE Take(w)
  <2>1. queue # <<>> /\ queue' = Tail(queue) /\ Head(queue) = queue[1] /\ Head(queue) \in Calls
    BY <1>1, <1>5 DEF Take
  <2>2. DOMAIN queue = 1..Len(queue) /\ Len(queue) > 0 /\ DOMAIN queue' = 1..(Len(queue) - 1)
        /\ \A i \in 1..(Len(queue) - 1) : queue'[i] = queue[i + 1]
    BY <1>1, <2>1
  <2>3. \A c \in Calls : Queued(c)' => Queued(c)
    BY <2>1, <2>2 DEF Queued
  <2>4. Queued(Head(queue))
    BY <2>1, <2>2 DEF Queued
  <2>5. \A c \in Calls : Doing(c)' => Doing(c) \/ c = Head(queue)
    BY <1>1, <1>5 DEF Take, AtWork, Doing
  <2>6. \A v \in Workers : pc'[v] \in Stages \cup SaveSteps =>
              UNCHANGED <<call[v], run[v]>> /\ pc'[v] = pc[v]
    BY <1>1, <1>5 DEF Take
  <2>7. QED BY <1>4, <1>5, <2>3, <2>4, <2>5, <2>6 DEF Take
<1>6. CASE Requeue(w)
  <2>1. call[w] \in Calls /\ Doing(call[w])
    BY <1>3, <1>6 DEF Requeue
  <2>2. \A c \in Calls : Queued(c)' => Queued(c) \/ c = call[w]
    <3>1. queue' = Append(queue, call[w])
      BY <1>6 DEF Requeue
    <3>2. DOMAIN queue' = 1..(Len(queue) + 1) /\ DOMAIN queue = 1..Len(queue)
          /\ queue'[Len(queue) + 1] = call[w] /\ \A i \in 1..Len(queue) : queue'[i] = queue[i]
      BY <1>1, <2>1, <3>1
    <3>3. QED BY <3>2 DEF Queued
  <2>3. \A c \in Calls : Doing(c)' => Doing(c)
    BY <1>1, <1>6 DEF Requeue, AtWork, Doing
  <2>4. \A v \in Workers : pc'[v] \in Stages \cup SaveSteps =>
              UNCHANGED <<call[v], run[v]>> /\ pc'[v] = pc[v]
    BY <1>1, <1>6 DEF Requeue
  <2>5. QED BY <1>4, <1>6, <2>1, <2>2, <2>3, <2>4 DEF Requeue
<1>7. CASE Skip(w) \/ Settle(w)
  <2>1. \A c \in Calls : Queued(c)' \/ Doing(c)' => Queued(c) \/ Doing(c)
    BY <1>1, <1>7 DEF Skip, Settle, AtWork, Doing, Queued
  <2>2. \A v \in Workers : pc'[v] \in Stages \cup SaveSteps =>
              UNCHANGED <<call[v], run[v]>> /\ pc'[v] = pc[v]
    BY <1>1, <1>7 DEF Skip, Settle
  <2>3. QED BY <1>4, <1>7, <2>1, <2>2 DEF Skip, Settle
<1>8. ASSUME pc[w] \notin {"idle", "settling", "dead"}, UNCHANGED <<queue, call>>,
             \A v \in Workers : v # w => pc'[v] = pc[v] /\ run'[v] = run[v],
             \A c \in Calls : c # call[w] =>
                row'[c] = row[c] /\ transcript'[c] = transcript[c] /\ metrics'[c] = metrics[c],
             row'[call[w]] \in Over => pc'[w] \in {"settling", "dead"},
             row'[call[w]] = "completed" =>
                transcript'[call[w]] # 0 /\ metrics'[call[w]] = transcript'[call[w]],
             pc'[w] \in Stages \cup SaveSteps => run'[w] # 0,
             pc'[w] \in {"savingMetrics", "savingQa", "completing"} /\ Live(call[w])'
                => transcript'[call[w]] = run'[w],
             pc'[w] \in {"savingQa", "completing"} /\ Live(call[w])'
                => metrics'[call[w]] = run'[w]
      PROVE  ResultsInv'
  <2>1. call[w] \in Calls /\ \A v \in Workers : v # w => ~AtWork(call[w], v)
    BY <1>3, <1>8
  <2>2. \A c \in Calls, v \in Workers : v # w => (AtWork(c, v)' <=> AtWork(c, v))
    BY <1>8 DEF AtWork
  <2>3. \A c \in Calls : c # call[w] => ((Queued(c)' \/ Doing(c)') => (Queued(c) \/ Doing(c)))
    BY <1>8 DEF AtWork, Doing, Queued
  <2>4. NotYetOver'
    <3>1. ASSUME NEW c \in Calls, c # call[w],
                 Queued(c)' \/ Doing(c)' \/ c \in marked' \/ c \in pending'
          PROVE  row'[c] \notin Over
      BY <1>2, <1>8, <2>3, <3>1 DEF ResultsInv, NotYetOver
    <3>2. ASSUME NEW c \in Calls, c = call[w], row'[c] \in Over
          PROVE  ~Queued(c)' /\ ~Doing(c)' /\ c \notin marked' /\ c \notin pending'
      BY <1>2, <1>3, <1>8, <2>1, <2>2, <3>2 DEF Doing, AtWork, Queued
    <3>3. QED BY <3>1, <3>2 DEF NotYetOver
  <2>5. OwnResults'
    <3>1. ASSUME NEW v \in Workers, v # w, pc[v] \in Stages \cup SaveSteps
          PROVE  call[v] \in Calls /\ call[v] # call[w]
      BY <1>1, <2>1, <3>1 DEF AtWork
    <3>2. QED BY <1>8, <3>1 DEF OwnResults, ResultsInv, Live
  <2>6. CompletedHasResults'
    BY <1>8 DEF CompletedHasResults, ResultsInv
  <2>7. QED BY <2>4, <2>5, <2>6 DEF ResultsInv
<1>9. CASE Begin(w)
  BY <1>1, <1>3, <1>8, <1>9 DEF Begin, SetStatus, Live
<1>10. CASE Convert(w) \/ Advance(w)
  <2>1. run[w] # 0
    BY <1>10 DEF Convert, Advance, ResultsInv, OwnResults
  <2>2. CASE Convert(w)
    BY <1>1, <1>3, <1>8, <2>1, <2>2 DEF Convert, SetStatus, Live
  <2>3. CASE Advance(w)
    BY <1>1, <1>3, <1>8, <2>1, <2>3 DEF Advance, NextStage, SetStatus, Live
  <2>4. QED BY <1>10, <2>2, <2>3
<1>11. CASE OpenPart(w)
  <2>1. \A c \in Calls : Queued(c)' \/ Doing(c)' => Queued(c) \/ Doing(c)
    BY <1>11 DEF OpenPart, AtWork, Doing, Queued
  <2>2. QED BY <1>4, <1>11, <2>1 DEF OpenPart
<1>12. CASE SaveTranscript(w)
  <2>1. run[w] # 0
    BY <1>12 DEF SaveTranscript, ResultsInv, OwnResults
  <2>2. QED BY <1>1, <1>3, <1>8, <1>12, <2>1 DEF SaveTranscript, Live
<1>13. CASE SaveMetrics(w) \/ SaveQa(w)
  <2>1. run[w] # 0 /\ (Live(call[w]) => transcript[call[w]] = run[w])
    BY <1>13 DEF SaveMetrics, SaveQa, ResultsInv, OwnResults
  <2>2. CASE SaveMetrics(w)
    BY <1>1, <1>3, <1>8, <2>1, <2>2 DEF SaveMetrics, Live
  <2>3. CASE SaveQa(w)
    <3>1. Live(call[w]) => metrics[call[w]] = run[w]
      BY <2>3 DEF SaveQa, ResultsInv, OwnResults
    <3>2. QED BY <1>1, <1>3, <1>8, <2>1, <2>3, <3>1 DEF SaveQa, Live
  <2>4. QED BY <1>13, <2>2, <2>3
<1>14. CASE Complete(w)
  <2>1. run[w] # 0 /\ (Live(call[w]) => transcript[call[w]] = run[w] /\ metrics[call[w]] = run[w])
    BY <1>14 DEF Complete, ResultsInv, OwnResults
  <2>2. QED BY <1>1, <1>3, <1>8, <1>14, <2>1 DEF Complete, SetStatus, Live
<1>15. CASE Fail(w)
  BY <1>1, <1>3, <1>8, <1>15 DEF Fail, Working, SetStatus, Live
<1>16. CASE OomCheck(w) \/ OomRetry(w) \/ OomGiveUp(w)
  BY <1>1, <1>3, <1>8, <1>16 DEF OomCheck, OomRetry, OomGiveUp, SetStatus, Live
<1>17. CASE HandlerDies(w)
  BY <1>1, <1>3, <1>8, <1>17 DEF HandlerDies, Working
<1>18. QED
  BY <1>5, <1>6, <1>7, <1>9, <1>10, <1>11, <1>12, <1>13, <1>14, <1>15, <1>16, <1>17
  DEF WorkerStep

LEMMA RequestResults ==
  ASSUME ~Overlap, TypeInv, OnceInv, ResultsInv, NEW c \in Calls, Request(c)
  PROVE  ResultsInv'
<1> USE DEF Over, store, files, boot, worker, requests, pruner
<1>1. /\ queue \in Seq(Calls) /\ row \in [Calls -> Statuses \cup {"absent"}]
      /\ transcript \in [Calls -> Nat] /\ metrics \in [Calls -> Nat] /\ qa \in [Calls -> Nat]
      /\ \A v \in Workers : pc[v] # "idle" => call[v] \in Calls
  BY DEF TypeInv, TypeOK, QueueOK, StoreOK, HoldsJob
<1>2. UNCHANGED <<call, pc, run>> /\ \A d \in Calls : Doing(d)' <=> Doing(d)
  BY DEF Request, Upload, ReprocessMark, ReprocessSubmit, DeleteRead, DeleteAudio, DeleteWav,
     DeleteRow, DeleteFails, GetWaveform, AtWork, Doing
<1>3. /\ pending' = pending
      /\ \A d \in Calls : \/ row'[d] \notin Over
                          \/ /\ row'[d] = row[d] /\ (d \in marked' => d \in marked)
                             /\ transcript'[d] = transcript[d] /\ metrics'[d] = metrics[d]
      /\ \A d \in Calls : Live(d)' /\ Doing(d) =>
                          Live(d) /\ transcript'[d] = transcript[d] /\ metrics'[d] = metrics[d]
  <2>1. CASE Upload(c)
    BY <1>1, <2>1 DEF Upload, Live, OnceInv, BornFirst
  <2>2. CASE ReprocessMark(c)
    BY <1>1, <2>2 DEF ReprocessMark, SetStatus, Live
  <2>3. CASE ReprocessSubmit(c) \/ DeleteRead(c) \/ DeleteAudio(c) \/ DeleteWav(c)
            \/ DeleteFails(c) \/ GetWaveform(c)
    BY <2>3 DEF ReprocessSubmit, DeleteRead, DeleteAudio, DeleteWav, DeleteFails, GetWaveform, Live
  <2>4. CASE DeleteRow(c)
    BY <1>1, <2>4 DEF DeleteRow, DropRows, Live
  <2>5. QED BY <2>1, <2>2, <2>3, <2>4 DEF Request
<1>4. \A d \in Calls : Queued(d)' => Queued(d) \/ (d = c /\ row'[c] \notin Over)
  <2>1. CASE UNCHANGED queue
    BY <2>1 DEF Queued
  <2>2. CASE queue' = Append(queue, c) /\ row'[c] \notin Over
    <3>1. DOMAIN queue' = 1..(Len(queue) + 1) /\ DOMAIN queue = 1..Len(queue)
          /\ queue'[Len(queue) + 1] = c /\ \A i \in 1..Len(queue) : queue'[i] = queue[i]
      BY <1>1, <2>2
    <3>2. QED BY <2>2, <3>1 DEF Queued
  <2>3. CASE ReprocessSubmit(c)
    BY <2>2, <2>3 DEF ReprocessSubmit, ResultsInv, NotYetOver
  <2>4. CASE Upload(c)
    BY <1>1, <2>2, <2>4 DEF Upload
  <2>5. QED
    BY <2>1, <2>3, <2>4 DEF Request, ReprocessMark, DeleteRead, DeleteAudio, DeleteWav,
           DeleteRow, DeleteFails,
       GetWaveform
<1>5. NotYetOver' /\ CompletedHasResults'
  BY <1>2, <1>3, <1>4 DEF ResultsInv, NotYetOver, CompletedHasResults
<1>6. OwnResults'
  <2>1. ASSUME NEW v \in Workers, pc[v] \in SaveSteps PROVE call[v] \in Calls /\ Doing(call[v])
    BY <1>1, <2>1 DEF Doing, AtWork
  <2>2. QED BY <1>2, <1>3, <2>1 DEF ResultsInv, OwnResults
<1>7. QED BY <1>5, <1>6 DEF ResultsInv

LEMMA ServerResults ==
  ASSUME TypeInv, OnceInv, ResultsInv, Prune \/ Startup \/ Halt \/ AudioOnly
  PROVE  ResultsInv'
<1> USE DEF Over, store, files, boot, worker, requests, pruner
<1>1. /\ queue \in Seq(Calls) /\ row \in [Calls -> Statuses \cup {"absent"}]
      /\ transcript \in [Calls -> Nat] /\ metrics \in [Calls -> Nat] /\ qa \in [Calls -> Nat]
      /\ \A v \in Workers : pc[v] # "idle" => call[v] \in Calls
      /\ NoCall \notin Calls
  BY CallsAssumption DEF TypeInv, TypeOK, QueueOK, StoreOK, HoldsJob
<1>2. CASE Halt
  <2>1. /\ queue' = <<>> /\ marked' = {} /\ pending' = {} /\ UNCHANGED <<row, transcript, metrics>>
        /\ \A v \in Workers : pc'[v] = "idle"
        /\ \A d \in Calls, w \in Workers : ~AtWork(d, w)'
    BY <1>1, <1>2 DEF Halt, AtWork
  <2>2. \A d \in Calls : ~Queued(d)' /\ ~Doing(d)'
    BY <2>1 DEF Queued, Doing
  <2>3. QED
    BY <2>1, <2>2 DEF ResultsInv, NotYetOver, OwnResults, CompletedHasResults
<1>3. ASSUME UNCHANGED <<call, pc, run, marked, queue>>,
             \A d \in pending' : d \in pending \/ row'[d] \notin Over,
             \A d \in Calls : row'[d] = "failed" => row[d] = "failed",
             \A d \in Calls : row'[d] = "completed" =>
                 row[d] = "completed" /\ transcript'[d] = transcript[d] /\ metrics'[d] = metrics[d],
             \A d \in Calls : Live(d)' =>
                 Live(d) /\ transcript'[d] = transcript[d] /\ metrics'[d] = metrics[d]
      PROVE  ResultsInv'
  <2>1. \A d \in Calls : (Queued(d)' <=> Queued(d)) /\ (Doing(d)' <=> Doing(d))
    BY <1>3 DEF Queued, Doing, AtWork
  <2>2. NotYetOver' /\ CompletedHasResults'
    BY <1>3, <2>1 DEF ResultsInv, NotYetOver, CompletedHasResults
  <2>3. OwnResults'
    <3> SUFFICES ASSUME NEW w \in Workers
                 PROVE  /\ pc'[w] \in Stages \cup SaveSteps => run'[w] # 0
                        /\ pc'[w] \in {"savingMetrics", "savingQa", "completing"} /\ Live(call[w])'
                              => transcript'[call'[w]] = run'[w]
                        /\ pc'[w] \in {"savingQa", "completing"} /\ Live(call[w])'
                              => metrics'[call'[w]] = run'[w]
      BY DEF OwnResults
    <3>1. call'[w] = call[w] /\ pc'[w] = pc[w] /\ run'[w] = run[w]
      BY <1>3
    <3>2. pc[w] # "idle" => call[w] \in Calls
      BY <1>1
    <3>3. pc[w] # "idle" /\ Live(call[w])' =>
             /\ Live(call[w]) /\ transcript'[call[w]] = transcript[call[w]]
             /\ metrics'[call[w]] = metrics[call[w]]
      BY <1>3, <3>2
    <3>4. QED BY <3>1, <3>3 DEF ResultsInv, OwnResults
  <2>4. QED BY <2>2, <2>3 DEF ResultsInv
<1>4. CASE Prune \/ Serve \/ AudioOnly
  <2>1. CASE Scan \/ PruneFile \/ PruneFileFails \/ Serve \/ AudioOnly
    BY <1>1, <1>3, <2>1 DEF Scan, PruneFile, PruneFileFails, Serve, AudioOnly, Live
  <2>2. ASSUME NEW c \in Calls, PruneRow(c) \/ PruneRowFails(c) PROVE ResultsInv'
    <3>1. PICK R : DropRows(R)
      BY <2>2 DEF PruneRow, PruneRowFails
    <3>2. UNCHANGED <<queue, pc, call, run, marked, pending>>
      BY <2>2 DEF PruneRow, PruneRowFails
    <3>3. QED BY <1>1, <1>3, <3>1, <3>2 DEF DropRows, Live
  <2>3. QED BY <1>4, <2>1, <2>2 DEF Prune
<1>5. CASE Boot
  BY <1>1, <1>3, <1>5 DEF Boot, Live
<1>6. CASE ReadPending
  BY <1>1, <1>3, <1>6 DEF ReadPending, Live
<1>7. ASSUME NEW c \in Calls, SubmitPending(c) PROVE ResultsInv'
  <2>1. /\ UNCHANGED <<row, transcript, metrics, call, pc, run, marked>>
           /\ pending' \subseteq pending
        /\ c \in pending /\ queue' = Append(queue, c)
    BY <1>7 DEF SubmitPending
  <2>2. DOMAIN queue' = 1..(Len(queue) + 1) /\ DOMAIN queue = 1..Len(queue)
        /\ queue'[Len(queue) + 1] = c /\ \A i \in 1..Len(queue) : queue'[i] = queue[i]
    BY <1>1, <2>1
  <2>3. \A d \in Calls : (Queued(d)' => Queued(d) \/ d \in pending) /\ (Doing(d)' <=> Doing(d))
    BY <2>1, <2>2 DEF Queued, Doing, AtWork
  <2>4. QED
    BY <2>1, <2>3 DEF ResultsInv, NotYetOver, OwnResults, CompletedHasResults, Live
<1>8. QED BY <1>2, <1>4, <1>5, <1>6, <1>7 DEF Startup

LEMMA QueueStepResults ==
  ASSUME ~Overlap, TypeInv, OnceInv, ResultsInv, QueueStep
  PROVE  ResultsInv'
  BY WorkerResults, RequestResults, ServerResults DEF QueueStep

(* When clients wait for a call to settle before they ask for it again, a call
   that reads "completed" has a transcript and metrics, both of one run of the
   pipeline, through failures, deletions and restarts at any point (process,
   save_transcript, save_metrics). *)
THEOREM CompletedIsWhole == ASSUME ~Overlap PROVE Spec => []CompletedHasResults
<1>1. TypeInv /\ StrandInv /\ OnceInv /\ ResultsInv /\ [Next]_vars => OnceInv' /\ ResultsInv'
  BY NextIsQueueStep, QueueStepOnce, QueueStepResults
<1>2. QED
  BY InitOnce, InitResults, <1>1, TypeInvariant, StrandInvariant, PTL DEF Spec, ResultsInv

-----------------------------------------------------------------------------
(***************************************************************************)
(* JobQueue implements CallLifecycle: every step of the queue is a step of *)
(* a request towards its one answer, or none. The argument counts: what a  *)
(* call is owed is the number of its jobs, and jobs only move from the     *)
(* queue, the handlers and startup() to a worker and back until one of     *)
(* them answers.                                                           *)
(***************************************************************************)
Places(q, c) == {i \in DOMAIN q : q[i] = c}

LEMMA PlacesFinite ==
  ASSUME NEW q \in Seq(Calls), NEW c
  PROVE  IsFiniteSet(Places(q, c)) /\ Cardinality(Places(q, c)) \in Nat
<1>1. Places(q, c) \in SUBSET (1..Len(q)) /\ Len(q) \in Nat
  BY DEF Places
<1>2. IsFiniteSet(1..Len(q))
  BY <1>1, FS_Interval
<1>3. QED BY <1>1, <1>2, FS_Subset, FS_CardinalityType

LEMMA PlacesAppend ==
  ASSUME NEW q \in Seq(Calls), NEW d \in Calls, NEW c
  PROVE  Cardinality(Places(Append(q, d), c)) =
            Cardinality(Places(q, c)) + (IF c = d THEN 1 ELSE 0)
<1>1. /\ DOMAIN q = 1..Len(q) /\ DOMAIN Append(q, d) = 1..(Len(q) + 1) /\ Len(q) \in Nat
      /\ Append(q, d)[Len(q) + 1] = d
      /\ \A i \in 1..Len(q) : Append(q, d)[i] = q[i]
  OBVIOUS
<1>2. Places(Append(q, d), c) =
        IF c = d THEN Places(q, c) \cup {Len(q) + 1} ELSE Places(q, c)
  BY <1>1 DEF Places
<1>3. Len(q) + 1 \notin Places(q, c)
  BY <1>1 DEF Places
<1>4. IsFiniteSet(Places(q, c)) /\ Cardinality(Places(q, c)) \in Nat
  BY PlacesFinite
<1>5. Cardinality(Places(q, c) \cup {Len(q) + 1}) = Cardinality(Places(q, c)) + 1
  BY <1>3, <1>4, FS_AddElement
<1>6. QED BY <1>2, <1>4, <1>5

LEMMA PlacesTail ==
  ASSUME NEW q \in Seq(Calls), q # <<>>, NEW c
  PROVE  Cardinality(Places(Tail(q), c)) =
            Cardinality(Places(q, c)) - (IF c = Head(q) THEN 1 ELSE 0)
<1> DEFINE S == Places(Tail(q), c)
           T == Places(q, c) \ {1}
           f == [i \in S |-> i + 1]
<1>1. /\ DOMAIN q = 1..Len(q) /\ DOMAIN Tail(q) = 1..(Len(q) - 1) /\ Len(q) \in Nat /\ Len(q) > 0
      /\ Head(q) = q[1] /\ Tail(q) \in Seq(Calls)
      /\ \A i \in 1..(Len(q) - 1) : Tail(q)[i] = q[i + 1]
  OBVIOUS
<1>2. f \in Bijection(S, T)
  <2>1. \A i \in S : i \in 1..(Len(q) - 1) /\ i + 1 \in T
    BY <1>1 DEF Places
  <2>2. \A j \in T : j - 1 \in S /\ (j - 1) + 1 = j
    BY <1>1 DEF Places
  <2>3. f \in [S -> T] /\ \A i \in S : f[i] = i + 1
    BY <2>1
  <2>4. \A i, j \in S : f[i] = f[j] => i = j
    BY <2>1, <2>3
  <2>5. \A j \in T : \E i \in S : f[i] = j
    BY <2>2, <2>3
  <2>6. QED BY <2>3, <2>4, <2>5 DEF Bijection, Injection, Surjection, IsInjective
<1>3. IsFiniteSet(S) /\ IsFiniteSet(Places(q, c)) /\ Cardinality(Places(q, c)) \in Nat
  BY <1>1, PlacesFinite
<1>4. Cardinality(T) = Cardinality(S)
  BY <1>2, <1>3, FS_Bijection DEF ExistsBijection
<1>5. 1 \in Places(q, c) <=> c = Head(q)
  BY <1>1 DEF Places
<1>6. Cardinality(T) = IF 1 \in Places(q, c) THEN Cardinality(Places(q, c)) - 1
                                              ELSE Cardinality(Places(q, c))
  BY <1>3, FS_RemoveElement
<1>7. QED BY <1>3, <1>4, <1>5, <1>6

(* one, if c has a place in S *)
Seat(c, S) == Cardinality({c} \cap S)

LEMMA SeatIs ==
  ASSUME NEW c, NEW S
  PROVE  Seat(c, S) = IF c \in S THEN 1 ELSE 0
<1>1. {c} \cap S = IF c \in S THEN {c} ELSE {}
  OBVIOUS
<1>2. QED BY <1>1, FS_Singleton, FS_EmptySet DEF Seat

-----------------------------------------------------------------------------
(* What a call is owed, as a sum                                           *)

Summed ==
    \A c \in Calls :
        /\ IsFiniteSet(Holders(c))
        /\ {Cardinality(Places(queue, c)), Cardinality(Holders(c)),
            Seat(c, marked), Seat(c, pending)} \subseteq Nat
        /\ Owing(c) = Cardinality(Places(queue, c)) + Cardinality(Holders(c))
                         + Seat(c, marked) + Seat(c, pending)

LEMMA OwingIsSum == TypeInv => Summed
<1> SUFFICES ASSUME TypeInv, NEW c \in Calls
             PROVE  /\ IsFiniteSet(Holders(c))
                    /\ {Cardinality(Places(queue, c)), Cardinality(Holders(c)),
                        Seat(c, marked), Seat(c, pending)} \subseteq Nat
                    /\ Owing(c) = Cardinality(Places(queue, c)) + Cardinality(Holders(c))
                                     + Seat(c, marked) + Seat(c, pending)
  BY DEF Summed
<1>1. Holders(c) \in SUBSET Workers
  BY DEF Holders
<1>2. IsFiniteSet(Holders(c)) /\ Cardinality(Holders(c)) \in Nat
  BY <1>1, WorkersAssumption, FS_Subset, FS_CardinalityType
<1>3. queue \in Seq(Calls)
  BY DEF TypeInv, TypeOK, QueueOK
<1>4. Cardinality(Places(queue, c)) \in Nat /\ Jobs(c) = Places(queue, c)
  BY <1>3, PlacesFinite DEF Jobs, Places
<1>5. Seat(c, marked) \in Nat /\ Seat(c, pending) \in Nat
  BY SeatIs
<1>6. QED BY <1>2, <1>4, <1>5 DEF Owing, Seat

(* While the rows are not all there is, what is owed changes by what the
   places gain or lose. *)
LEMMA Balance ==
  ASSUME TypeInv, TypeInv', phase' = phase, Up, NEW d \in Calls
  PROVE  /\ {Cardinality(Places(queue, d)), Cardinality(Places(queue', d)),
             Cardinality(Holders(d)), Cardinality(Holders(d)'),
             OwedTo(d), OwedTo(d)'} \subseteq Nat
         /\ OwedTo(d) >= Cardinality(Holders(d))
         /\ OwedTo(d)' = OwedTo(d)
                 + (Cardinality(Places(queue', d)) - Cardinality(Places(queue, d)))
                 + (Cardinality(Holders(d)') - Cardinality(Holders(d)))
                 + (Seat(d, marked') - Seat(d, marked)) + (Seat(d, pending') - Seat(d, pending))
<1>1. (TypeInv => Summed)'
  BY OwingIsSum, PTL
<1>2. Summed /\ Summed'
  BY <1>1, OwingIsSum
<1>3. OwedTo(d) = Owing(d) /\ OwedTo(d)' = Owing(d)'
  BY DEF OwedTo, Up
<1>4. /\ {Cardinality(Places(queue, d)), Cardinality(Holders(d)),
          Seat(d, marked), Seat(d, pending)} \subseteq Nat
      /\ OwedTo(d) = Cardinality(Places(queue, d)) + Cardinality(Holders(d))
                        + Seat(d, marked) + Seat(d, pending)
  BY <1>2, <1>3 DEF Summed
<1>5. /\ {Cardinality(Places(queue', d)), Cardinality(Holders(d)'),
          Seat(d, marked'), Seat(d, pending')} \subseteq Nat
      /\ OwedTo(d)' = Cardinality(Places(queue', d)) + Cardinality(Holders(d)')
                         + Seat(d, marked') + Seat(d, pending')
  BY <1>2, <1>3 DEF Summed, Places, Seat
<1>6. QED BY <1>4, <1>5

(* A worker takes up a job, or is done with it. *)
LEMMA HoldersMore ==
  ASSUME TypeInv, NEW c \in Calls, NEW w \in Workers, w \notin Holders(c),
         Holders(c)' = Holders(c) \cup {w}
  PROVE  Cardinality(Holders(c)') = Cardinality(Holders(c)) + 1
<1>1. IsFiniteSet(Holders(c))
  BY OwingIsSum DEF Summed
<1>2. Cardinality(Holders(c) \cup {w}) = Cardinality(Holders(c)) + 1
  BY <1>1, FS_AddElement
<1>3. QED BY <1>2

LEMMA HoldersLess ==
  ASSUME TypeInv, NEW c \in Calls, NEW w \in Holders(c), Holders(c)' = Holders(c) \ {w}
  PROVE  Cardinality(Holders(c)') = Cardinality(Holders(c)) - 1 /\ Cardinality(Holders(c)) > 0
<1>1. IsFiniteSet(Holders(c)) /\ Cardinality(Holders(c)) \in Nat
  BY OwingIsSum DEF Summed
<1>2. Cardinality(Holders(c) \ {w}) = Cardinality(Holders(c)) - 1
  BY <1>1, FS_RemoveElement
<1>3. Cardinality(Holders(c)) # 0
  BY <1>1, FS_EmptySet
<1>4. QED BY <1>1, <1>2, <1>3

(* What the history variables count: the requests and the answers of a step *)
HTyped == asked \in [Calls -> Nat] /\ answered \in [Calls -> Nat]
NobodyAsks == \A d \in Calls : ~Asks(d)
NobodyEnds == \A v \in Workers : ~Ends(v)

LEMMA NothingRecorded ==
  ASSUME HTyped, Recorded, NobodyAsks, NobodyEnds
  PROVE  UNCHANGED history
<1>1. \A d \in Calls : asked'[d] = asked[d] /\ answered'[d] = answered[d]
  BY DEF HTyped, Recorded, NobodyAsks, NobodyEnds
<1>2. QED BY <1>1 DEF HTyped, Recorded, history

LEMMA RequestRecorded ==
  ASSUME HTyped, Recorded, NobodyEnds, NEW c \in Calls, Asks(c),
         \A d \in Calls \ {c} : ~Asks(d)
  PROVE  asked' = [asked EXCEPT ![c] = @ + 1] /\ UNCHANGED answered
<1>1. \A d \in Calls : asked'[d] = (IF d = c THEN asked[d] + 1 ELSE asked[d])
                      /\ answered'[d] = answered[d]
  BY DEF HTyped, Recorded, NobodyEnds
<1>2. QED BY <1>1 DEF HTyped, Recorded

LEMMA AnswerRecorded ==
  ASSUME HTyped, Recorded, NobodyAsks, NEW w \in Workers, NEW c \in Calls, c = call[w],
         Ends(w), \A v \in Workers \ {w} : ~Ends(v)
  PROVE  answered' = [answered EXCEPT ![c] = @ + 1] /\ UNCHANGED asked
<1>0. \A d \in Calls : (\E v \in Workers : call[v] = d /\ Ends(v)) <=> d = c
  OBVIOUS
<1>1. ASSUME NEW d \in Calls
      PROVE  /\ answered'[d] = (IF d = c THEN answered[d] + 1 ELSE answered[d])
             /\ asked'[d] = asked[d]
  <2>1. CASE d = c
    BY <1>0, <2>1 DEF HTyped, Recorded, NobodyAsks
  <2>2. CASE d # c
    BY <1>0, <2>2 DEF HTyped, Recorded, NobodyAsks
  <2>3. QED BY <2>1, <2>2
<1>2. answered' = [d \in Calls |-> answered'[d]] /\ asked' = [d \in Calls |-> asked'[d]]
  BY DEF Recorded
<1>3. QED BY <1>1, <1>2 DEF HTyped

LEMMA HistoryTyped == HSpec => []HTyped
<1>1. HInit => HTyped
  BY DEF HInit, HTyped
<1>2. HTyped /\ [HNext]_hvars => HTyped'
  BY DEF HTyped, HNext, Recorded, hvars, history
<1>3. QED BY <1>1, <1>2, PTL DEF HSpec

(* The ways a step of the queue shows outside *)
Unseen ==
    /\ Up' = Up /\ UNCHANGED history
    /\ \A d \in Calls : Shown(d)' = Shown(d) /\ OwedTo(d)' = OwedTo(d)
Others(c) ==
    /\ Up /\ Up'
    /\ \A d \in Calls \ {c} : Shown(d)' = Shown(d) /\ OwedTo(d)' = OwedTo(d)

LEMMA UnseenStep == ASSUME Unseen PROVE UNCHANGED Lifecycle!vars
  BY DEF Unseen, Lifecycle!vars, StatusShown, Owed, history

LEMMA AskStep ==
  ASSUME NEW c \in Calls, Others(c), Shown(c)' = "pending", OwedTo(c)' = OwedTo(c) + 1,
         asked' = [asked EXCEPT ![c] = @ + 1], UNCHANGED answered
  PROVE  Lifecycle!Ask(c)
  BY DEF Others, Lifecycle!Ask, StatusShown, Owed

LEMMA WorkStep ==
  ASSUME NEW c \in Calls, Others(c), Shown(c) \notin {"none", "deleted"}, Shown(c)' = "pending",
         OwedTo(c) > 0, OwedTo(c)' = OwedTo(c), UNCHANGED history
  PROVE  Lifecycle!Work(c)
  BY DEF Others, Lifecycle!Work, Lifecycle!Known, StatusShown, Owed, history

LEMMA AnswerStep ==
  ASSUME NEW c \in Calls, Others(c), OwedTo(c) > 0, OwedTo(c)' = OwedTo(c) - 1,
         answered' = [answered EXCEPT ![c] = @ + 1], UNCHANGED asked,
         IF Shown(c) \notin {"none", "deleted"}
         THEN Shown(c)' \in {"completed", "failed"} ELSE Shown(c)' = Shown(c)
  PROVE  Lifecycle!Answer(c)
  BY DEF Others, Lifecycle!Answer, Lifecycle!Known, StatusShown, Owed

LEMMA DeleteStep ==
  ASSUME NEW S \in SUBSET Calls, Up' = Up, UNCHANGED history,
         \A d \in Calls \ S : Shown(d)' = Shown(d) /\ OwedTo(d)' = OwedTo(d),
         \A d \in S : /\ Shown(d) \notin {"none", "deleted"} /\ Shown(d)' = "deleted"
                      /\ OwedTo(d)' = IF Up THEN OwedTo(d) ELSE 0
  PROVE  Lifecycle!Delete(S)
<1>1. \A d \in S : Lifecycle!Known(d)
  BY DEF Lifecycle!Known, StatusShown
<1>2. StatusShown' = [d \in Calls |-> IF d \in S THEN "deleted" ELSE StatusShown[d]]
  BY DEF StatusShown
<1>3. Owed' = [d \in Calls |-> IF d \in S /\ ~Up THEN 0 ELSE Owed[d]]
  BY DEF Owed
<1>4. QED BY <1>1, <1>2, <1>3 DEF Lifecycle!Delete, history

-----------------------------------------------------------------------------
(* A call with a row has been uploaded; so nothing is accepted twice.      *)

Known == \A c \in Calls : Live(c) => born[c] # 0

LEMMA KnownStep ==
  ASSUME TypeInv, Known, QueueStep
  PROVE  Known'
<1> USE DEF store, files, boot, worker, requests, pruner, Live, Known
<1>1. row \in [Calls -> Statuses \cup {"absent"}] /\ born \in [Calls -> Nat]
  BY DEF TypeInv, TypeOK, StoreOK
<1>2. ASSUME NEW w \in Workers, WorkerStep(w) \/ HandlerDies(w)
      PROVE  \A c \in Calls : born'[c] = 0 => born[c] = 0 /\ ~Live(c)'
  BY <1>1, <1>2 DEF WorkerStep, Take, Skip, Begin, Convert, OpenPart, Advance, SaveTranscript,
     SaveMetrics, SaveQa, Complete, Settle, Fail, OomCheck, OomRetry, OomGiveUp, Requeue,
     HandlerDies,
     SetStatus
<1>3. ASSUME NEW d \in Calls, Request(d)
      PROVE  \A c \in Calls : born'[c] = 0 => born[c] = 0 /\ ~Live(c)'
  <2>1. Cardinality({e \in Calls : born[e] # 0}) \in Nat
    BY CallsAssumption, FS_Subset, FS_CardinalityType
  <2>2. QED
    BY <1>1, <1>3, <2>1 DEF Request, Upload, ReprocessMark, ReprocessSubmit, DeleteRead,
       DeleteAudio, DeleteWav, DeleteRow, DeleteFails, GetWaveform, DropRows, SetStatus
<1>4. CASE Prune \/ Startup \/ Halt \/ AudioOnly
  BY <1>1, <1>4 DEF Prune, Scan, PruneRow, PruneFile, PruneRowFails, PruneFileFails, DropRows,
         Startup, Boot, ReadPending,
     SubmitPending, Serve, Halt, AudioOnly
<1>5. QED BY <1>2, <1>3, <1>4 DEF QueueStep

LEMMA RowsAreKnown == Spec => []Known
<1>1. Init => Known
  BY DEF Init, Known, Live
<1>2. QED BY TypeInvariant, NextIsQueueStep, KnownStep, <1>1, PTL DEF Spec

LEMMA WorkerImplements ==
  ASSUME TypeInv, TypeInv', Quiet, Known, HTyped, Recorded,
         NEW w \in Workers, WorkerStep(w) \/ HandlerDies(w)
  PROVE  [Lifecycle!Next]_Lifecycle!vars
<1> USE DEF store, files, boot, worker, requests, pruner, Statuses, Stages, SaveSteps, FatalStages,
            ChunkStages
<1>a. PICK c : c = call[w]
  OBVIOUS
<1> USE <1>a
<1>1. /\ UNCHANGED <<phase, pending, marked, born>> /\ phase \notin {"down", "booting"}
      /\ NobodyAsks
  BY WorkerUp DEF NobodyAsks, Asks, WorkerStep, Take, Skip, Begin, Convert, OpenPart, Advance,
         SaveTranscript,
     SaveMetrics, SaveQa, Complete, Settle, Fail, OomCheck, OomRetry, OomGiveUp, Requeue,
     HandlerDies, Working
<1>0. Up /\ Up'
  BY <1>1 DEF Up, TypeInv, TypeOK, QueueOK
<1>2. /\ pc \in [Workers -> {"idle", "start", "retrying", "backoff", "settling", "dead"}
                                \cup {"converting", "transcribing", "diarizing", "checking",
                                    "analyzing"}
                                \cup {"saving", "savingMetrics", "savingQa", "completing"}]
      /\ call \in [Workers -> Calls \cup {NoCall}] /\ queue \in Seq(Calls) /\ NoCall \notin Calls
      /\ row \in [Calls -> {"queued", "processing", "completed", "failed", "absent"}]
      /\ (IF pc[w] = "idle" THEN c = NoCall ELSE c \in Calls)
  BY CallsAssumption
  DEF TypeInv, TypeOK, StoreOK, QueueOK, WorkersOK, HoldsJob, Statuses, Stages, SaveSteps
<1>3. \A d \in Calls :
        /\ {Cardinality(Places(queue, d)), Cardinality(Places(queue', d)),
            Cardinality(Holders(d)), Cardinality(Holders(d)'), OwedTo(d)} \subseteq Nat
        /\ OwedTo(d) >= Cardinality(Holders(d))
        /\ OwedTo(d)' = OwedTo(d)
                + (Cardinality(Places(queue', d)) - Cardinality(Places(queue, d)))
                + (Cardinality(Holders(d)') - Cardinality(Holders(d)))
  <2>1. ASSUME NEW d \in Calls
        PROVE  /\ Seat(d, marked') - Seat(d, marked) = 0
               /\ Seat(d, pending') - Seat(d, pending) = 0
    BY <1>1, SeatIs
  <2>2. QED BY <1>1, <1>0, <2>1, Balance
<1>4. ASSUME UNCHANGED row, NobodyEnds, \A d \in Calls : OwedTo(d)' = OwedTo(d)
      PROVE  UNCHANGED Lifecycle!vars
  <2>1. UNCHANGED history
    BY <1>1, <1>4, NothingRecorded
  <2>2. QED BY <1>1, <1>0, <1>4, <2>1, UnseenStep DEF Unseen, Shown, Live, Unfinished
<1>5. ASSUME c \in Calls, pc[w] # "settling"
      PROVE  w \in Holders(c) /\ OwedTo(c) > 0
  <2>1. w \in Holders(c)
    BY <1>5 DEF Holders
  <2>2. Cardinality(Holders(c)) # 0
    BY <1>5, <2>1, OwingIsSum, FS_EmptySet DEF Summed
  <2>3. {Cardinality(Holders(c)), OwedTo(c)} \subseteq Nat /\ OwedTo(c) >= Cardinality(Holders(c))
    BY <1>3, <1>5
  <2>4. QED BY <2>1, <2>2, <2>3
(* progress on behalf of a request *)
<1>6. ASSUME c \in Calls, pc[w] # "settling", UNCHANGED <<queue, call>>,
             UNCHANGED row \/ SetStatus(c, "processing"),
             \E p \in Stages \cup SaveSteps \cup {"retrying", "backoff",
             "dead"} : pc' = [pc EXCEPT ![w] = p]
      PROVE  [Lifecycle!Next]_Lifecycle!vars
  <2>0. NobodyEnds /\ UNCHANGED history
    <3>1. NobodyEnds
      BY <1>2, <1>6 DEF NobodyEnds, Ends
    <3>2. QED BY <1>1, <3>1, NothingRecorded
  <2>1. \A d \in Calls : Holders(d)' = Holders(d)
    BY <1>2, <1>6 DEF Holders
  <2>2. \A d \in Calls : OwedTo(d)' = OwedTo(d)
    BY <1>3, <1>6, <2>1
  <2>3. CASE UNCHANGED row
    BY <1>4, <2>0, <2>2, <2>3
  <2>4. CASE SetStatus(c, "processing") /\ ~Live(c)
    BY <1>2, <1>4, <1>6, <2>0, <2>2, <2>4 DEF SetStatus
  <2>5. CASE SetStatus(c, "processing") /\ Live(c)
    <3>1. Others(c)
      BY <1>0, <1>1, <1>2, <2>2, <2>5 DEF SetStatus, Others, Shown, Live, Unfinished
    <3>2. Shown(c) \notin {"none", "deleted"} /\ Shown(c)' = "pending"
      BY <1>2, <1>6, <2>5 DEF SetStatus, Shown, Live, Unfinished
    <3>3. Lifecycle!Work(c)
      BY <1>5, <1>6, <2>0, <2>2, <3>1, <3>2, WorkStep
    <3>4. QED BY <1>6, <3>3 DEF Lifecycle!Next
  <2>6. QED BY <1>6, <2>3, <2>4, <2>5
(* the answer *)
<1>7. ASSUME c \in Calls, pc[w] # "settling", UNCHANGED <<queue, call>>,
             \/ SetStatus(c, "completed") \/ SetStatus(c, "failed")
             \/ UNCHANGED row /\ ~Live(c),
             pc' = [pc EXCEPT ![w] = "settling"]
      PROVE  [Lifecycle!Next]_Lifecycle!vars
  <2>1. Holders(c)' = Holders(c) \ {w} /\ \A d \in Calls \ {c} : Holders(d)' = Holders(d)
    BY <1>2, <1>7 DEF Holders
  <2>2. Cardinality(Holders(c)') = Cardinality(Holders(c)) - 1
    BY <1>5, <1>7, <2>1, HoldersLess
  <2>3. OwedTo(c)' = OwedTo(c) - 1 /\ \A d \in Calls \ {c} : OwedTo(d)' = OwedTo(d)
    <3>1. queue' = queue
      BY <1>7
    <3>2. OwedTo(c)' = OwedTo(c) - 1
      BY <1>3, <1>7, <2>2, <3>1
    <3>3. ASSUME NEW d \in Calls \ {c} PROVE OwedTo(d)' = OwedTo(d)
      BY <1>3, <2>1, <3>1, <3>3
    <3>4. QED BY <3>2, <3>3
  <2>4. Others(c)
    BY <1>0, <1>1, <1>2, <1>7, <2>3 DEF SetStatus, Others, Shown, Live, Unfinished
  <2>5. IF Shown(c) \notin {"none", "deleted"}
        THEN Shown(c)' \in {"completed", "failed"} ELSE Shown(c)' = Shown(c)
    BY <1>1, <1>2, <1>7 DEF SetStatus, Shown, Live, Unfinished
  <2>6. answered' = [answered EXCEPT ![c] = @ + 1] /\ UNCHANGED asked
    <3>1. Ends(w) /\ \A v \in Workers \ {w} : ~Ends(v)
      BY <1>2, <1>7 DEF Ends
    <3>2. QED BY <1>1, <1>7, <3>1, AnswerRecorded
  <2>7. Lifecycle!Answer(c)
    BY <1>5, <1>7, <2>3, <2>4, <2>5, <2>6, AnswerStep
  <2>8. QED BY <1>7, <2>7 DEF Lifecycle!Next
<1>8. CASE Take(w)
  <2>0. PICK h : h = Head(queue)
    OBVIOUS
  <2>1. h \in Calls /\ UNCHANGED row /\ queue # <<>> /\ queue' = Tail(queue)
    BY <1>2, <1>8, <2>0 DEF Take
  <2>2. /\ w \notin Holders(h)
        /\ Holders(h)' = Holders(h) \cup {w}
        /\ \A d \in Calls \ {h} : Holders(d)' = Holders(d)
    BY <1>2, <1>8, <2>0, <2>1 DEF Take, Holders
  <2>3. Cardinality(Holders(h)') = Cardinality(Holders(h)) + 1
    BY <2>1, <2>2, HoldersMore
  <2>4. \A d \in Calls : Cardinality(Places(queue', d)) =
            Cardinality(Places(queue, d)) - (IF d = h THEN 1 ELSE 0)
    BY <1>2, <2>0, <2>1, PlacesTail
  <2>5. \A d \in Calls : OwedTo(d)' = OwedTo(d)
    <3>1. OwedTo(h)' = OwedTo(h)
      BY <1>3, <2>1, <2>3, <2>4
    <3>2. ASSUME NEW d \in Calls \ {h} PROVE OwedTo(d)' = OwedTo(d)
      BY <1>3, <2>2, <2>4
    <3>3. QED BY <3>1, <3>2
  <2>6. NobodyEnds
    BY <1>2, <1>8 DEF Take, NobodyEnds, Ends
  <2>7. QED BY <1>4, <2>1, <2>5, <2>6
<1>9. CASE Requeue(w)
  <2>1. c \in Calls /\ pc[w] # "settling" /\ UNCHANGED row /\ queue' = Append(queue, c)
    BY <1>2, <1>9 DEF Requeue
  <2>2. Holders(c)' = Holders(c) \ {w} /\ \A d \in Calls \ {c} : Holders(d)' = Holders(d)
    BY <1>2, <1>9, <2>1 DEF Requeue, Holders
  <2>3. Cardinality(Holders(c)') = Cardinality(Holders(c)) - 1
    BY <1>5, <2>1, <2>2, HoldersLess
  <2>4. \A d \in Calls : Cardinality(Places(queue', d)) =
            Cardinality(Places(queue, d)) + (IF d = c THEN 1 ELSE 0)
    BY <1>2, <2>1, PlacesAppend
  <2>5. \A d \in Calls : OwedTo(d)' = OwedTo(d)
    <3>1. OwedTo(c)' = OwedTo(c)
      BY <1>3, <2>1, <2>3, <2>4
    <3>2. ASSUME NEW d \in Calls \ {c} PROVE OwedTo(d)' = OwedTo(d)
      BY <1>3, <2>2, <2>4
    <3>3. QED BY <3>1, <3>2
  <2>6. NobodyEnds
    BY <1>2, <1>9 DEF Requeue, NobodyEnds, Ends
  <2>7. QED BY <1>4, <2>1, <2>5, <2>6
<1>10. CASE Settle(w) \/ OpenPart(w)
  <2>1. UNCHANGED <<row, queue>> /\ \A d \in Calls : Holders(d)' = Holders(d)
    BY <1>2, <1>10 DEF Settle, OpenPart, Holders
  <2>2. \A d \in Calls : OwedTo(d)' = OwedTo(d)
    BY <1>3, <2>1
  <2>3. NobodyEnds
    BY <1>2, <1>10 DEF Settle, OpenPart, NobodyEnds, Ends
  <2>4. QED BY <1>4, <2>1, <2>2, <2>3
<1>11. CASE Skip(w)
  BY <1>2, <1>7, <1>11 DEF Skip
<1>12. CASE Begin(w) \/ Convert(w)
  BY <1>2, <1>6, <1>12 DEF Begin, Convert
<1>13. CASE Advance(w)
  BY <1>2, <1>6, <1>13 DEF Advance, NextStage
<1>14. CASE SaveTranscript(w) \/ SaveMetrics(w) \/ SaveQa(w)
  BY <1>2, <1>6, <1>14 DEF SaveTranscript, SaveMetrics, SaveQa
<1>15. CASE Complete(w)
  BY <1>2, <1>7, <1>15 DEF Complete
<1>16. CASE Fail(w) \/ OomGiveUp(w)
  BY <1>2, <1>7, <1>16 DEF Fail, OomGiveUp, Working
<1>17. CASE OomCheck(w) \/ OomRetry(w)
  BY <1>2, <1>6, <1>17 DEF OomCheck, OomRetry
<1>18. CASE HandlerDies(w)
  BY <1>2, <1>6, <1>18 DEF HandlerDies, Working
<1>19. QED
  BY <1>8, <1>9, <1>10, <1>11, <1>12, <1>13, <1>14, <1>15, <1>16, <1>17, <1>18 DEF WorkerStep

(* Whoever does not touch the jobs leaves what is owed as it is, but for a row
   that goes while startup() has not read it. *)
LEMMA SameOwing ==
  ASSUME UNCHANGED <<phase, queue, call, pc, marked, pending>>, NEW d \in Calls
  PROVE  /\ Up' = Up
         /\ row'[d] = row[d] => OwedTo(d)' = OwedTo(d)
         /\ ~Live(d)' => OwedTo(d)' = IF Up THEN OwedTo(d) ELSE 0
<1>1. Jobs(d)' = Jobs(d) /\ Holders(d)' = Holders(d)
  BY DEF Jobs, Holders
<1>2. Owing(d)' = Owing(d)
  BY <1>1 DEF Owing
<1>3. Up' = Up
  BY DEF Up
<1>4. QED BY <1>2, <1>3 DEF OwedTo, Unfinished, Live

(* ... and neither asks nor answers. *)
LEMMA NobodyElse ==
  ASSUME HTyped, Recorded, UNCHANGED <<born, pc>>, marked' \subseteq marked
  PROVE  UNCHANGED history
<1>1. NobodyAsks /\ NobodyEnds
  BY DEF NobodyAsks, NobodyEnds, Asks, Ends
<1>2. QED BY <1>1, NothingRecorded

LEMMA NothingDone ==
  ASSUME HTyped, Recorded, UNCHANGED <<row, born, phase, queue, call, pc, marked, pending>>
  PROVE  UNCHANGED Lifecycle!vars
<1>1. UNCHANGED history
  BY NobodyElse
<1>2. Up' = Up
  BY DEF Up
<1>3. Unseen
  BY <1>1, <1>2, SameOwing DEF Unseen, Shown, Live, Unfinished
<1>4. QED BY <1>3, UnseenStep

(* Rows and what depends on them go. *)
LEMMA DropImplements ==
  ASSUME TypeInv, Known, HTyped, Recorded, NEW R \in SUBSET Calls, DropRows(R),
         UNCHANGED <<born, phase, queue, call, pc, marked, pending>>
  PROVE  [Lifecycle!Next]_Lifecycle!vars
<1> DEFINE S == {d \in R : Live(d)}
<1>1. row \in [Calls -> Statuses \cup {"absent"}]
  BY DEF TypeInv, TypeOK, StoreOK
<1>2. UNCHANGED history /\ Up' = Up
  BY NobodyElse DEF Up
<1>3. ASSUME NEW d \in Calls \ S PROVE Shown(d)' = Shown(d) /\ OwedTo(d)' = OwedTo(d)
  <2>1. row'[d] = row[d]
    BY <1>1, <1>3 DEF DropRows, Live
  <2>2. QED BY <2>1, SameOwing DEF Shown, Live, Unfinished
<1>4. ASSUME NEW d \in S
      PROVE  /\ Shown(d) \notin {"none", "deleted"} /\ Shown(d)' = "deleted"
             /\ OwedTo(d)' = IF Up THEN OwedTo(d) ELSE 0
  <2>1. d \in Calls /\ Live(d) /\ ~Live(d)' /\ born'[d] # 0 /\ row[d] \in Statuses
    BY <1>1, <1>4 DEF DropRows, Live, Known
  <2>2. Shown(d) \notin {"none", "deleted"} /\ Shown(d)' = "deleted"
    BY <1>1, <2>1 DEF Shown, Live, Unfinished
  <2>3. QED BY <2>1, <2>2, SameOwing
<1>5. Lifecycle!Delete(S)
  <2>1. S \in SUBSET Calls
    OBVIOUS
  <2> HIDE DEF S
  <2>2. QED BY <1>2, <1>3, <1>4, <2>1, DeleteStep
<1>6. S \in SUBSET Calls
  OBVIOUS
<1> HIDE DEF S
<1>7. QED BY <1>5, <1>6 DEF Lifecycle!Next

(* The same of a step that leaves the workers alone. *)
LEMMA BalanceOfHandlers ==
  ASSUME TypeInv, TypeInv', phase' = phase, Up, UNCHANGED <<pc, call>>, NEW d \in Calls
  PROVE  /\ {Cardinality(Places(queue, d)), Cardinality(Places(queue', d)), OwedTo(d)}
               \subseteq Nat
         /\ OwedTo(d)' = OwedTo(d)
               + (Cardinality(Places(queue', d)) - Cardinality(Places(queue, d)))
               + (Seat(d, marked') - Seat(d, marked)) + (Seat(d, pending') - Seat(d, pending))
<1>1. Holders(d)' = Holders(d)
  BY DEF Holders
<1>2. {Cardinality(Holders(d)), Cardinality(Holders(d)')} \subseteq Nat
      /\ Cardinality(Holders(d)') = Cardinality(Holders(d))
  BY <1>1, Balance
<1>3. QED BY <1>2, Balance

(* submit() moves a job from a handler, or from startup(), to the queue. *)
LEMMA HandedOver ==
  ASSUME TypeInv, TypeInv', phase' = phase, Up, UNCHANGED <<pc, call>>, NEW c \in Calls,
         queue' = Append(queue, c),
         \/ c \in marked /\ marked' = marked \ {c} /\ pending' = pending
         \/ c \in pending /\ pending' = pending \ {c} /\ marked' = marked,
         NEW d \in Calls
  PROVE  OwedTo(d)' = OwedTo(d)
<1>1. queue \in Seq(Calls)
  BY DEF TypeInv, TypeOK, QueueOK
<1>2. Cardinality(Places(queue', d)) =
            Cardinality(Places(queue, d)) + (IF d = c THEN 1 ELSE 0)
  BY <1>1, PlacesAppend
<1>3. Seat(d, marked') + Seat(d, pending') + (IF d = c THEN 1 ELSE 0)
        = Seat(d, marked) + Seat(d, pending)
  BY SeatIs
<1>4. /\ Seat(d, marked) \in Nat /\ Seat(d, marked') \in Nat
      /\ Seat(d, pending) \in Nat /\ Seat(d, pending') \in Nat
  BY SeatIs
<1>5. PICK k \in {0, 1} :
        /\ Cardinality(Places(queue', d)) = Cardinality(Places(queue, d)) + k
        /\ Seat(d, marked') + Seat(d, pending') + k = Seat(d, marked) + Seat(d, pending)
  <2>1. CASE d = c
    BY <1>2, <1>3, <2>1
  <2>2. CASE d # c
    BY <1>2, <1>3, <2>2
  <2>3. QED BY <2>1, <2>2
<1>6. /\ Cardinality(Places(queue, d)) \in Nat /\ Cardinality(Places(queue', d)) \in Nat
      /\ OwedTo(d) \in Nat
      /\ OwedTo(d)' = OwedTo(d)
               + (Cardinality(Places(queue', d)) - Cardinality(Places(queue, d)))
               + (Seat(d, marked') - Seat(d, marked)) + (Seat(d, pending') - Seat(d, pending))
  BY BalanceOfHandlers
<1>7. QED BY ONLY <1>4, <1>5, <1>6

LEMMA RequestImplements ==
  ASSUME TypeInv, TypeInv', Quiet, Known, HTyped, Recorded, NEW c \in Calls, Request(c)
  PROVE  [Lifecycle!Next]_Lifecycle!vars
<1> USE DEF store, files, boot, worker, requests, pruner, Statuses
<1>1. /\ row \in [Calls -> Statuses \cup {"absent"}] /\ born \in [Calls -> Nat]
      /\ queue \in Seq(Calls) /\ IsFiniteSet({d \in Calls : born[d] # 0})
      /\ Cardinality({d \in Calls : born[d] # 0}) \in Nat
  BY CallsAssumption, FS_Subset, FS_CardinalityType DEF TypeInv, TypeOK, StoreOK, QueueOK
<1>2. ASSUME phase' = phase, Up, UNCHANGED <<pc, call>>
      PROVE  \A d \in Calls :
                /\ {Cardinality(Places(queue, d)), Cardinality(Places(queue', d)), OwedTo(d)}
                      \subseteq Nat
                /\ OwedTo(d)' = OwedTo(d)
                    + (Cardinality(Places(queue', d)) - Cardinality(Places(queue, d)))
                    + (Seat(d, marked') - Seat(d, marked)) + (Seat(d, pending') - Seat(d, pending))
  BY <1>2, BalanceOfHandlers
<1>3. CASE Upload(c)
  <2>1. /\ phase = "serving" /\ UNCHANGED <<phase, pc, call, marked, pending>>
        /\ queue' = Append(queue, c) /\ born[c] = 0 /\ ~Live(c)
        /\ born'[c] # 0 /\ row'[c] = "queued"
        /\ \A d \in Calls \ {c} : row'[d] = row[d] /\ born'[d] = born[d]
    BY <1>1, <1>3 DEF Upload, Known
  <2>0. Up /\ Up' /\ NobodyEnds
    BY <2>1 DEF Up, NobodyEnds, Ends
  <2>2. \A d \in Calls : Cardinality(Places(queue', d)) =
            Cardinality(Places(queue, d)) + (IF d = c THEN 1 ELSE 0)
    BY <1>1, <2>1, PlacesAppend
  <2>3. OwedTo(c)' = OwedTo(c) + 1 /\ \A d \in Calls \ {c} : OwedTo(d)' = OwedTo(d)
    BY <1>2, <2>0, <2>1, <2>2, SeatIs
  <2>4. Others(c) /\ Shown(c) = "none" /\ Shown(c)' = "pending"
    BY <2>0, <2>1, <2>3 DEF Others, Shown, Live, Unfinished
  <2>5. asked' = [asked EXCEPT ![c] = @ + 1] /\ UNCHANGED answered
    <3>1. Asks(c) /\ \A d \in Calls \ {c} : ~Asks(d)
      BY <2>1 DEF Asks
    <3>2. QED BY <2>0, <3>1, RequestRecorded
  <2>6. Lifecycle!Accept(c)
    BY <2>3, <2>4, <2>5, AskStep DEF Lifecycle!Accept, StatusShown
  <2>7. QED BY <2>6 DEF Lifecycle!Next
<1>4. CASE ReprocessMark(c)
  <2>1. /\ phase = "serving" /\ UNCHANGED <<phase, pc, call, queue, pending, born>>
        /\ Live(c) /\ c \notin marked /\ marked' = marked \cup {c} /\ row'[c] = "processing"
        /\ \A d \in Calls \ {c} : row'[d] = row[d]
    BY <1>1, <1>4 DEF ReprocessMark, SetStatus, Live
  <2>0. Up /\ Up' /\ NobodyEnds
    BY <2>1 DEF Up, NobodyEnds, Ends
  <2>2. OwedTo(c)' = OwedTo(c) + 1 /\ \A d \in Calls \ {c} : OwedTo(d)' = OwedTo(d)
    BY <1>2, <2>0, <2>1, SeatIs
  <2>3. Others(c) /\ Shown(c) \notin {"none", "deleted"} /\ Shown(c)' = "pending"
    BY <1>1, <2>0, <2>1, <2>2 DEF Others, Shown, Live, Unfinished
  <2>4. asked' = [asked EXCEPT ![c] = @ + 1] /\ UNCHANGED answered
    <3>1. Asks(c) /\ \A d \in Calls \ {c} : ~Asks(d)
      BY <2>1 DEF Asks
    <3>2. QED BY <2>0, <3>1, RequestRecorded
  <2>5. Lifecycle!Request(c)
    BY <2>2, <2>3, <2>4, AskStep DEF Lifecycle!Request, Lifecycle!Known, StatusShown
  <2>6. QED BY <2>5 DEF Lifecycle!Next
<1>5. CASE ReprocessSubmit(c)
  <2>1. /\ phase \notin {"down", "booting"} /\ UNCHANGED <<phase, pc, call, pending, born, row>>
        /\ c \in marked /\ marked' = marked \ {c} /\ queue' = Append(queue, c)
    BY <1>5 DEF ReprocessSubmit, Quiet
  <2>2. Up /\ Up' /\ UNCHANGED history
    BY <2>1, NobodyElse DEF Up, TypeInv, TypeOK, QueueOK
  <2>3. Unseen
    BY <2>1, <2>2, HandedOver DEF Unseen, Shown, Live, Unfinished
  <2>4. QED BY <2>3, UnseenStep
<1>6. CASE DeleteRow(c)
  BY <1>6, DropImplements DEF DeleteRow
<1>7. CASE DeleteRead(c) \/ DeleteAudio(c) \/ DeleteWav(c)
            \/ DeleteFails(c) \/ GetWaveform(c)
  <2>1. UNCHANGED <<row, born, phase, queue, call, pc, marked, pending>>
    BY <1>7 DEF DeleteRead, DeleteAudio, DeleteWav, DeleteFails, GetWaveform
  <2>2. QED BY <2>1, NothingDone
<1>8. QED BY <1>3, <1>4, <1>5, <1>6, <1>7 DEF Request

LEMMA ServerImplements ==
  ASSUME TypeInv, TypeInv', Quiet, ResetDone, Known, HTyped, Recorded, Prune \/ Startup \/ Crash
  PROVE  [Lifecycle!Next]_Lifecycle!vars
<1> USE DEF store, files, boot, worker, requests, pruner, Statuses
<1>1. row \in [Calls -> Statuses \cup {"absent"}] /\ queue \in Seq(Calls)
  BY DEF TypeInv, TypeOK, StoreOK, QueueOK
<1>2. Summed'
  <2>1. (TypeInv => Summed)'
    BY OwingIsSum, PTL
  <2>2. QED BY <2>1
<1>4. CASE Scan \/ PruneFile \/ PruneFileFails
  <2>1. UNCHANGED <<row, born, phase, queue, call, pc, marked, pending>>
    BY <1>4 DEF Scan, PruneFile, PruneFileFails
  <2>2. QED BY <2>1, NothingDone
<1>5. ASSUME NEW c \in Calls, PruneRow(c) \/ PruneRowFails(c)
      PROVE  [Lifecycle!Next]_Lifecycle!vars
  <2>1. RowsOf(c) \in SUBSET Calls
    BY DEF RowsOf
  <2>2. PICK R \in SUBSET RowsOf(c) : DropRows(R)
    BY <1>5, <2>1 DEF PruneRow, PruneRowFails
  <2>3. UNCHANGED <<born, phase, queue, call, pc, marked, pending>>
    BY <1>5 DEF PruneRow, PruneRowFails
  <2>4. R \in SUBSET Calls
    BY <2>1
  <2>5. QED BY <2>2, <2>3, <2>4, DropImplements
<1>6. CASE Boot
  <2>1. phase = "down" /\ phase' = "booting" /\ born' = born
        /\ \A d \in Calls : row'[d] = IF row[d] = "processing" THEN "queued" ELSE row[d]
    BY <1>6 DEF Boot
  <2>2. ~Up /\ ~Up' /\ UNCHANGED history
    <3>1. UNCHANGED <<pc, marked>>
      BY <1>6 DEF Boot
    <3>2. QED BY <2>1, <3>1, NobodyElse DEF Up
  <2>3. Unseen
    <3>1. \A d \in Calls : Live(d)' = Live(d) /\ Unfinished(d)' = Unfinished(d)
                           /\ (~Unfinished(d) => row'[d] = row[d])
      BY <1>1, <2>1 DEF Live, Unfinished
    <3>2. \A d \in Calls : Shown(d)' = Shown(d) /\ OwedTo(d)' = OwedTo(d)
      BY <2>1, <2>2, <3>1 DEF Shown, OwedTo
    <3>3. Up' = Up
      BY <2>1 DEF Up
    <3>4. QED BY <2>2, <3>2, <3>3 DEF Unseen
  <2>4. QED BY <2>3, UnseenStep
<1>7. CASE ReadPending
  <2>1. /\ phase = "booting" /\ phase' = "submitting" /\ UNCHANGED <<row, born, queue, pc, call,
           marked>>
        /\ pending' = {d \in Calls : row[d] = "queued"} /\ queue = <<>> /\ marked = {}
        /\ \A w \in Workers : pc[w] = "idle" /\ call[w] \notin Calls
        /\ \A d \in Calls : row[d] # "processing"
    BY <1>7, CallsAssumption DEF ReadPending, Quiet, ResetDone, TypeInv, HoldsJob
  <2>2. ASSUME NEW d \in Calls PROVE OwedTo(d)' = OwedTo(d)
    <3>1. Places(queue, d) = {} /\ Holders(d)' = {}
      BY <2>1 DEF Places, Holders
    <3>2. Cardinality(Places(queue, d)) = 0 /\ Cardinality(Holders(d)') = 0
      BY <3>1, FS_EmptySet
    <3>3. Seat(d, marked') = 0 /\ Seat(d, pending') = IF d \in pending' THEN 1 ELSE 0
      BY <2>1, SeatIs
    <3>4. Owing(d)' = Cardinality(Places(queue', d)) + Cardinality(Holders(d)')
                        + Seat(d, marked') + Seat(d, pending')
      BY <1>2 DEF Summed, Places, Seat
    <3>5. Owing(d)' = Seat(d, pending')
      BY <2>1, <3>2, <3>3, <3>4, SeatIs
    <3>6. OwedTo(d) = (IF Unfinished(d) THEN 1 ELSE 0) /\ OwedTo(d)' = Owing(d)'
      BY <2>1 DEF OwedTo, Up
    <3>7. QED BY <2>1, <3>3, <3>5, <3>6 DEF Unfinished
  <2>3. ~Up /\ Up' /\ UNCHANGED history
    <3>1. UNCHANGED pc
      BY <1>7 DEF ReadPending
    <3>2. QED BY <2>1, <3>1, NobodyElse DEF Up
  <2>4. StatusShown' = StatusShown /\ Owed' = Owed
    BY <2>1, <2>2 DEF StatusShown, Owed, Shown, Live, Unfinished
  <2>5. Lifecycle!Restart
    BY <2>3, <2>4 DEF Lifecycle!Restart, history
  <2>6. QED BY <2>5 DEF Lifecycle!Next
<1>8. ASSUME NEW c \in Calls, SubmitPending(c) PROVE [Lifecycle!Next]_Lifecycle!vars
  <2>1. /\ phase \notin {"down", "booting"} /\ UNCHANGED <<phase, pc, call, marked, born, row>>
        /\ c \in pending /\ pending' = pending \ {c} /\ queue' = Append(queue, c)
    BY <1>8 DEF SubmitPending, Quiet
  <2>2. Up /\ Up' /\ UNCHANGED history
    BY <2>1, NobodyElse DEF Up, TypeInv, TypeOK, QueueOK
  <2>3. Unseen
    BY <1>8, <2>1, <2>2, HandedOver DEF Unseen, Shown, Live, Unfinished
  <2>4. QED BY <2>3, UnseenStep
<1>9. CASE Serve
  <2>1. /\ phase = "submitting" /\ phase' = "serving"
        /\ UNCHANGED <<row, born, queue, call, pc, marked, pending>>
    BY <1>9 DEF Serve
  <2>2. \A d \in Calls : Jobs(d)' = Jobs(d) /\ Holders(d)' = Holders(d)
    BY <2>1 DEF Jobs, Holders
  <2>3. Up /\ Up' /\ UNCHANGED history
    BY <2>1, NobodyElse DEF Up
  <2>4. Unseen
    BY <2>1, <2>2, <2>3 DEF Unseen, Shown, Live, Unfinished, OwedTo, Owing
  <2>5. QED BY <2>4, UnseenStep
<1>10. CASE Crash
  <2>1. /\ phase' = "down" /\ UNCHANGED <<row, born>> /\ marked' = {}
        /\ \A w \in Workers : pc'[w] = "idle"
    BY <1>10 DEF Crash, Halt
  <2>2. ~Up' /\ UNCHANGED history
    <3>1. NobodyAsks /\ NobodyEnds
      BY <2>1 DEF NobodyAsks, NobodyEnds, Asks, Ends
    <3>2. QED BY <2>1, <3>1, NothingRecorded DEF Up
  <2>3. StatusShown' = StatusShown
    BY <2>1 DEF StatusShown, Shown, Live, Unfinished
  <2>4. \A d \in Calls : Unfinished(d)' = Unfinished(d)
        /\ (StatusShown[d] = "pending" <=> Unfinished(d))
    BY <1>1, <2>1 DEF StatusShown, Shown, Live, Unfinished
  <2>5. \A d \in Calls : OwedTo(d)' = IF StatusShown[d] = "pending" THEN 1 ELSE 0
    BY <2>2, <2>4 DEF OwedTo
  <2>6. CASE Up
    <3>1. Lifecycle!Crash
      BY <2>2, <2>3, <2>5, <2>6 DEF Lifecycle!Crash, Owed, history
    <3>2. QED BY <3>1 DEF Lifecycle!Next
  <2>7. CASE ~Up
    <3>1. Owed' = Owed
      BY <2>4, <2>5, <2>7 DEF Owed, OwedTo
    <3>2. phase \notin {"submitting", "serving"} /\ Up' = Up
      BY <2>1, <2>7 DEF Up
    <3>3. QED BY <2>2, <2>3, <3>1, <3>2 DEF Lifecycle!vars, history
  <2>8. QED BY <2>6, <2>7
<1>11. QED
  BY <1>4, <1>5, <1>6, <1>7, <1>8, <1>9, <1>10 DEF Prune, Startup

LEMMA HistoryIsFree == HSpec => Spec
<1>1. HInit => Init
  BY DEF HInit
<1>2. [HNext]_hvars => [Next]_vars
  BY DEF HNext, hvars
<1>3. QED BY <1>1, <1>2, PTL DEF HSpec, Spec

LEMMA StepImplements ==
  ASSUME TypeInv, TypeInv', StrandInv, Known, HTyped, [HNext]_hvars
  PROVE  [Lifecycle!Next]_Lifecycle!vars
<1>1. CASE HNext
  BY <1>1, WorkerImplements, RequestImplements, ServerImplements DEF HNext, Next, StrandInv
<1>2. CASE UNCHANGED hvars
  <2>1. \A d \in Calls : Jobs(d)' = Jobs(d) /\ Holders(d)' = Holders(d)
    BY <1>2 DEF Jobs, Holders, hvars, vars, worker
  <2>2. QED
    BY <1>2, <2>1 DEF Lifecycle!vars, StatusShown, Owed, Shown, OwedTo, Owing, Live, Unfinished, Up,
       hvars, vars, store, boot, worker, requests, history
<1>3. QED BY <1>1, <1>2

(* Every request to process a call - its upload, each reprocess - is answered once,
   and nothing is answered or shown unasked for: through OOM retries, failures,
   deletions, requests that overlap, crashes and restarts, the local server does what
   CallLifecycle promises, for any number of calls and workers. *)
THEOREM QueueKeepsItsPromises == HSpec => ImplementsLifecycle
<1>1. HInit => Lifecycle!Init
  BY DEF HInit, Init, Lifecycle!Init, StatusShown, Owed, Shown, OwedTo, Live, Unfinished, Up
<1>2. QED
  BY <1>1, StepImplements, HistoryIsFree, HistoryTyped, TypeInvariant, StrandInvariant,
     RowsAreKnown, PTL
  DEF HSpec, ImplementsLifecycle, Lifecycle!Spec

(* What CallLifecycle promises, in numbers. A call that is shown as pending is owed
   an answer, so a crash, after which one is owed to every pending call, never
   makes more of them. *)
AnsweredAtMostOnce == \A c \in Calls : answered[c] + OwedTo(c) =< asked[c]
NoneForgotten ==
  Up /\ Up' => \A c \in Calls :
      (answered'[c] + OwedTo(c)') - (answered[c] + OwedTo(c)) = asked'[c] - asked[c]

Counted ==
  /\ HTyped /\ Owed \in [Calls -> Nat]
  /\ \A c \in Calls : StatusShown[c] = "pending" => Owed[c] > 0
  /\ \A c \in Calls : answered[c] + Owed[c] =< asked[c]

LEMMA OwedTyped == TypeInv => Owed \in [Calls -> Nat]
<1> SUFFICES ASSUME TypeInv, NEW c \in Calls PROVE OwedTo(c) \in Nat
  BY DEF Owed
<1>1. Owing(c) \in Nat
  BY OwingIsSum DEF Summed
<1>2. QED BY <1>1 DEF OwedTo

LEMMA CountedStep ==
  ASSUME Counted, HTyped', Owed' \in [Calls -> Nat], [Lifecycle!Next]_Lifecycle!vars
  PROVE  Counted' /\ NoneForgotten
<1>0. StatusShown = [c \in Calls |-> StatusShown[c]]
      /\ StatusShown' = [c \in Calls |-> StatusShown'[c]]
      /\ \A c \in Calls : OwedTo(c) = Owed[c] /\ OwedTo(c)' = Owed'[c]
  BY DEF StatusShown, Owed
<1> USE <1>0 DEF Counted, HTyped, NoneForgotten
<1>1. ASSUME NEW c \in Calls, Lifecycle!Ask(c) PROVE Counted' /\ NoneForgotten
  BY <1>1 DEF Lifecycle!Ask
<1>2. ASSUME NEW c \in Calls, Lifecycle!Work(c) PROVE Counted' /\ NoneForgotten
  BY <1>2 DEF Lifecycle!Work
<1>3. ASSUME NEW c \in Calls, Lifecycle!Answer(c) PROVE Counted' /\ NoneForgotten
  <2>1. \A d \in Calls : StatusShown'[d] = "pending" => StatusShown[d] = "pending" /\ d # c
    <3>1. CASE Lifecycle!Known(c)
      BY <1>3, <3>1 DEF Lifecycle!Answer
    <3>2. CASE ~Lifecycle!Known(c)
      BY <1>3, <3>2 DEF Lifecycle!Answer, Lifecycle!Known
    <3>3. QED BY <3>1, <3>2
  <2>2. QED BY <1>3, <2>1 DEF Lifecycle!Answer
<1>4. ASSUME NEW S \in SUBSET Calls, Lifecycle!Delete(S) PROVE Counted' /\ NoneForgotten
  BY <1>4 DEF Lifecycle!Delete
<1>5. CASE Lifecycle!Crash
  BY <1>5 DEF Lifecycle!Crash
<1>6. CASE Lifecycle!Restart \/ UNCHANGED Lifecycle!vars
  BY <1>6 DEF Lifecycle!Restart, Lifecycle!vars
<1>7. QED
  BY <1>1, <1>2, <1>3, <1>4, <1>5, <1>6 DEF Lifecycle!Next, Lifecycle!Accept, Lifecycle!Request

(* No request is answered twice: counting what is still owed, there are never more
   answers than there were requests, and while the server is up exactly as many more
   as there are more requests - it neither drops nor doubles one (_loop, submit). *)
THEOREM EachAnsweredOnce == HSpec => []AnsweredAtMostOnce /\ [][NoneForgotten]_hvars
<1>1. HInit => Counted
  BY DEF HInit, Init, Counted, HTyped, StatusShown, Owed, Shown, OwedTo, Live, Unfinished, Up
<1>2. ASSUME TypeInv, TypeInv', StrandInv, Known, HTyped, HTyped', Counted, [HNext]_hvars
      PROVE  Counted' /\ NoneForgotten
  <2>1. (TypeInv => Owed \in [Calls -> Nat])'
    BY OwedTyped, PTL
  <2>2. QED BY <1>2, <2>1, StepImplements, CountedStep
<1>3. Counted => AnsweredAtMostOnce
  BY DEF Counted, AnsweredAtMostOnce, Owed
<1>4. QED
  BY <1>1, <1>2, <1>3, HistoryIsFree, HistoryTyped, TypeInvariant, StrandInvariant,
     RowsAreKnown, PTL DEF HSpec

-----------------------------------------------------------------------------
(***************************************************************************)
(* The whole server. To the job queue its steps are steps of QueueStep, so *)
(* what the lemmas above say of the queue holds in the server as well.     *)
(***************************************************************************)
LEMMA ServerIsQueueStep ==
  ASSUME [ServerNext]_serverVars
  PROVE  QueueStep
<1> USE DEF QueueStep
<1>1. ASSUME NEW c \in Calls, Receiving(c) PROVE QueueStep
  BY <1>1 DEF Receiving, AudioOnly, vars, files
<1>2. ASSUME NEW c \in Calls, Accept(c) PROVE QueueStep
  BY <1>2 DEF Accept, Request
<1>3. ASSUME NEW c \in Calls, StoreFails(c) PROVE QueueStep
  BY <1>3 DEF StoreFails, AudioOnly
<1>4. CASE GoDown \/ ComeUp \/ ScanUploads
  BY <1>4 DEF GoDown, ComeUp, ScanUploads, Startup, Prune
<1>5. CASE Elsewhere
  BY <1>5 DEF Elsewhere, Request, Prune, Startup
<1>6. CASE UNCHANGED serverVars
  BY <1>6 DEF serverVars, AudioOnly, vars, files
<1>7. QED BY <1>1, <1>2, <1>3, <1>4, <1>5, <1>6 DEF ServerNext

LEMMA ServerTyped ==
  ASSUME TypeInv, [ServerNext]_serverVars
  PROVE  TypeInv'
<1>1. CASE \E w \in Workers : WorkerStep(w) \/ HandlerDies(w)
  BY <1>1, WorkerTyped
<1>2. CASE (\E c \in Calls : Request(c)) \/ Prune \/ Startup
  BY <1>2, RequestTyped, PrunerTyped, BootTyped
<1>3. CASE Elsewhere
  BY <1>1, <1>2, <1>3 DEF Elsewhere, Request, Prune, Startup
<1>4. ASSUME NEW c \in Calls, Accept(c) PROVE TypeInv'
  BY <1>2, <1>4 DEF Accept, Request
<1>5. CASE ComeUp \/ ScanUploads
  BY <1>2, <1>5 DEF ComeUp, ScanUploads, Startup, Prune
<1>6. CASE (\E c \in Calls : Receiving(c) \/ StoreFails(c)) \/ GoDown \/ UNCHANGED serverVars
  <2>1. \/ UNCHANGED audio
        \/ \E c \in Calls : audio' = [audio EXCEPT ![c] = TRUE]
    BY <1>6 DEF Receiving, StoreFails, GoDown, Uploading!InsertFails, Uploading!Crash, vars, files,
       serverVars
  <2>2. UNCHANGED <<wav, wform>>
    BY <1>6 DEF Receiving, StoreFails, GoDown, Halt, vars, files, serverVars
  <2>3. FilesOK'
    BY <2>1, <2>2 DEF TypeInv, TypeOK, FilesOK
  <2>4. QED BY <2>3, ServerIsQueueStep, QueueStepTyped
<1>7. QED BY <1>3, <1>4, <1>5, <1>6 DEF ServerNext

InsertsOK == inserts \in 0..MaxInserts

LEMMA InsertsStep ==
  ASSUME InsertsOK, [ServerNext]_serverVars
  PROVE  InsertsOK' /\ inserts' >= inserts
<1>1. UNCHANGED inserts \/ (inserts < MaxInserts /\ inserts' = inserts + 1)
  BY DEF ServerNext, Receiving, Accept, StoreFails, GoDown, ComeUp, ScanUploads, Elsewhere, upload,
     serverVars
<1>2. MaxInserts \in Nat
  BY IngestAssumption
<1>3. QED BY <1>1, <1>2 DEF InsertsOK

QueueInv == TypeInv /\ StrandInv /\ Known /\ InsertsOK

LEMMA QueueInServer == ServerSpec => []QueueInv
<1>1. ServerInit => QueueInv
  BY InitTyped, InitStrand, IngestAssumption DEF ServerInit, QueueInv, Init, Known, Live, InsertsOK
<1>2. QueueInv /\ [ServerNext]_serverVars => QueueInv'
  BY ServerIsQueueStep, ServerTyped, QueueStepStrand, KnownStep, InsertsStep DEF QueueInv
<1>3. QED BY <1>1, <1>2, PTL DEF ServerSpec

(***************************************************************************)
(* No recording is left without a call. Stray are the recordings a call    *)
(* does not lead to any more, or will not once its DELETE is through. Only *)
(* a fault adds to them, and each fault no more than it is charged for.    *)
(***************************************************************************)
Stray == Unreachable \cup {c \in Calls : audio[c] /\ deleting[c] \in {"wav", "row"}}
Charged == inserts + 2 * used.crash + used.error

FilesInv ==
  /\ Cardinality(Stray) =< Charged
  /\ \A c \in Calls : deleting[c] # "no" => born[c] # 0

LEMMA StrayGrows ==
  ASSUME NEW F \in SUBSET Calls, NEW G, NEW D \in SUBSET Calls, G \subseteq F \cup D,
         NEW k \in Nat, Cardinality(D) =< k
  PROVE  {Cardinality(F), Cardinality(G)} \subseteq Nat /\ Cardinality(G) =< Cardinality(F) + k
<1>1. IsFiniteSet(F) /\ IsFiniteSet(D) /\ IsFiniteSet(F \cap D)
  BY CallsAssumption, FS_Subset
<1>2. IsFiniteSet(F \cup D)
        /\ Cardinality(F \cup D) = Cardinality(F) + Cardinality(D) - Cardinality(F \cap D)
  BY <1>1, FS_Union
<1>3. IsFiniteSet(G) /\ Cardinality(G) =< Cardinality(F \cup D)
  BY <1>2, FS_Subset
<1>4. /\ Cardinality(F) \in Nat /\ Cardinality(D) \in Nat /\ Cardinality(F \cap D) \in Nat
      /\ Cardinality(G) \in Nat /\ Cardinality(F \cup D) \in Nat
  BY <1>1, <1>2, <1>3, FS_CardinalityType
<1>5. QED BY <1>2, <1>3, <1>4

LEMMA Few ==
  ASSUME NEW x, NEW y
  PROVE  /\ Cardinality({}) = 0 /\ Cardinality({x}) = 1 /\ Cardinality({x, y}) =< 2
         /\ IsFiniteSet({x, y})
<1>1. Cardinality({}) = 0 /\ IsFiniteSet({x}) /\ Cardinality({x}) = 1
  BY FS_EmptySet, FS_Singleton
<1>2. IsFiniteSet({x} \cup {y})
      /\ Cardinality({x} \cup {y}) = IF y \in {x} THEN Cardinality({x}) ELSE Cardinality({x}) + 1
  BY <1>1, FS_AddElement
<1>3. {x, y} = {x} \cup {y}
  OBVIOUS
<1>4. QED BY <1>1, <1>2, <1>3

LEMMA UseCounts ==
  ASSUME TypeInv, NEW e \in {"crash", "reprocess", "delete", "waveform", "fault", "error", "named"},
         Use(e) \/ Note(e)
  PROVE  /\ {used.crash, used.error, used'.crash, used'.error} \subseteq Nat
         /\ used'.crash = IF e = "crash" THEN used.crash + 1 ELSE used.crash
         /\ used'.error = IF e = "error" THEN used.error + 1 ELSE used.error
  BY DEF Use, Note, TypeInv, TypeOK, CountersOK

(* No fault is taken back. *)
LEMMA ChargedStep ==
  ASSUME QueueInv, [ServerNext]_serverVars
  PROVE  {Charged, Charged'} \subseteq Nat /\ Charged' >= Charged
<1>1. inserts \in Nat /\ inserts' \in Nat /\ inserts' >= inserts
  BY IngestAssumption, InsertsStep DEF QueueInv, InsertsOK
<1>2. UNCHANGED used \/ \E e \in {"crash", "reprocess", "delete", "waveform", "fault", "error",
                                    "named"} : Use(e) \/ Note(e)
  <2>1. ASSUME NEW w \in Workers, WorkerStep(w) \/ HandlerDies(w)
        PROVE  UNCHANGED used \/ Use("fault")
    BY <2>1 DEF WorkerStep, Take, Skip, Begin, Convert, OpenPart, Advance, SaveTranscript,
           SaveMetrics,
       SaveQa, Complete, Settle, Fail, OomCheck, OomRetry, OomGiveUp, Requeue, HandlerDies
  <2>2. ASSUME NEW c \in Calls, Request(c)
        PROVE  UNCHANGED used \/ \E e \in {"reprocess", "delete", "waveform", "error",
            "named"} : Use(e) \/ Note(e)
    BY <2>2 DEF Request, Upload, ReprocessMark, ReprocessSubmit, DeleteRead, DeleteAudio, DeleteWav,
       DeleteRow, DeleteFails, GetWaveform
  <2>3. ASSUME Prune \/ Startup \/ Halt \/ AudioOnly
        PROVE  UNCHANGED used \/ Use("crash") \/ Use("error")
    BY <2>3 DEF Prune, Scan, PruneRow, PruneFile, PruneRowFails, PruneFileFails, Startup, Boot,
       ReadPending, SubmitPending, Serve, Halt, AudioOnly
  <2>4. QED BY ServerIsQueueStep, <2>1, <2>2, <2>3 DEF QueueStep
<1>3. used.crash \in Nat /\ used.error \in Nat
  BY DEF QueueInv, TypeInv, TypeOK, CountersOK
<1>4. used'.crash \in Nat /\ used'.error \in Nat /\ used'.crash >= used.crash
      /\ used'.error >= used.error
  BY <1>2, <1>3, UseCounts DEF QueueInv
<1>5. QED BY <1>1, <1>3, <1>4 DEF Charged

LEMMA FilesStep ==
  ASSUME QueueInv, FilesInv, [ServerNext]_serverVars
  PROVE  FilesInv'
<1>1. /\ row \in [Calls -> Statuses \cup {"absent"}] /\ filename \in [Calls -> Calls \cup {NoCall}]
      /\ audio \in [Calls -> BOOLEAN] /\ pruning \in Calls \cup {NoCall}
      /\ deleting \in [Calls -> {"no", "audio", "wav", "row"}]
      /\ inserts \in Nat /\ used.crash \in Nat /\ used.error \in Nat
      /\ NoCall \notin Calls /\ TypeInv
  BY CallsAssumption, IngestAssumption
  DEF QueueInv, TypeInv, TypeOK, StoreOK, FilesOK, RequestsOK, CountersOK, InsertsOK
<1>2. {Charged, Charged'} \subseteq Nat /\ Charged' >= Charged
  BY ChargedStep
<1>3. ASSUME NEW D \in SUBSET Calls, NEW k \in Nat, Cardinality(D) =< k,
             Stray' \subseteq Stray \cup D, Charged' >= Charged + k
      PROVE  (Cardinality(Stray) =< Charged)'
  <2>1. Stray \in SUBSET Calls
    BY DEF Stray, Unreachable
  <2>2. {Cardinality(Stray), Cardinality(Stray')} \subseteq Nat
        /\ Cardinality(Stray') =< Cardinality(Stray) + k
    BY <1>3, <2>1, StrayGrows
  <2>3. QED BY <1>2, <1>3, <2>2 DEF FilesInv
<1>4. ASSUME Stray' \subseteq Stray PROVE (Cardinality(Stray) =< Charged)'
  BY <1>2, <1>3, <1>4, FS_EmptySet
<1>5. ASSUME UNCHANGED <<audio, deleting, pruning, filename>>,
             \A c \in Calls : row[c] # "absent" => row'[c] # "absent"
      PROVE  (Cardinality(Stray) =< Charged)'
  BY <1>4, <1>5 DEF Stray, Unreachable, Live
<1>6. ASSUME NEW w \in Workers, WorkerStep(w) \/ HandlerDies(w) PROVE FilesInv'
  <2>1. /\ UNCHANGED <<born, audio, deleting, pruning, filename>>
        /\ row' = row \/ \E s \in Statuses : SetStatus(call[w], s)
    BY <1>6 DEF store, files, boot, worker, requests, pruner,
       WorkerStep, Take, Skip, Begin, Convert, OpenPart, Advance, SaveTranscript, SaveMetrics,
       SaveQa, Complete, Settle, Fail, OomCheck, OomRetry, OomGiveUp, Requeue, HandlerDies
  <2>2. QED BY <1>1, <1>5, <2>1 DEF SetStatus, Live, FilesInv
<1> USE DEF store, files, boot, worker, requests, pruner
<1>7. ASSUME NEW c \in Calls, Upload(c) PROVE FilesInv'
  <2>1. /\ row' = [row EXCEPT ![c] = "queued"] /\ audio' = [audio EXCEPT ![c] = TRUE]
        /\ UNCHANGED <<deleting, pruning>> /\ born[c] = 0
        /\ \A d \in Calls \ {c} : filename'[d] = filename[d]
    BY <1>1, <1>7 DEF Upload
  <2>2. \A d \in Calls : born[d] # 0 => born'[d] # 0
    BY <1>1, <1>7, UploadIsBorn DEF Upload
  <2>3. Stray' \subseteq Stray
    BY <1>1, <2>1 DEF Stray, Unreachable, Live, FilesInv
  <2>4. QED BY <1>4, <2>1, <2>2, <2>3 DEF FilesInv
<1>8. ASSUME NEW c \in Calls, ReprocessMark(c) \/ ReprocessSubmit(c) \/ GetWaveform(c)
            \/ SubmitPending(c)
      PROVE  FilesInv'
  BY <1>1, <1>5, <1>8
  DEF ReprocessMark, ReprocessSubmit, GetWaveform, SubmitPending, SetStatus, Live, FilesInv
<1>9. ASSUME NEW c \in Calls, DeleteRead(c) \/ DeleteAudio(c) \/ DeleteWav(c) PROVE FilesInv'
  <2>1. UNCHANGED <<born, row, pruning, filename>>
    BY <1>9 DEF DeleteRead, DeleteAudio, DeleteWav
  <2>2. Stray' \subseteq Stray
    BY <1>1, <1>9, <2>1 DEF DeleteRead, DeleteAudio, DeleteWav, Stray, Unreachable, Live
  <2>3. \A d \in Calls : deleting'[d] # "no" => born[d] # 0
    BY <1>1, <1>9 DEF DeleteRead, DeleteAudio, DeleteWav, FilesInv, QueueInv, Known
  <2>4. QED BY <1>4, <2>1, <2>2, <2>3 DEF FilesInv
<1>10. ASSUME NEW c \in Calls, DeleteRow(c) PROVE FilesInv'
  <2>1. Stray' \subseteq Stray
    BY <1>1, <1>10 DEF DeleteRow, DropRows, Stray, Unreachable, Live
  <2>2. QED BY <1>1, <1>4, <1>10, <2>1 DEF DeleteRow, FilesInv
<1>11. ASSUME NEW c \in Calls, PruneRow(c) PROVE FilesInv'
  <2>1. Stray' \subseteq Stray
    BY <1>1, <1>11 DEF PruneRow, RowsOf, DropRows, Stray, Unreachable, Live
  <2>2. QED BY <1>4, <1>11, <2>1 DEF PruneRow, FilesInv
<1>12. CASE PruneFile
  <2>1. Stray' \subseteq Stray
    BY <1>1, <1>12 DEF PruneFile, Stray, Unreachable, Live
  <2>2. QED BY <1>4, <1>12, <2>1 DEF PruneFile, FilesInv
<1>13. CASE ReadPending \/ Serve \/ Scan \/ UNCHANGED vars
  BY <1>1, <1>5, <1>13 DEF ReadPending, Serve, Scan, vars, FilesInv
<1>14. CASE Boot
  BY <1>1, <1>5, <1>14 DEF Boot, FilesInv
(* the faults *)
<1>15. ASSUME NEW c \in Calls, DeleteFails(c) \/ PruneRowFails(c), inserts' = inserts
            PROVE FilesInv'
  <2>1. (Use("error") \/ Note("error")) /\ UNCHANGED <<born, audio, pruning, filename>>
    BY <1>15 DEF DeleteFails, PruneRowFails
  <2>2. Charged' >= Charged + 1
    BY <1>1, <1>15, <2>1, UseCounts DEF Charged
  <2>3. /\ \A d \in Calls : deleting'[d] \in {"no", deleting[d]}
        /\ \A d \in Calls : row'[d] = row[d] \/ d = c \/ filename[d] = c
    BY <1>1, <1>15 DEF DeleteFails, PruneRowFails, DropRows, RowsOf
  <2>4. Stray' \subseteq Stray \cup {c}
    BY <1>1, <2>1, <2>3 DEF Stray, Unreachable, Live
  <2>5. Cardinality({c}) =< 1 /\ {c} \in SUBSET Calls /\ 1 \in Nat
    <3>1. Cardinality({c}) = 1
      BY FS_Singleton
    <3>2. QED BY <3>1
  <2>6. QED BY <1>3, <2>1, <2>2, <2>3, <2>4, <2>5 DEF FilesInv
<1>16. ASSUME PruneFileFails, inserts' = inserts PROVE FilesInv'
  <2>1. /\ Use("error") /\ pruning \in Calls /\ pruning' = NoCall
        /\ UNCHANGED <<born, row, audio, deleting, filename>>
    BY <1>1, <1>16 DEF PruneFileFails
  <2>2. Charged' >= Charged + 1
    BY <1>1, <1>16, <2>1, UseCounts DEF Charged
  <2>3. Stray' \subseteq Stray \cup {pruning}
    BY <1>1, <2>1 DEF Stray, Unreachable, Live
  <2>4. Cardinality({pruning}) = 1
    BY FS_Singleton
  <2>5. Cardinality({pruning}) =< 1 /\ {pruning} \in SUBSET Calls /\ 1 \in Nat
    BY <2>1, <2>4
  <2>6. QED BY <1>3, <2>1, <2>2, <2>3, <2>5 DEF FilesInv
<1>17. CASE GoDown
  <2>1. /\ Use("crash") /\ inserts' = inserts /\ UNCHANGED <<born, row, filename>>
        /\ deleting' = [c \in Calls |-> "no"] /\ pruning' = NoCall
        /\ \/ UNCHANGED audio
           \/ \E c \in Calls : audio' = [audio EXCEPT ![c] = TRUE]
    BY <1>17 DEF GoDown, Halt, Uploading!Crash
  <2>2. Charged' >= Charged + 2
    BY <1>1, <2>1, UseCounts DEF Charged
  <2>3. PICK c : \A d \in Calls \ {c} : audio'[d] = audio[d]
    BY <1>1, <2>1
  <2>4. Stray' \subseteq Stray \cup ({pruning, c} \cap Calls)
    BY <1>1, <2>1, <2>3 DEF Stray, Unreachable, Live
  <2>5. Cardinality({pruning, c} \cap Calls) =< 2
    <3>1. Cardinality({pruning, c}) =< 2 /\ IsFiniteSet({pruning, c})
      BY Few
    <3>2. IsFiniteSet({pruning, c} \cap Calls)
          /\ Cardinality({pruning, c} \cap Calls) =< Cardinality({pruning, c})
      BY <3>1, FS_Subset
    <3>3. Cardinality({pruning, c} \cap Calls) \in Nat /\ Cardinality({pruning, c}) \in Nat
      BY <3>1, <3>2, FS_CardinalityType
    <3>4. QED BY <3>1, <3>2, <3>3
  <2>6. {pruning, c} \cap Calls \in SUBSET Calls /\ 2 \in Nat
    OBVIOUS
  <2>7. QED BY <1>3, <2>1, <2>2, <2>4, <2>5, <2>6 DEF FilesInv
<1>18. ASSUME NEW c \in Calls, StoreFails(c) PROVE FilesInv'
  <2>1. /\ inserts' = inserts + 1 /\ used' = used /\ UNCHANGED <<born, row, filename, deleting,
           pruning>>
        /\ audio' = [audio EXCEPT ![c] = TRUE]
    BY <1>18 DEF StoreFails, Uploading!InsertFails
  <2>2. Charged' >= Charged + 1
    BY <1>1, <2>1 DEF Charged
  <2>3. Stray' \subseteq Stray \cup {c}
    BY <1>1, <2>1 DEF Stray, Unreachable, Live
  <2>4. Cardinality({c}) =< 1 /\ {c} \in SUBSET Calls /\ 1 \in Nat
    <3>1. Cardinality({c}) = 1
      BY FS_Singleton
    <3>2. QED BY <3>1
  <2>5. QED BY <1>3, <2>1, <2>2, <2>3, <2>4 DEF FilesInv
<1>19. CASE Elsewhere
  <2>1. inserts' = inserts
    BY <1>19 DEF Elsewhere, upload
  <2>2. QED
    BY <1>6, <1>8, <1>9, <1>10, <1>11, <1>12, <1>13, <1>15, <1>16, <1>19, <2>1 DEF Elsewhere
<1>20. ASSUME NEW c \in Calls, Receiving(c) \/ Accept(c) PROVE FilesInv'
  BY <1>7, <1>13, <1>20 DEF Receiving, Accept
<1>21. QED
  BY <1>13, <1>14, <1>17, <1>18, <1>19, <1>20 DEF ServerNext, ComeUp, ScanUploads, serverVars

(* For any number of uploads, workers, DELETE requests and rounds of the pruner, and
   whatever goes wrong: a recording on disk has a call that leads to it, or is the one
   the pruner is removing, or is accounted for by an insert, a removal or a crash
   (ingest, delete_call, run_cleanup); but for calls named like a stored file. *)
THEOREM RecordingsHaveCalls == ServerSpec => []FilesHaveCalls
<1>1. ServerInit => FilesInv
  <2>1. ServerInit => Stray = {} /\ Charged = 0 /\ \A c \in Calls : deleting[c] = "no"
    BY DEF ServerInit, Init, Stray, Unreachable, Charged
  <2>2. QED BY <2>1, FS_EmptySet DEF FilesInv
<1>2. QueueInv /\ FilesInv /\ [ServerNext]_serverVars => FilesInv'
  BY FilesStep
<1>3. QueueInv /\ FilesInv => FilesHaveCalls
  <2>1. SUFFICES ASSUME QueueInv, FilesInv PROVE FilesHaveCalls
    OBVIOUS
  <2>2. Stray \in SUBSET Calls /\ Unreachable \subseteq Stray \cup {} /\ {} \in SUBSET Calls
        /\ 0 \in Nat /\ Cardinality({}) =< 0
    BY FS_EmptySet DEF Stray, Unreachable
  <2>3. {Cardinality(Stray), Cardinality(Unreachable)} \subseteq Nat
        /\ Cardinality(Unreachable) =< Cardinality(Stray) + 0
    BY <2>2, StrayGrows
  <2>4. inserts \in Nat /\ used.crash \in Nat /\ used.error \in Nat
    BY <2>1, IngestAssumption DEF QueueInv, TypeInv, TypeOK, CountersOK, InsertsOK
  <2>5. QED BY <2>1, <2>3, <2>4 DEF FilesInv, FilesHaveCalls, Charged
<1>4. QED BY <1>1, <1>2, <1>3, QueueInServer, PTL DEF ServerSpec

-----------------------------------------------------------------------------
(***************************************************************************)
(* The server does to rows and recordings what Ingest assumes of it. The   *)
(* steps of uploads, crashes, restarts and scans are Ingest's own; what is *)
(* to be shown is that the real queue, its workers and the requests take   *)
(* no step but those Ingest knows. The rows tell why: a job is at work     *)
(* only while its row reads "processing", and about to be only while its   *)
(* row does not read that the call is over. Clients wait for a call to     *)
(* settle before they ask for it again: else one job may begin on a call   *)
(* another has just completed, which Ingest does not allow for.            *)
(***************************************************************************)
ShownAtWork ==
  \A w \in Workers : pc[w] \in Stages \cup SaveSteps => row[call[w]] \in {"absent", "processing"}

MappedInv == QueueInv /\ OnceInv /\ ResultsInv /\ ShownAtWork

LEMMA ShownAtWorkStep ==
  ASSUME TypeInv, StrandInv, OnceInv, ShownAtWork, QueueStep
  PROVE  ShownAtWork'
<1> USE DEF store, files, boot, worker, requests, pruner
<1>1. /\ call \in [Workers -> Calls \cup {NoCall}]
      /\ pc \in [Workers -> {"idle", "start", "retrying", "backoff", "settling", "dead"}
         \cup Stages \cup SaveSteps]
      /\ row \in [Calls -> Statuses \cup {"absent"}] /\ NoCall \notin Calls
      /\ \A v \in Workers : pc[v] # "idle" => call[v] \in Calls
  BY CallsAssumption DEF TypeInv, TypeOK, WorkersOK, HoldsJob, StoreOK
<1>2. ASSUME UNCHANGED <<pc, call>>,
             \A c \in Calls : row'[c] \in {row[c], "absent", "processing"} \/ ~Doing(c)
      PROVE  ShownAtWork'
  <2>1. \A v \in Workers : pc[v] \in Stages \cup SaveSteps => call[v] \in Calls /\ Doing(call[v])
    BY <1>1 DEF Doing, AtWork
  <2>2. QED BY <1>2, <2>1 DEF ShownAtWork
<1>3. ASSUME NEW w \in Workers, WorkerStep(w) \/ HandlerDies(w) PROVE ShownAtWork'
  <2>1. /\ \A v \in Workers \ {w} : pc'[v] = pc[v] /\ call'[v] = call[v]
        /\ row' = row \/ (/\ pc[w] \notin {"idle", "settling", "dead"}
                          /\ \E s \in Statuses : SetStatus(call[w], s))
    BY <1>1, <1>3 DEF WorkerStep, Take, Skip, Begin, Convert, OpenPart, Advance, SaveTranscript,
       SaveMetrics, SaveQa, Complete, Settle, Fail, OomCheck, OomRetry, OomGiveUp, Requeue,
       HandlerDies, Working
  <2>2. ASSUME NEW v \in Workers \ {w}, pc'[v] \in Stages \cup SaveSteps
        PROVE  row'[call'[v]] \in {"absent", "processing"}
    <3>1. call[v] \in Calls /\ row[call[v]] \in {"absent", "processing"} /\ AtWork(call[v], v)
      BY <1>1, <2>1, <2>2 DEF ShownAtWork, AtWork
    <3>2. CASE row' = row
      BY <2>1, <3>1, <3>2
    <3>3. CASE pc[w] \notin {"idle", "settling", "dead"}
          /\ \E s \in Statuses : SetStatus(call[w], s)
      <4>1. AtWork(call[w], w) /\ call[w] \in Calls
        BY <1>1, <3>3 DEF AtWork
      <4>2. call[w] # call[v]
        BY <3>1, <4>1 DEF OnceInv, DoneOnce
      <4>3. row'[call[v]] = row[call[v]]
        BY <1>1, <3>1, <3>3, <4>1, <4>2 DEF SetStatus
      <4>4. QED BY <2>1, <3>1, <4>3
    <3>4. QED BY <2>1, <3>2, <3>3
  <2>3. ASSUME pc'[w] \in Stages \cup SaveSteps PROVE row'[call'[w]] \in {"absent", "processing"}
    <3>1. CASE Begin(w) \/ Convert(w) \/ Advance(w)
      BY <1>1, <3>1 DEF Begin, Convert, Advance, SetStatus, Live
    <3>2. CASE OpenPart(w) \/ SaveTranscript(w) \/ SaveMetrics(w) \/ SaveQa(w)
      BY <1>1, <2>3, <3>2 DEF OpenPart, SaveTranscript, SaveMetrics, SaveQa, ShownAtWork
    <3>3. CASE Take(w) \/ Skip(w) \/ Complete(w) \/ Settle(w) \/ Fail(w) \/ OomCheck(w)
                \/ OomRetry(w) \/ OomGiveUp(w) \/ Requeue(w) \/ HandlerDies(w)
      BY <1>1, <2>3, <3>3 DEF Take, Skip, Complete, Settle, Fail, OomCheck, OomRetry, OomGiveUp,
             Requeue,
         HandlerDies
    <3>4. QED BY <1>3, <3>1, <3>2, <3>3 DEF WorkerStep
  <2>4. QED BY <2>2, <2>3 DEF ShownAtWork
<1>4. ASSUME NEW c \in Calls, Upload(c) PROVE ShownAtWork'
  <2>1. ~Doing(c)
    BY <1>4 DEF Upload, OnceInv, BornFirst
  <2>2. QED BY <1>1, <1>2, <1>4, <2>1 DEF Upload
<1>5. ASSUME NEW c \in Calls, Request(c), ~Upload(c) PROVE ShownAtWork'
  BY <1>1, <1>2, <1>5 DEF Request, ReprocessMark, ReprocessSubmit, DeleteRead, DeleteAudio,
     DeleteWav, DeleteRow, DeleteFails, GetWaveform, SetStatus, DropRows
<1>6. CASE Prune \/ AudioOnly
  BY <1>1, <1>2, <1>6 DEF Prune, Scan, PruneRow, PruneFile, PruneRowFails, PruneFileFails,
         DropRows, AudioOnly
<1>7. CASE Boot \/ Halt
  <2>1. \A w \in Workers : pc'[w] = "idle"
    BY <1>7 DEF Boot, Halt, StrandInv, Quiet
  <2>2. QED BY <2>1 DEF ShownAtWork
<1>8. ASSUME ReadPending \/ Serve \/ \E c \in Calls : SubmitPending(c) PROVE ShownAtWork'
  BY <1>2, <1>8 DEF ReadPending, Serve, SubmitPending
<1>9. QED BY <1>3, <1>4, <1>5, <1>6, <1>7, <1>8 DEF QueueStep, Startup

LEMMA MappedInServer == ASSUME ~Overlap PROVE ServerSpec => []MappedInv
<1>1. ServerInit => MappedInv
  <2>1. ServerInit => OnceInv /\ ResultsInv
    BY InitOnce, InitResults DEF ServerInit
  <2>2. ServerInit => QueueInv
    BY InitTyped, InitStrand, IngestAssumption DEF ServerInit, QueueInv, Init, Known, Live,
           InsertsOK
  <2>3. ServerInit => ShownAtWork
    BY DEF ServerInit, Init, ShownAtWork
  <2>4. QED BY <2>1, <2>2, <2>3 DEF MappedInv
<1>2. MappedInv /\ [ServerNext]_serverVars => MappedInv'
  BY ServerIsQueueStep, ServerTyped, QueueStepStrand, KnownStep, InsertsStep, QueueStepOnce,
     QueueStepResults, ShownAtWorkStep
  DEF MappedInv, QueueInv
<1>3. QED BY <1>1, <1>2, PTL DEF ServerSpec

-----------------------------------------------------------------------------
(* What a step of the queue may be to the uploads *)
Unnoticed == UNCHANGED Uploading!vars

(* A step that leaves alone what the uploads can see *)
LEMMA UnnoticedStep ==
  ASSUME UNCHANGED <<upload, row, born, filename, audio, Waiting, Removing, doomed, pruning,
         Events>>,
         phase' = phase \/ (phase # "down" /\ phase' # "down")
  PROVE  Unnoticed
  BY DEF Unnoticed, Uploading!vars, Uploading!upload, Uploading!store, Uploading!pruner, upload

(* SetStatus on a row that is there is Ingest's SetStatus. *)
LEMMA StatusStep ==
  ASSUME NEW c \in Calls, NEW s \in Statuses, Live(c), SetStatus(c, s),
         UNCHANGED <<upload, born, filename, audio, phase, Waiting, Removing, doomed, pruning>>
  PROVE  Uploading!SetStatus(c, s)
  BY DEF SetStatus, Uploading!SetStatus, Uploading!upload, Uploading!pruner, upload

LEMMA GoneStep ==
  ASSUME NEW c \in Calls, NEW s \in Statuses, ~Live(c), SetStatus(c, s), TypeInv
  PROVE  row' = row
  BY DEF SetStatus, TypeInv, TypeOK, StoreOK

LEMMA WaitingAppend ==
  ASSUME TypeInv, NEW c \in Calls, queue' = Append(queue, c)
  PROVE  Waiting' = Waiting \cup {c}
<1>1. queue \in Seq(Calls)
  BY DEF TypeInv, TypeOK, QueueOK
<1>2. DOMAIN queue' = 1..(Len(queue) + 1) /\ DOMAIN queue = 1..Len(queue) /\ Len(queue) \in Nat
      /\ queue'[Len(queue) + 1] = c /\ \A i \in 1..Len(queue) : queue'[i] = queue[i]
  BY <1>1
<1>3. \A d \in Calls : Queued(d)' <=> Queued(d) \/ d = c
  BY <1>2 DEF Queued
<1>4. QED BY <1>3 DEF Waiting

LEMMA WaitingTail ==
  ASSUME TypeInv, queue # <<>>, queue' = Tail(queue)
  PROVE  /\ Head(queue) \in Waiting
         /\ Waiting' = Waiting \/ Waiting' = Waiting \ {Head(queue)}
<1>1. queue \in Seq(Calls)
  BY DEF TypeInv, TypeOK, QueueOK
<1>2. DOMAIN queue = 1..Len(queue) /\ Len(queue) > 0 /\ DOMAIN queue' = 1..(Len(queue) - 1)
      /\ Head(queue) = queue[1] /\ Len(queue) \in Nat
      /\ \A i \in 1..(Len(queue) - 1) : queue'[i] = queue[i + 1]
  BY <1>1
<1>3. \A d \in Calls : Queued(d)' => Queued(d)
  BY <1>2 DEF Queued
<1>4. Head(queue) \in Calls /\ Queued(Head(queue))
  BY <1>1, <1>2 DEF Queued
<1>5. \A d \in Calls : Queued(d) /\ d # Head(queue) => Queued(d)'
  <2>1. ASSUME NEW d \in Calls, d # Head(queue), NEW i \in DOMAIN queue, queue[i] = d
        PROVE  Queued(d)'
    <3>1. i # 1 /\ i - 1 \in DOMAIN queue' /\ queue'[i - 1] = queue[i]
      BY <1>2, <2>1
    <3>2. QED BY <2>1, <3>1 DEF Queued
  <2>2. QED BY <2>1 DEF Queued
<1>6. QED BY <1>3, <1>4, <1>5 DEF Waiting

LEMMA EventsNoted ==
  ASSUME QueueInv, UNCHANGED inserts,
         NEW event \in {"crash", "reprocess", "delete", "error", "named"}, Note(event)
  PROVE  Uploading!Note(event)
<1>1. used' = [used EXCEPT ![event] = used[event] + 1]
  BY DEF Note
<1>2. used \in [crash : Nat, reprocess : Nat, delete : Nat, waveform : Nat, fault : Nat,
                 error : Nat, named : Nat]
  BY DEF QueueInv, TypeInv, TypeOK, CountersOK
<1>3. Events' = [Events EXCEPT ![event] = Events[event] + 1]
  <2>1. CASE event = "crash"
    BY <1>1, <1>2, <2>1 DEF Events
  <2>2. CASE event = "reprocess"
    BY <1>1, <1>2, <2>2 DEF Events
  <2>3. CASE event = "delete"
    BY <1>1, <1>2, <2>3 DEF Events
  <2>4. CASE event = "error"
    BY <1>1, <1>2, <2>4 DEF Events
  <2>5. CASE event = "named"
    BY <1>1, <1>2, <2>5 DEF Events
  <2>6. QED BY <2>1, <2>2, <2>3, <2>4, <2>5
<1>4. QED BY <1>3 DEF Uploading!Note

LEMMA EventsCounted ==
  ASSUME QueueInv, UNCHANGED inserts,
         NEW event \in {"crash", "reprocess", "delete", "error", "named"}, Use(event)
  PROVE  Uploading!Use(event)
<1>1. used \in [crash : Nat, reprocess : Nat, delete : Nat, waveform : Nat, fault : Nat,
                 error : Nat, named : Nat]
      /\ inserts \in 0..MaxInserts /\ MaxInserts \in Nat /\ MaxEvents \in Nat
  BY IngestAssumption, BoundsAssumption DEF QueueInv, TypeInv, TypeOK, CountersOK, InsertsOK
<1>2. Events.crash + Events.delete + Events.reprocess + Events.fault + Events.error
        + Events.named < MaxEvents + MaxInserts
  BY <1>1 DEF Events, Use
<1>3. Note(event)
  BY DEF Use
<1>4. QED BY <1>2, <1>3, EventsNoted DEF Uploading!Use

LEMMA EventsElse ==
  ASSUME QueueInv, NEW event \in {"waveform", "fault"}, Use(event), UNCHANGED inserts
  PROVE  Events' = Events
<1>1. used \in [crash : Nat, reprocess : Nat, delete : Nat, waveform : Nat, fault : Nat,
                 error : Nat, named : Nat]
  BY DEF QueueInv, TypeInv, TypeOK, CountersOK
<1>2. QED BY <1>1 DEF Use, Note, Events

(* A worker's steps: it takes a job off the queue or puts it back, or sets a
   row that is there. *)
LEMMA WorkerUploading ==
  ASSUME MappedInv, NEW w \in Workers, WorkerStep(w) \/ HandlerDies(w), UNCHANGED upload
  PROVE  [Uploading!Next]_Uploading!vars
<1> USE DEF store, files, boot, worker, requests, pruner
<1>1. /\ TypeInv /\ QueueInv /\ call \in [Workers -> Calls \cup {NoCall}]
      /\ row \in [Calls -> Statuses \cup {"absent"}]
      /\ NoCall \notin Calls /\ UNCHANGED inserts
      /\ \A v \in Workers : pc[v] # "idle" => call[v] \in Calls
  BY CallsAssumption
  DEF MappedInv, QueueInv, TypeInv, TypeOK, WorkersOK, StoreOK, HoldsJob, upload
<1>2. /\ UNCHANGED <<born, filename, audio, doomed, pruning, phase, deleting>>
         /\ Removing' = Removing
      /\ phase # "down"
  <2>1. UNCHANGED <<born, filename, audio, doomed, pruning, phase, deleting>>
    BY DEF WorkerStep, Take, Skip, Begin, Convert, OpenPart, Advance, SaveTranscript, SaveMetrics,
       SaveQa, Complete, Settle, Fail, OomCheck, OomRetry, OomGiveUp, Requeue, HandlerDies
  <2>2. pc[w] # "idle" \/ queue # <<>>
    BY DEF WorkerStep, Take, Skip, Begin, Convert, OpenPart, Advance, SaveTranscript, SaveMetrics,
       SaveQa, Complete, Settle, Fail, OomCheck, OomRetry, OomGiveUp, Requeue, HandlerDies, Working
  <2>3. QED BY <2>1, <2>2, WorkerUp DEF MappedInv, QueueInv, StrandInv, Removing
<1>3. CASE UNCHANGED <<row, queue, used>> \/ (UNCHANGED <<row, queue>> /\ Use("fault"))
  <2>1. Waiting' = Waiting /\ Events' = Events
    BY <1>1, <1>3, EventsElse DEF Waiting, Queued, Events
  <2>2. QED BY <1>2, <1>3, <2>1, UnnoticedStep DEF Unnoticed
<1>4. ASSUME NEW s \in Statuses, SetStatus(call[w], s), UNCHANGED <<queue, used>>,
             pc[w] \notin {"idle", "settling", "dead"},
             \/ s = "processing" \/ s = "failed"
             \/ s = "completed" /\ row[call[w]] \in {"absent", "processing"}
      PROVE  [Uploading!Next]_Uploading!vars
  <2>1. call[w] \in Calls /\ Waiting' = Waiting /\ Events' = Events
    BY <1>1, <1>4 DEF Waiting, Queued, Events
  <2>2. CASE ~Live(call[w])
    BY <1>1, <1>2, <1>3, <1>4, <2>1, <2>2, GoneStep
  <2>3. CASE Live(call[w])
    <3>1. row[call[w]] \in {"queued", "processing"}
      <4>1. Doing(call[w])
        BY <1>1, <1>4, <2>1 DEF Doing, AtWork
      <4>2. row[call[w]] \notin Over
        BY <2>1, <4>1 DEF MappedInv, ResultsInv, NotYetOver
      <4>3. QED BY <1>1, <2>1, <2>3, <4>2 DEF Live, Over
    <3>2. Uploading!SetStatus(call[w], s)
      BY <1>2, <1>4, <2>1, <2>3, StatusStep
    <3>3. Uploading!Begin(call[w]) \/ Uploading!End(call[w])
      BY <1>2, <1>4, <2>1, <3>1, <3>2 DEF Uploading!Begin, Uploading!End
    <3>4. Uploading!JobStep(call[w])
      BY <3>3 DEF Uploading!JobStep
    <3>5. QED BY <2>1, <3>4 DEF Uploading!Next
  <2>4. QED BY <2>2, <2>3
<1>5. CASE Take(w)
  <2>1. queue # <<>> /\ queue' = Tail(queue) /\ UNCHANGED <<row, used>>
    BY <1>5 DEF Take
  <2>2. Events' = Events
    BY <1>1, <2>1 DEF Events
  <2>3. CASE Waiting' = Waiting
    BY <1>2, <2>1, <2>2, <2>3, UnnoticedStep DEF Unnoticed
  <2>4. CASE Waiting' = Waiting \ {Head(queue)}
    <3>1. Head(queue) \in Waiting /\ Head(queue) \in Calls
      BY <1>1, <2>1, WaitingTail DEF Waiting
    <3>2. Uploading!Dequeue(Head(queue))
      BY <1>2, <2>1, <2>2, <2>4, <3>1
      DEF Uploading!Dequeue, Uploading!upload, Uploading!store, Uploading!pruner, upload
    <3>3. Uploading!JobStep(Head(queue))
      BY <3>2 DEF Uploading!JobStep
    <3>4. QED BY <3>1, <3>3 DEF Uploading!Next
  <2>5. QED BY <1>1, <2>1, <2>3, <2>4, WaitingTail
<1>6. CASE Requeue(w)
  <2>1. queue' = Append(queue, call[w]) /\ UNCHANGED <<row, used>> /\ pc[w] = "backoff"
    BY <1>6 DEF Requeue
  <2>2. call[w] \in Calls /\ Waiting' = Waiting \cup {call[w]} /\ Events' = Events
    BY <1>1, <2>1, WaitingAppend DEF Events
  <2>3. born[call[w]] # 0
    <3>1. Doing(call[w])
      BY <2>1, <2>2 DEF Doing, AtWork
    <3>2. QED BY <2>2, <3>1 DEF MappedInv, OnceInv, BornFirst
  <2>4. Uploading!Enqueue(call[w])
    BY <1>2, <2>1, <2>2, <2>3
    DEF Uploading!Enqueue, Uploading!upload, Uploading!store, Uploading!pruner, upload
  <2>5. Uploading!JobStep(call[w])
    BY <2>4 DEF Uploading!JobStep
  <2>6. QED BY <2>2, <2>5 DEF Uploading!Next
<1>7. CASE Skip(w) \/ OpenPart(w) \/ SaveTranscript(w) \/ SaveMetrics(w) \/ SaveQa(w) \/ Settle(w)
            \/ OomCheck(w) \/ HandlerDies(w)
  BY <1>3, <1>7 DEF OomCheck, Skip, OpenPart, SaveTranscript, SaveMetrics, SaveQa, Settle,
         HandlerDies
<1>8. CASE Begin(w) \/ Convert(w) \/ Advance(w) \/ OomRetry(w)
  <2>1. SetStatus(call[w], "processing") /\ UNCHANGED <<queue, used>>
        /\ pc[w] \notin {"idle", "settling", "dead"}
    BY <1>8 DEF Begin, Convert, Advance, OomRetry
  <2>2. QED BY <1>4, <2>1
<1>9. CASE Fail(w) \/ OomGiveUp(w)
  <2>1. SetStatus(call[w], "failed") /\ UNCHANGED <<queue, used>>
        /\ pc[w] \notin {"idle", "settling", "dead"}
    BY <1>9 DEF Fail, OomGiveUp, Working
  <2>2. QED BY <1>4, <2>1
<1>10. CASE Complete(w)
  <2>1. SetStatus(call[w], "completed") /\ UNCHANGED <<queue, used>> /\ pc[w] = "completing"
    BY <1>10 DEF Complete
  <2>2. row[call[w]] \in {"absent", "processing"}
    BY <2>1 DEF MappedInv, ShownAtWork
  <2>3. QED BY <1>4, <2>1, <2>2
<1>11. QED BY <1>5, <1>6, <1>7, <1>8, <1>9, <1>10 DEF WorkerStep

(* Requests, the pruner and startup() *)
LEMMA ElseUploading ==
  ASSUME MappedInv, NEW c \in Calls, UNCHANGED upload,
         \/ ReprocessMark(c) \/ ReprocessSubmit(c) \/ GetWaveform(c)
         \/ DeleteRead(c) \/ DeleteAudio(c) \/ DeleteWav(c) \/ DeleteRow(c)
         \/ DeleteFails(c) \/ PruneRow(c) \/ PruneRowFails(c) \/ SubmitPending(c)
  PROVE  [Uploading!Next]_Uploading!vars
<1> USE DEF store, files, boot, worker, requests, pruner, Uploading!upload, Uploading!store,
            Uploading!pruner, upload
<1>1. /\ TypeInv /\ QueueInv /\ UNCHANGED inserts
      /\ row \in [Calls -> Statuses \cup {"absent"}] /\ audio \in [Calls -> BOOLEAN]
      /\ deleting \in [Calls -> {"no", "audio", "wav", "row"}]
  BY DEF MappedInv, QueueInv, TypeInv, TypeOK, StoreOK, FilesOK, RequestsOK
<1>2. CASE ReprocessMark(c)
  <2>1. /\ phase = "serving" /\ Live(c) /\ SetStatus(c, "processing") /\ Use("reprocess")
        /\ UNCHANGED <<born, filename, audio, phase, queue, deleting, doomed, pruning>>
    BY <1>2 DEF ReprocessMark
  <2>2. Waiting' = Waiting /\ Removing' = Removing
    BY <2>1 DEF Waiting, Queued, Removing
  <2>3. Uploading!SetStatus(c, "processing") /\ Uploading!Use("reprocess")
    BY <1>1, <2>1, <2>2, StatusStep, EventsCounted
  <2>4. Uploading!Reprocess(c)
    BY <2>1, <2>3 DEF Uploading!Reprocess, Uploading!Live, Live
  <2>5. QED BY <2>4 DEF Uploading!JobStep, Uploading!Next
<1>3. CASE ReprocessSubmit(c) \/ SubmitPending(c)
  <2>1. /\ c \in marked \cup pending /\ queue' = Append(queue, c)
        /\ UNCHANGED <<row, born, filename, audio, phase, deleting, doomed, pruning, used>>
    BY <1>3 DEF ReprocessSubmit, SubmitPending
  <2>2. born[c] # 0 /\ phase # "down"
    BY <2>1 DEF MappedInv, OnceInv, BornFirst, QueueInv, StrandInv, Quiet
  <2>3. Waiting' = Waiting \cup {c} /\ Removing' = Removing /\ Events' = Events
    BY <1>1, <2>1, WaitingAppend DEF Removing, Events
  <2>4. Uploading!Enqueue(c)
    BY <2>1, <2>2, <2>3 DEF Uploading!Enqueue
  <2>5. QED BY <2>4 DEF Uploading!JobStep, Uploading!Next
<1>4. CASE GetWaveform(c)
  <2>1. Use("waveform") /\ UNCHANGED <<row, born, filename, audio, phase, queue, deleting,
        doomed, pruning>>
    BY <1>4 DEF GetWaveform
  <2>2. Waiting' = Waiting /\ Removing' = Removing /\ Events' = Events
    BY <1>1, <2>1, EventsElse DEF Waiting, Queued, Removing
  <2>3. QED BY <2>1, <2>2, UnnoticedStep DEF Unnoticed
<1>5. CASE DeleteRead(c)
  <2>1. /\ phase = "serving" /\ Live(c) /\ deleting[c] = "no" /\ Use("delete")
        /\ deleting' = [deleting EXCEPT ![c] = "audio"]
        /\ UNCHANGED <<row, born, filename, audio, phase, queue, doomed, pruning>>
    BY <1>5 DEF DeleteRead
  <2>2. Waiting' = Waiting /\ Removing[c] = "no" /\ Removing' = [Removing EXCEPT ![c] = "file"]
    BY <1>1, <2>1 DEF Waiting, Queued, Removing
  <2>3. Uploading!DeleteRead(c)
    BY <1>1, <2>1, <2>2, EventsCounted DEF Uploading!DeleteRead, Uploading!Live, Live
  <2>4. QED BY <2>3 DEF Uploading!Next
<1>6. CASE DeleteAudio(c)
  <2>1. /\ deleting[c] = "audio" /\ deleting' = [deleting EXCEPT ![c] = "wav"]
        /\ audio' = [audio EXCEPT ![c] = FALSE]
        /\ UNCHANGED <<row, born, filename, phase, queue, doomed, pruning, used>>
    BY <1>6 DEF DeleteAudio
  <2>2. /\ Waiting' = Waiting /\ Events' = Events
        /\ Removing[c] = "file" /\ Removing' = [Removing EXCEPT ![c] = "row"]
    BY <1>1, <2>1 DEF Waiting, Queued, Events, Removing
  <2>3. Uploading!DeleteFile(c)
    BY <2>1, <2>2 DEF Uploading!DeleteFile
  <2>4. QED BY <2>3 DEF Uploading!Next
<1>7. CASE DeleteWav(c)
  <2>1. /\ deleting[c] = "wav" /\ deleting' = [deleting EXCEPT ![c] = "row"]
        /\ UNCHANGED <<row, born, filename, audio, phase, queue, doomed, pruning, used>>
    BY <1>7 DEF DeleteWav
  <2>2. Waiting' = Waiting /\ Events' = Events /\ Removing' = Removing
    BY <1>1, <2>1 DEF Waiting, Queued, Events, Removing
  <2>3. QED BY <2>1, <2>2, UnnoticedStep DEF Unnoticed
<1>8. CASE DeleteRow(c)
  <2>1. /\ deleting[c] = "row" /\ deleting' = [deleting EXCEPT ![c] = "no"]
        /\ Uploading!DropRows({c})
        /\ UNCHANGED <<born, filename, audio, phase, queue, doomed, pruning, used>>
    BY <1>8 DEF DeleteRow, DropRows, Uploading!DropRows
  <2>2. /\ Waiting' = Waiting /\ Events' = Events
        /\ Removing[c] = "row" /\ Removing' = [Removing EXCEPT ![c] = "no"]
    BY <1>1, <2>1 DEF Waiting, Queued, Events, Removing
  <2>3. Uploading!DeleteRow(c)
    BY <2>1, <2>2 DEF Uploading!DeleteRow
  <2>4. QED BY <2>3 DEF Uploading!Next
<1>9. CASE PruneRow(c)
  <2>1. /\ pruning = NoCall /\ c \in doomed /\ doomed' = doomed \ {c} /\ pruning' = c
        /\ Uploading!DropRows(Uploading!RowsOf(c))
        /\ UNCHANGED <<born, filename, audio, phase, queue, deleting, used>>
    BY <1>9 DEF PruneRow, DropRows, RowsOf, Uploading!DropRows, Uploading!RowsOf
  <2>2. Waiting' = Waiting /\ Events' = Events /\ Removing' = Removing
    BY <1>1, <2>1 DEF Waiting, Queued, Events, Removing
  <2>3. Uploading!PruneRow(c)
    BY <2>1, <2>2 DEF Uploading!PruneRow
  <2>4. QED BY <2>3 DEF Uploading!Next, Uploading!Prune
<1>10. CASE DeleteFails(c)
  <2>1. /\ deleting[c] # "no" /\ deleting' = [deleting EXCEPT ![c] = "no"] /\ Note("error")
        /\ UNCHANGED <<row, born, filename, audio, phase, queue, doomed, pruning>>
    BY <1>10 DEF DeleteFails
  <2>2. Waiting' = Waiting /\ Removing[c] # "no" /\ Removing' = [Removing EXCEPT ![c] = "no"]
    BY <1>1, <2>1 DEF Waiting, Queued, Removing
  <2>3. Uploading!DeleteFails(c)
    BY <1>1, <2>1, <2>2, EventsNoted DEF Uploading!DeleteFails
  <2>4. QED BY <2>3 DEF Uploading!Next
<1>11. CASE PruneRowFails(c)
  <2>1. /\ pruning = NoCall /\ c \in doomed /\ doomed' = doomed \ {c} /\ Use("error")
        /\ \E S \in SUBSET Uploading!RowsOf(c) : Uploading!DropRows(S)
        /\ UNCHANGED <<born, filename, audio, phase, queue, deleting, pruning>>
    BY <1>11 DEF PruneRowFails, DropRows, RowsOf, Uploading!DropRows, Uploading!RowsOf
  <2>2. Waiting' = Waiting /\ Removing' = Removing
    BY <1>1, <2>1 DEF Waiting, Queued, Removing
  <2>3. Uploading!PruneRowFails(c)
    BY <1>1, <2>1, <2>2, EventsCounted DEF Uploading!PruneRowFails
  <2>4. QED BY <2>3 DEF Uploading!Next, Uploading!Prune
<1>12. QED BY <1>2, <1>3, <1>4, <1>5, <1>6, <1>7, <1>8, <1>9, <1>10, <1>11

LEMMA StepUploading ==
  ASSUME MappedInv, [ServerNext]_serverVars
  PROVE  [Uploading!Next]_Uploading!vars
<1>1. ASSUME NEW c \in Calls, Receiving(c) \/ Accept(c) \/ StoreFails(c) PROVE Uploading!Next
  <2>1. Uploading!UploadStep(c)
    BY <1>1 DEF Receiving, Accept, StoreFails, Uploading!UploadStep
  <2>2. QED BY <2>1 DEF Uploading!Next
<1>2. CASE GoDown \/ ComeUp \/ ScanUploads
  BY <1>2 DEF GoDown, ComeUp, ScanUploads, Uploading!Next, Uploading!Prune
<1>3. CASE Elsewhere
  <2>1. CASE PruneFile
    <3>1. Waiting' = Waiting /\ Events' = Events /\ Removing' = Removing
      BY <1>3, <2>1 DEF Elsewhere, PruneFile, Waiting, Queued, Events, Removing, worker, requests,
         upload
    <3>2. Uploading!PruneFile
      BY <1>3, <2>1, <3>1 DEF Elsewhere, PruneFile, store, boot, Uploading!PruneFile,
         Uploading!upload, upload
    <3>3. QED BY <3>2 DEF Uploading!Next, Uploading!Prune
  <2>2. CASE ReadPending \/ Serve
    <3>1. /\ UNCHANGED <<upload, row, born, filename, audio, queue, deleting, doomed, pruning,
             used>>
          /\ phase # "down" /\ phase' # "down"
      BY <1>3, <2>2 DEF Elsewhere, ReadPending, Serve, store, files, requests, pruner
    <3>2. Waiting' = Waiting /\ Events' = Events /\ Removing' = Removing
      BY <3>1 DEF Waiting, Queued, Events, Removing, upload
    <3>3. QED BY <3>1, <3>2, UnnoticedStep DEF Unnoticed
  <2>3. CASE PruneFileFails
    <3>1. Waiting' = Waiting /\ Removing' = Removing /\ inserts' = inserts /\ Use("error")
      BY <1>3, <2>3 DEF Elsewhere, PruneFileFails, Waiting, Queued, Removing, requests, upload
    <3>2. Uploading!Use("error")
      BY <3>1, EventsCounted DEF MappedInv
    <3>3. Uploading!PruneFileFails
      BY <1>3, <2>3, <3>1, <3>2 DEF Elsewhere, PruneFileFails, store, files, boot,
         Uploading!PruneFileFails, Uploading!upload, Uploading!store, upload
    <3>4. QED BY <3>3 DEF Uploading!Next, Uploading!Prune
  <2>4. QED
    BY <1>3, <2>1, <2>2, <2>3, WorkerUploading, ElseUploading DEF Elsewhere
<1>4. CASE UNCHANGED serverVars
  <2>1. UNCHANGED <<upload, row, born, filename, audio, phase, queue, deleting, doomed, pruning,
        used>>
    BY <1>4 DEF serverVars, vars, store, files, boot, requests, pruner
  <2>2. Waiting' = Waiting /\ Events' = Events /\ Removing' = Removing
    BY <2>1 DEF Waiting, Queued, Events, Removing, upload
  <2>3. QED BY <2>1, <2>2, UnnoticedStep DEF Unnoticed
<1>5. QED BY <1>1, <1>2, <1>3, <1>4 DEF ServerNext

(* For any number of calls, workers, retries, requests and crashes, as long as
   clients wait for a call to settle before they ask for it again: to the
   uploads the whole server behaves as Ingest has it, so that what is proved of
   Ingest under its assumed job queue holds with the real one. *)
THEOREM ServerKeepsToIngest == ASSUME ~Overlap PROVE ServerSpec => ImplementsIngest
<1>1. ServerInit => Uploading!Init
  <2>1. SUFFICES ASSUME ServerInit PROVE Uploading!Init
    OBVIOUS
  <2>2. Waiting = {} /\ Removing = [c \in Calls |-> "no"]
    BY <2>1 DEF ServerInit, Init, Waiting, Queued, Removing
  <2>3. Events = [crash |-> 0, delete |-> 0, reprocess |-> 0, fault |-> 0, error |-> 0, named |-> 0]
    BY <2>1 DEF ServerInit, Init, Events
  <2>4. QED BY <2>1, <2>2, <2>3 DEF ServerInit, Init, Uploading!Init
<1>2. MappedInv /\ [ServerNext]_serverVars => [Uploading!Next]_Uploading!vars
  BY StepUploading
<1>3. QED
  BY <1>1, <1>2, MappedInServer, PTL DEF ServerSpec, ImplementsIngest, Uploading!Spec

-----------------------------------------------------------------------------
(***************************************************************************)
(* What is proved of Ingest holds of the server. Proved is Ingest with its *)
(* theorems under the substitution of LocalServer's Uploading, so the two  *)
(* are the same specification definition by definition; what follows says  *)
(* so of each action.                                                      *)
(***************************************************************************)
Proved == INSTANCE Ingest_proofs WITH
    Uploads <- Calls, NoUpload <- NoCall, MaxEvents <- MaxEvents + MaxInserts,
    phase <- IF phase = "down" THEN "down" ELSE "up",
    pc <- upc, status <- row, created <- born, waiting <- Waiting,
    deleting <- Removing, used <- Events

LEMMA SameHelpers ==
  /\ \A S : Proved!Cardinality(S) = Uploading!Cardinality(S)
  /\ \A u \in Calls : /\ Proved!Streamed(u) <=> Uploading!Streamed(u)
                      /\ Proved!FindDuplicate(u) = Uploading!FindDuplicate(u)
<1>1. \A S : Proved!Cardinality(S) = Uploading!Cardinality(S)
  BY Zenon DEF Proved!Cardinality, Uploading!Cardinality
<1>2. ASSUME NEW u \in Calls
      PROVE  /\ Proved!Streamed(u) <=> Uploading!Streamed(u)
             /\ Proved!FindDuplicate(u) = Uploading!FindDuplicate(u)
  <2>1. Proved!Candidates(u) = Uploading!Candidates(u)
    BY DEF Proved!Candidates, Uploading!Candidates
  <2>2. \A S : Proved!Oldest(S) = Uploading!Oldest(S)
    BY Zenon DEF Proved!Oldest, Uploading!Oldest
  <2>3. QED
    BY <2>1, <2>2
    DEF Proved!Streamed, Uploading!Streamed, Proved!FindDuplicate, Uploading!FindDuplicate
<1>3. QED BY <1>1, <1>2

LEMMA SameUploadStep == ASSUME NEW u \in Calls, Uploading!UploadStep(u) PROVE Proved!UploadStep(u)
<1>1. Uploading!Arrive(u) => Proved!Arrive(u)
  BY SameHelpers DEF Proved!Arrive, Uploading!Arrive, Proved!upload, Uploading!upload,
         Proved!store, Uploading!store, Proved!pruner, Uploading!pruner
<1>2. Uploading!Receive(u) => Proved!Receive(u)
  BY DEF Proved!Receive, Uploading!Receive, Proved!upload, Uploading!upload, Proved!store,
         Uploading!store, Proved!pruner, Uploading!pruner
<1>3. Uploading!Reject(u) => Proved!Reject(u)
  BY DEF Proved!Reject, Uploading!Reject, Proved!upload, Uploading!upload, Proved!store,
         Uploading!store, Proved!pruner, Uploading!pruner
<1>4. Uploading!AnswerDuplicate(u) => Proved!AnswerDuplicate(u)
  BY SameHelpers DEF Proved!AnswerDuplicate, Uploading!AnswerDuplicate, Proved!upload,
         Uploading!upload, Proved!store, Uploading!store, Proved!pruner, Uploading!pruner
<1>5. Uploading!Accept(u) => Proved!Accept(u)
  BY SameHelpers DEF Proved!Accept, Uploading!Accept, Proved!upload, Uploading!upload,
         Proved!store, Uploading!store, Proved!pruner, Uploading!pruner, Proved!Use, Proved!Note,
         Uploading!Use, Uploading!Note
<1>6. Uploading!InsertFails(u) => Proved!InsertFails(u)
  BY SameHelpers DEF Proved!InsertFails, Uploading!InsertFails, Proved!upload, Uploading!upload,
         Proved!store, Uploading!store, Proved!pruner, Uploading!pruner, Proved!Use, Proved!Note,
         Uploading!Use, Uploading!Note
<1>7. QED BY <1>1, <1>2, <1>3, <1>4, <1>5, <1>6 DEF Proved!UploadStep, Uploading!UploadStep

LEMMA SameJobStep == ASSUME NEW u \in Calls, Uploading!JobStep(u) PROVE Proved!JobStep(u)
<1>1. Uploading!Enqueue(u) => Proved!Enqueue(u)
  BY DEF Proved!Enqueue, Uploading!Enqueue, Proved!upload, Uploading!upload, Proved!store,
         Uploading!store, Proved!pruner, Uploading!pruner
<1>2. Uploading!Dequeue(u) => Proved!Dequeue(u)
  BY DEF Proved!Dequeue, Uploading!Dequeue, Proved!upload, Uploading!upload, Proved!store,
         Uploading!store, Proved!pruner, Uploading!pruner
<1>3. Uploading!Begin(u) => Proved!Begin(u)
  BY DEF Proved!Begin, Uploading!Begin, Proved!upload, Uploading!upload, Proved!store,
         Uploading!store, Proved!pruner, Uploading!pruner, Proved!SetStatus, Uploading!SetStatus
<1>4. Uploading!End(u) => Proved!End(u)
  BY DEF Proved!End, Uploading!End, Proved!upload, Uploading!upload, Proved!store,
         Uploading!store, Proved!pruner, Uploading!pruner, Proved!SetStatus, Uploading!SetStatus
<1>5. Uploading!Reprocess(u) => Proved!Reprocess(u)
  BY DEF Proved!Reprocess, Uploading!Reprocess, Proved!upload, Uploading!upload, Proved!store,
         Uploading!store, Proved!pruner, Uploading!pruner, Proved!Use, Proved!Note,
         Uploading!Use, Uploading!Note,
         Proved!SetStatus, Uploading!SetStatus, Proved!Live, Uploading!Live
<1>6. QED BY <1>1, <1>2, <1>3, <1>4, <1>5 DEF Proved!JobStep, Uploading!JobStep

LEMMA SameRemovals ==
  ASSUME NEW u \in Calls
  PROVE  /\ Uploading!DeleteRead(u) => Proved!DeleteRead(u)
         /\ Uploading!DeleteFile(u) => Proved!DeleteFile(u)
         /\ Uploading!DeleteRow(u) => Proved!DeleteRow(u)
         /\ Uploading!DeleteFails(u) => Proved!DeleteFails(u)
         /\ Uploading!PruneRow(u) => Proved!PruneRow(u)
         /\ Uploading!PruneRowFails(u) => Proved!PruneRowFails(u)
<1>1. Uploading!DeleteRead(u) => Proved!DeleteRead(u)
  BY DEF Proved!DeleteRead, Uploading!DeleteRead, Proved!upload, Uploading!upload, Proved!store,
         Uploading!store, Proved!pruner, Uploading!pruner, Proved!Use, Proved!Note,
         Uploading!Use, Uploading!Note, Proved!Live,
         Uploading!Live
<1>2. Uploading!DeleteFile(u) => Proved!DeleteFile(u)
  BY DEF Proved!DeleteFile, Uploading!DeleteFile, Proved!upload, Uploading!upload, Proved!store,
         Uploading!store, Proved!pruner, Uploading!pruner
<1>3. Uploading!DeleteRow(u) => Proved!DeleteRow(u)
  BY DEF Proved!DeleteRow, Uploading!DeleteRow, Proved!upload, Uploading!upload, Proved!store,
         Uploading!store, Proved!pruner, Uploading!pruner, Proved!DropRows, Uploading!DropRows
<1>4. Uploading!DeleteFails(u) => Proved!DeleteFails(u)
  BY DEF Proved!DeleteFails, Uploading!DeleteFails, Proved!upload, Uploading!upload, Proved!store,
         Uploading!store, Proved!pruner, Uploading!pruner, Proved!Use, Proved!Note,
         Uploading!Use, Uploading!Note
<1>5. Uploading!PruneRow(u) => Proved!PruneRow(u)
  BY DEF Proved!PruneRow, Uploading!PruneRow, Proved!upload, Uploading!upload, Proved!store,
         Uploading!store, Proved!pruner, Uploading!pruner, Proved!DropRows, Uploading!DropRows,
         Proved!RowsOf, Uploading!RowsOf
<1>6. Uploading!PruneRowFails(u) => Proved!PruneRowFails(u)
  BY DEF Proved!PruneRowFails, Uploading!PruneRowFails, Proved!upload, Uploading!upload,
         Proved!store, Uploading!store, Proved!pruner, Uploading!pruner, Proved!DropRows,
         Uploading!DropRows, Proved!RowsOf, Uploading!RowsOf, Proved!Use, Proved!Note,
         Uploading!Use, Uploading!Note
<1>7. QED BY <1>1, <1>2, <1>3, <1>4, <1>5, <1>6

LEMMA SameNext == Uploading!Next => Proved!Next
<1>1. Uploading!Scan => Proved!Scan
  BY SameHelpers DEF Proved!Scan, Uploading!Scan, Proved!Newer, Uploading!Newer, Proved!Files,
         Uploading!Files, Proved!upload, Uploading!upload, Proved!store, Uploading!store,
         Proved!pruner, Uploading!pruner
<1>2. Uploading!PruneFile => Proved!PruneFile
  BY DEF Proved!PruneFile, Uploading!PruneFile, Proved!upload, Uploading!upload, Proved!store,
         Uploading!store, Proved!pruner, Uploading!pruner
<1>3. Uploading!Crash => Proved!Crash
  BY SameHelpers DEF Proved!Crash, Uploading!Crash, Proved!Use, Proved!Note, Uploading!Use,
         Uploading!Note
<1>4. Uploading!Restart => Proved!Restart
  BY DEF Proved!Restart, Uploading!Restart, Proved!upload, Uploading!upload, Proved!store,
         Uploading!store, Proved!pruner, Uploading!pruner
<1>5. Uploading!PruneFileFails => Proved!PruneFileFails
  BY DEF Proved!PruneFileFails, Uploading!PruneFileFails, Proved!upload, Uploading!upload,
         Proved!store, Uploading!store, Proved!pruner, Uploading!pruner, Proved!Use, Proved!Note,
         Uploading!Use, Uploading!Note
<1>6. Uploading!Prune => Proved!Prune
  BY SameRemovals, <1>1, <1>2, <1>5 DEF Proved!Prune, Uploading!Prune
<1>7. QED
  BY SameUploadStep, SameJobStep, SameRemovals, <1>3, <1>4, <1>6
  DEF Proved!Next, Uploading!Next

LEMMA SameVars ==
  /\ Uploading!vars = Proved!vars
  /\ UNCHANGED Uploading!vars <=> UNCHANGED Proved!vars
BY DEF Proved!vars, Uploading!vars, Proved!upload, Uploading!upload, Proved!store,
       Uploading!store, Proved!pruner, Uploading!pruner

LEMMA SameSpec == Uploading!Spec => Proved!Spec
<1>1. Uploading!Init => Proved!Init
  BY DEF Uploading!Init, Proved!Init
<1>2. [Uploading!Next]_Uploading!vars => [Proved!Next]_Proved!vars
  BY SameNext, SameVars
<1>3. QED
  BY <1>1, <1>2, PTL DEF Uploading!Spec, Proved!Spec

(* The assumptions of Ingest on its constants follow from the server's *)
LEMMA IngestIsAssumed ==
  /\ NoCall \notin Calls
  /\ {MaxQueue, MaxChunks, MaxFiles, MaxEvents + MaxInserts} \subseteq Nat
BY CallsAssumption, BoundsAssumption, IngestAssumption

(* Of the whole server with its real job queue, for any number of calls,
   workers and uploads that overlap, as long as clients wait for a call to
   settle: no two calls that have not failed hold one recording, unless a
   DELETE or a reprocess request came between (ingest, _find_duplicate). *)
THEOREM ServerHasOneCallEach ==
  ASSUME ~Overlap PROVE ServerSpec => []Uploading!OneCallPerRecording
<1>1. Proved!Spec => []Proved!OneCallPerRecording
  BY IngestIsAssumed, Proved!OneCallForEach, Zenon
<1>2. Proved!OneCallPerRecording => Uploading!OneCallPerRecording
  BY DEF Proved!OneCallPerRecording, Uploading!OneCallPerRecording
<1>3. QED
  BY <1>1, <1>2, ServerKeepsToIngest, SameSpec, PTL DEF ImplementsIngest

(* Likewise: a refused upload leaves neither row nor recording behind unless
   its insert failed, and no partial file outlives its request and the restart
   (ingest, cleanup_incoming). *)
THEOREM ServerLeavesNothing ==
  ASSUME ~Overlap PROVE ServerSpec => []Uploading!RefusedLeavesNothing
<1>1. Proved!Spec => []Proved!RefusedLeavesNothing
  BY IngestIsAssumed, Proved!RefusedLeaveNothing, Zenon
<1>2. Proved!RefusedLeavesNothing => Uploading!RefusedLeavesNothing
  BY DEF Proved!RefusedLeavesNothing, Uploading!RefusedLeavesNothing, Proved!LeftBehind,
         Uploading!LeftBehind, Proved!Live, Uploading!Live
<1>3. QED
  BY <1>1, <1>2, ServerKeepsToIngest, SameSpec, PTL DEF ImplementsIngest

(* Likewise: beside any jobs, the pruner deletes a recording only while
   MAX_FILES newer ones are kept, as long as no DELETE made its list stale
   (run_cleanup). *)
THEOREM ServerKeepsNewest ==
  ASSUME ~Overlap PROVE ServerSpec => Uploading!PrunerKeepsNewest
<1>1. Proved!Spec => Proved!PrunerKeepsNewest
  BY IngestIsAssumed, Proved!NewestAreKept, Zenon
<1>2. ASSUME NEW u \in Calls
      PROVE  /\ Uploading!Pruned(u) => Proved!Pruned(u)
             /\ Proved!KeptNewest(u) => Uploading!KeptNewest(u)
  BY SameHelpers
  DEF Proved!Pruned, Uploading!Pruned, Proved!KeptNewest, Uploading!KeptNewest, Proved!Newer,
      Uploading!Newer, Proved!Files, Uploading!Files
<1>3. [\A u \in Calls : Proved!Pruned(u) /\ Events.delete = 0 => Proved!KeptNewest(u)]_Proved!vars
      => [\A u \in Calls : Uploading!Pruned(u) /\ Events.delete = 0
                          => Uploading!KeptNewest(u)]_Uploading!vars
  BY <1>2, SameVars
<1>4. Proved!PrunerKeepsNewest => Uploading!PrunerKeepsNewest
  BY <1>3, PTL DEF Proved!PrunerKeepsNewest, Uploading!PrunerKeepsNewest
<1>5. QED
  BY <1>1, <1>4, ServerKeepsToIngest, SameSpec, PTL DEF ImplementsIngest

===============================================================================
