------------------------- MODULE JobQueueRefinement -------------------------
(***************************************************************************)
(* The job queue keeps the promises of CallLifecycle. Two history          *)
(* variables count, call by call, what clients ask for (the uploads and    *)
(* the reprocess requests) and what they get (set_completed, set_failed or *)
(* the early return of process()). A request is owed its answer as long as *)
(* its job is marked, pending, queued or held by a worker; a job that died *)
(* with its worker thread stays owed. While the server is down, or has not *)
(* read the pending rows yet, the rows are all there is.                   *)
(***************************************************************************)
EXTENDS JobQueue

ASSUME WorkersAssumption == IsFiniteSet(Workers)

VARIABLES
    asked,     \* requests to process the call
    answered   \* jobs of the call that came to an end

history == <<asked, answered>>
hvars == <<vars, history>>

Asks(c) == (born[c] = 0 /\ born'[c] # 0) \/ c \in marked' \ marked
Ends(w) == pc[w] \notin {"idle", "settling"} /\ pc'[w] = "settling"

Recorded ==
    /\ asked' = [c \in Calls |-> asked[c] + IF Asks(c) THEN 1 ELSE 0]
    /\ answered' = [c \in Calls |->
            answered[c] + IF \E w \in Workers : call[w] = c /\ Ends(w) THEN 1 ELSE 0]

HInit ==
    /\ Init
    /\ asked = [c \in Calls |-> 0]
    /\ answered = [c \in Calls |-> 0]

HNext == Next /\ Recorded

HSpec == HInit /\ [][HNext]_hvars
FairHSpec == HSpec /\ Fairness

-----------------------------------------------------------------------------
Shown(c) ==
    CASE ~Live(c) /\ born[c] = 0 -> "none"
      [] ~Live(c) /\ born[c] # 0 -> "deleted"
      [] Unfinished(c)           -> "pending"
      [] OTHER                   -> row[c]

(* the workers that still owe an answer for c, a dead one among them *)
Holders(c) == {w \in Workers : call[w] = c /\ pc[w] # "settling"}

Owing(c) ==
    Cardinality(Jobs(c)) + Cardinality(Holders(c))
        + Cardinality({c} \cap marked) + Cardinality({c} \cap pending)

Up == phase \in {"submitting", "serving"}
OwedTo(c) == IF Up THEN Owing(c) ELSE IF Unfinished(c) THEN 1 ELSE 0

StatusShown == [c \in Calls |-> Shown(c)]
Owed == [c \in Calls |-> OwedTo(c)]

Lifecycle == INSTANCE CallLifecycle WITH
    status <- StatusShown, owed <- Owed, up <- Up

(* Whatever clients ask for is answered exactly once, through OOM retries,
   deletions and restarts, unless a crash intervenes, and then once if the
   call was unfinished; nothing is answered that nobody asked for. *)
ImplementsLifecycle == Lifecycle!Spec

=============================================================================
