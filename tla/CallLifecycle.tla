--------------------------- MODULE CallLifecycle ---------------------------
(***************************************************************************)
(* What the transcription server promises about a recording it accepted,   *)
(* without queue, threads or pipeline. Clients ask for a call to be        *)
(* processed (its upload, a reprocess); every time they ask, one answer is *)
(* owed, the call is shown as pending until then, and no answer comes      *)
(* unasked for. Only a server that goes down forgets what it owes, and     *)
(* even then a call that is shown as pending is owed one answer.           *)
(***************************************************************************)
EXTENDS Naturals

CONSTANT Calls

VARIABLES
    status,    \* what a client is shown
    asked,     \* how often clients have asked for the call to be processed
    answered,  \* how often a request was answered
    owed,      \* answers the server still owes
    up         \* the server takes and answers requests

vars == <<status, asked, answered, owed, up>>

Known(c) == status[c] \notin {"none", "deleted"}

Init ==
    /\ status = [c \in Calls |-> "none"]
    /\ asked = [c \in Calls |-> 0]
    /\ answered = [c \in Calls |-> 0]
    /\ owed = [c \in Calls |-> 0]
    /\ up = FALSE

Ask(c) ==
    /\ up
    /\ status' = [status EXCEPT ![c] = "pending"]
    /\ asked' = [asked EXCEPT ![c] = @ + 1]
    /\ owed' = [owed EXCEPT ![c] = @ + 1]
    /\ UNCHANGED <<answered, up>>

Accept(c) == status[c] = "none" /\ Ask(c)
Request(c) == Known(c) /\ Ask(c)

(* Progress is shown only on behalf of a request. *)
Work(c) ==
    /\ up
    /\ Known(c)
    /\ owed[c] > 0
    /\ status' = [status EXCEPT ![c] = "pending"]
    /\ UNCHANGED <<asked, answered, owed, up>>

Answer(c) ==
    /\ up
    /\ owed[c] > 0
    /\ owed' = [owed EXCEPT ![c] = @ - 1]
    /\ answered' = [answered EXCEPT ![c] = @ + 1]
    /\ IF Known(c)
       THEN \E s \in {"completed", "failed"} : status' = [status EXCEPT ![c] = s]
       ELSE UNCHANGED status
    /\ UNCHANGED <<asked, up>>

(* A running server still answers for the calls it deletes; one that comes up has
   nothing to remember them by. *)
Delete(S) ==
    /\ \A c \in S : Known(c)
    /\ status' = [c \in Calls |-> IF c \in S THEN "deleted" ELSE status[c]]
    /\ owed' = [c \in Calls |-> IF c \in S /\ ~up THEN 0 ELSE owed[c]]
    /\ UNCHANGED <<asked, answered, up>>

(* A crash leaves no more than what the clients are shown. *)
Crash ==
    /\ up
    /\ up' = FALSE
    /\ owed' = [c \in Calls |-> IF status[c] = "pending" THEN 1 ELSE 0]
    /\ UNCHANGED <<status, asked, answered>>

Restart ==
    /\ ~up
    /\ up' = TRUE
    /\ UNCHANGED <<status, asked, answered, owed>>

Next ==
    \/ \E c \in Calls : Accept(c) \/ Request(c) \/ Work(c) \/ Answer(c)
    \/ \E S \in SUBSET Calls : Delete(S)
    \/ Crash
    \/ Restart

Spec == Init /\ [][Next]_vars

=============================================================================
