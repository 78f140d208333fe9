-------------------------------- MODULE Tunnel --------------------------------
(***************************************************************************)
(* The scripts that open a tunnel to the running server: `npm run          *)
(* tunnel:cf` (server/tunnel_cf.py) and `npm run tunnel:ngrok`             *)
(* (server/tunnel.py). Each checks once that a server listens, starts the  *)
(* external program as its child, and ends it when it is told to end.      *)
(* Whether a server listens is module Launcher's to say.                   *)
(***************************************************************************)
EXTENDS Launcher

CONSTANTS
    Scripts,     \* tunnel scripts
    MaxSignals   \* bound: signals sent to them

ASSUME ScriptsAssumption == IsFiniteSet(Scripts) /\ MaxSignals \in Nat

VARIABLES
    tool,     \* "ngrok" or "cloudflared"
    at,       \* where each script is
    child,    \* the external program: "none", "up", "told" to end, "gone"
    signals   \* sent to each script so far

tunnel == <<tool, at, child, signals>>
allVars == <<vars, tunnel>>

TInit ==
    /\ Init
    /\ tool \in [Scripts -> {"ngrok", "cloudflared"}]
    /\ at = [s \in Scripts |-> "none"]
    /\ child = [s \in Scripts |-> "none"]
    /\ signals = [s \in Scripts |-> 0]

(* Program, token and password are there, and the server that listens asks for
   the password - or the script says what is missing. *)
Open(s) ==
    /\ at[s] = "none"
    /\ \/ at' = [at EXCEPT ![s] = "over"] /\ UNCHANGED child
       \/ /\ \E p \in Procs : pc[p] = "serving"
          /\ at' = [at EXCEPT ![s] = "starting"]
          /\ child' = [child EXCEPT ![s] = "up"]
    /\ UNCHANGED <<tool, signals>>

(* The script enters its try: ngrok's after the wait for the public URL, which
   may not come. *)
Enter(s) ==
    /\ at[s] = "starting"
    /\ \/ at' = [at EXCEPT ![s] = "open"]
       \/ tool[s] = "ngrok" /\ at' = [at EXCEPT ![s] = "failing"]
    /\ UNCHANGED <<tool, child, signals>>

Told(s) == [child EXCEPT ![s] = IF @ = "up" THEN "told" ELSE @]

GiveUp(s) ==
    /\ at[s] = "failing"
    /\ at' = [at EXCEPT ![s] = "closing"]
    /\ child' = Told(s)
    /\ UNCHANGED <<tool, signals>>

(* proc.wait() returns *)
ChildEnded(s) ==
    /\ at[s] = "open"
    /\ child[s] = "gone"
    /\ at' = [at EXCEPT ![s] = "closing"]
    /\ UNCHANGED <<tool, child, signals>>

(* the finally block: terminate, five seconds, kill *)
Terminate(s) ==
    /\ at[s] = "closing"
    /\ at' = [at EXCEPT ![s] = "ending"]
    /\ child' = Told(s)
    /\ UNCHANGED <<tool, signals>>

Finish_Patient(s) ==
    /\ at[s] = "ending"
    /\ at' = [at EXCEPT ![s] = "over"]
    /\ UNCHANGED <<tool, child, signals>>
Finish(s) ==
    /\ at[s] = "ending"
    /\ at' = [at EXCEPT ![s] = "over"]
    /\ child' = [child EXCEPT ![s] = "gone"]
    /\ UNCHANGED <<tool, signals>>

(* SIGTERM and SIGHUP are made KeyboardInterrupt, which is caught in the try only:
   before it the script is "lost", in the finally "cut". While the first is being
   handled ("closing", too) another still leads to the finally. *)
AfterSignal ==
    [starting |-> {"lost"}, failing |-> {"closing"}, open |-> {"closing"},
     closing |-> {"closing", "cut"}, ending |-> {"cut"}]

(* A Ctrl-C or a closed terminal reaches the child as well. *)
Signal(s) ==
    /\ at[s] \in DOMAIN AfterSignal
    /\ signals[s] < MaxSignals
    /\ signals' = [signals EXCEPT ![s] = @ + 1]
    /\ \E next \in AfterSignal[at[s]] : at' = [at EXCEPT ![s] = next]
    /\ child' \in {child, Told(s)}
    /\ UNCHANGED tool

ChildEnds(s) ==
    /\ child[s] \in {"up", "told"}
    /\ child' = [child EXCEPT ![s] = "gone"]
    /\ UNCHANGED <<tool, at, signals>>

ScriptStep(s) ==
    Open(s) \/ Enter(s) \/ GiveUp(s) \/ ChildEnded(s) \/ Terminate(s) \/ Finish(s) \/ Signal(s) \/ ChildEnds(s)

TNext ==
    \/ Next /\ UNCHANGED tunnel
    \/ \E s \in Scripts : ScriptStep(s) /\ UNCHANGED vars

TSpec == TInit /\ [][TNext]_allVars /\ \A p \in Procs : WF_allVars(Step(p) /\ UNCHANGED tunnel)

-----------------------------------------------------------------------------
(* However the tunnel's end, the missing URL and the signals fall together: a
   script that has run to its end leaves no tunnel open, and one that was cut
   short has told it to end unless it was sent a second signal while it was
   closing. Before its try a script has no such duty (AlwaysTakenDown). *)
TunnelClosed ==
    \A s \in Scripts :
        /\ at[s] = "over" => child[s] \in {"none", "gone"}
        /\ at[s] = "cut" /\ child[s] = "up" => signals[s] >= 2

(* "both scripts trap SIGTERM and take the tunnel process down with them" *)
AlwaysTakenDown == \A s \in Scripts : at[s] \in {"lost", "cut"} => child[s] # "up"

=============================================================================
