------------------------------- MODULE Launcher -------------------------------
(***************************************************************************)
(* How the transcription server is started, replaced and stopped:          *)
(* `npm run dev` (server/start_server.py), `npm run stop`                  *)
(* (server/stop_server.py), a server started with uvicorn by hand, and     *)
(* what a server process does from its start to its end (startup() of      *)
(* server/app.py, server/warmup.py, and uvicorn around them).              *)
(*                                                                         *)
(* A launch goes through stop_previous twice: once under the python it was *)
(* typed with, and again after bootstrap() has replaced that by the        *)
(* virtual environment's (os.execv keeps the process id). The server binds *)
(* its port only when the models are loaded, but it has the database and   *)
(* the GPU from the beginning of its startup hook.                         *)
(***************************************************************************)
EXTENDS Naturals, FiniteSets

CONSTANTS
    Procs,      \* processes, one for each command
    NoProc,     \* "none"
    Overlap,    \* TRUE: commands may look for a previous server at the same time
    MaxFaults   \* bound: interrupts, kills, failing stages, foreign listeners

ASSUME ProcsAssumption == IsFiniteSet(Procs) /\ NoProc \notin Procs
ASSUME LimitsAssumption == Overlap \in BOOLEAN /\ MaxFaults \in Nat

VARIABLES
    host,     \* what is installed: fuser; a uvicorn that returns after SIGTERM
    kind,     \* "dev", "stop" or "uvicorn"
    pc,       \* how far each process is
    pass,     \* 1 before os.execv, 2 after
    victim,   \* the process whose id it has read
    asked,    \* the last signal a server has been sent
    pidFile,  \* the process .server.pid names
    foreign,  \* another program listens on the port
    faults    \* those events so far

vars == <<host, kind, pc, pass, victim, asked, pidFile, foreign, faults>>

-----------------------------------------------------------------------------
Stopping == {"reading", "killing", "unlinking", "sweeping", "fusing", "waiting"}
AtWork == {"loading", "binding", "serving", "draining"}
Over == {"none", "gone", "stopped"}

Alive(p) == pc[p] \notin Over
Servers == {p \in Procs : pc[p] \in AtWork}
Launched == {p \in Servers : kind[p] = "dev"}
PortBusy == foreign \/ \E p \in Procs : pc[p] = "serving"

Become(p, s) == pc' = [pc EXCEPT ![p] = s]
Fault == faults < MaxFaults /\ faults' = faults + 1

(* The assumption Overlap = FALSE: nobody else is between looking for a
   previous server and telling of itself in the PID file. *)
Section(q) == pc[q] \in Stopping \cup {"registering"}
Alone(p) == Overlap \/ \A q \in Procs \ {p} : ~Section(q)

Init ==
    /\ host \in [fuser : BOOLEAN, returns : BOOLEAN]
    /\ kind = [p \in Procs |-> "dev"]
    /\ pc = [p \in Procs |-> "none"]
    /\ pass = [p \in Procs |-> 1]
    /\ victim = [p \in Procs |-> NoProc]
    /\ asked = [p \in Procs |-> "no"]
    /\ pidFile = NoProc
    /\ foreign = FALSE
    /\ faults = 0

-----------------------------------------------------------------------------
(* How a process ends                                                      *)

(* atexit runs when the interpreter returns; it removes the PID file, whoever
   wrote it. A uvicorn since 0.29 raises the signal it was sent again on its
   way out, and SIGTERM then ends the process without atexit. *)
Registered(p) == kind[p] = "dev" /\ pc[p] \in {"importing"} \cup AtWork
FileAfter_Always(p, by) == IF Registered(p) THEN NoProc ELSE pidFile
FileAfter(p, by) ==
    IF Registered(p) /\ (by = "term" => host.returns) THEN NoProc ELSE pidFile

Leave(p, by) == Become(p, "gone") /\ pidFile' = FileAfter(p, by)

(* SIGTERM to S, while p goes on to s: uvicorn notes the signal from loading
   on, before that it is the end. *)
Term(S, p, s) ==
    /\ pc' = [q \in Procs |-> IF q = p THEN s
                              ELSE IF q \in S /\ pc[q] \notin AtWork THEN "gone" ELSE pc[q]]
    /\ asked' = [q \in Procs |-> IF q \in S /\ pc[q] \in AtWork THEN "term" ELSE asked[q]]

-----------------------------------------------------------------------------
(* A command is typed, on a host that has ffmpeg                           *)

Dev(p) ==
    /\ pc[p] = "none"
    /\ Alone(p)
    /\ kind' = [kind EXCEPT ![p] = "dev"]
    /\ \E n \in {1, 2} : pass' = [pass EXCEPT ![p] = n]  \* 2: typed with the venv's python
    /\ Become(p, "reading")
    /\ UNCHANGED <<host, victim, asked, pidFile, foreign, faults>>

Stop(p) ==
    /\ pc[p] = "none"
    /\ Alone(p)
    /\ kind' = [kind EXCEPT ![p] = "stop"]
    /\ Become(p, IF PortBusy THEN "reading" ELSE "gone")
    /\ UNCHANGED <<host, pass, victim, asked, pidFile, foreign, faults>>

Uvicorn(p) ==
    /\ pc[p] = "none"
    /\ kind' = [kind EXCEPT ![p] = "uvicorn"]
    /\ Become(p, "importing")
    /\ UNCHANGED <<host, pass, victim, asked, pidFile, foreign, faults>>

-----------------------------------------------------------------------------
(* stop_previous                                                           *)

(* read the PID file and send SIGTERM to the process it names *)
FindPrevious(p) ==
    LET v == pidFile IN
    /\ pc[p] = "reading"
    /\ victim' = [victim EXCEPT ![p] = v]
    /\ IF v = NoProc THEN Term({}, p, "sweeping")
       ELSE Term({v}, p, IF Alive(v) THEN "killing" ELSE "unlinking")
    /\ UNCHANGED <<host, kind, pass, pidFile, foreign, faults>>

(* _terminate: it has gone, or after five seconds SIGKILL *)
KillPrevious_NoKill(p) ==
    /\ pc[p] = "killing"
    /\ Become(p, "unlinking")
    /\ UNCHANGED <<host, kind, pass, victim, asked, pidFile, foreign, faults>>
KillPrevious(p) ==
    /\ pc[p] = "killing"
    /\ pc' = [pc EXCEPT ![p] = "unlinking", ![victim[p]] = "gone"]
    /\ UNCHANGED <<host, kind, pass, victim, asked, pidFile, foreign, faults>>

(* os.remove(PID_FILE), outside the try: FileNotFoundError ends the command *)
Unlink(p) ==
    /\ pc[p] = "unlinking"
    /\ Become(p, IF pidFile = NoProc THEN "gone" ELSE "sweeping")
    /\ pidFile' = NoProc
    /\ UNCHANGED <<host, kind, pass, victim, asked, foreign, faults>>

(* pkill -f "uvicorn app:app" *)
Pkill(p) ==
    /\ pc[p] = "sweeping"
    /\ Term({q \in Procs : kind[q] = "uvicorn" /\ Alive(q)}, p, "fusing")
    /\ UNCHANGED <<host, kind, pass, victim, pidFile, foreign, faults>>

(* fuser -k: SIGKILL to whoever has the port open - a server that drains has,
   while a client is still connected *)
Fuser(p) ==
    /\ pc[p] = "fusing"
    /\ \E S \in SUBSET {q \in Procs : host.fuser /\ pc[q] = "draining"} :
          pc' = [q \in Procs |-> IF q = p THEN "waiting"
                                 ELSE IF q \in S \/ (host.fuser /\ pc[q] = "serving")
                                      THEN "gone" ELSE pc[q]]
    /\ foreign' = (foreign /\ ~host.fuser)
    /\ UNCHANGED <<host, kind, pass, victim, asked, pidFile, faults>>

(* until the port is free, for ten seconds *)
AwaitPort(p) ==
    /\ pc[p] = "waiting"
    /\ Become(p, IF PortBusy THEN "gone"
                 ELSE IF kind[p] = "stop" THEN "stopped"
                 ELSE IF pass[p] = 1 THEN "preparing" ELSE "registering")
    /\ UNCHANGED <<host, kind, pass, victim, asked, pidFile, foreign, faults>>

-----------------------------------------------------------------------------
(* bootstrap, write_pid and the server                                     *)

(* the dependencies are there, or installed: os.execv, main() from the top *)
Exec(p) ==
    /\ pc[p] = "preparing"
    /\ Alone(p)
    /\ pass' = [pass EXCEPT ![p] = 2]
    /\ Become(p, "reading")
    /\ UNCHANGED <<host, kind, victim, asked, pidFile, foreign, faults>>

WritePid(p) ==
    /\ pc[p] = "registering"
    /\ pidFile' = p
    /\ Become(p, "importing")
    /\ UNCHANGED <<host, kind, pass, victim, asked, foreign, faults>>

(* startup(): the database is reset, the workers start, the models load *)
Load(p) ==
    /\ pc[p] = "importing"
    /\ Become(p, "loading")
    /\ UNCHANGED <<host, kind, pass, victim, asked, pidFile, foreign, faults>>

(* warmup.run(); its inference pass and the check of the LLM may fail *)
WarmedUp(p) ==
    /\ pc[p] = "loading"
    /\ Become(p, "binding")
    /\ UNCHANGED <<host, kind, pass, victim, asked, pidFile, foreign, faults>>

(* bind, or leave: the port is taken, or a signal came while loading *)
Bind(p) ==
    /\ pc[p] = "binding"
    /\ IF PortBusy THEN Leave(p, "exit")
       ELSE IF asked[p] # "no" THEN Leave(p, asked[p])
       ELSE Become(p, "serving") /\ UNCHANGED pidFile
    /\ UNCHANGED <<host, kind, pass, victim, asked, foreign, faults>>

(* uvicorn closes the port, then waits for the connections that are open *)
ClosePort(p) ==
    /\ pc[p] = "serving"
    /\ asked[p] # "no"
    /\ Become(p, "draining")
    /\ UNCHANGED <<host, kind, pass, victim, asked, pidFile, foreign, faults>>

Drained(p) ==
    /\ pc[p] = "draining"
    /\ Leave(p, asked[p])
    /\ UNCHANGED <<host, kind, pass, victim, asked, foreign, faults>>

-----------------------------------------------------------------------------
(* What may go wrong                                                       *)

(* an installation or an import fails, a model does not load *)
StageFails(p) ==
    /\ Fault
    /\ pc[p] \in {"preparing", "importing", "loading"}
    /\ Leave(p, "exit")
    /\ UNCHANGED <<host, kind, pass, victim, asked, foreign>>

(* Ctrl-C: a server finishes in its own time, a command ends where it is *)
Interrupt(p) ==
    /\ Fault
    /\ Alive(p)
    /\ IF pc[p] \in AtWork
       THEN asked' = [asked EXCEPT ![p] = "int"] /\ UNCHANGED <<pc, pidFile>>
       ELSE Leave(p, "int") /\ UNCHANGED asked
    /\ UNCHANGED <<host, kind, pass, victim, foreign>>

(* SIGKILL, the OOM killer, a reboot: the PID file stays *)
Kill(p) ==
    /\ Fault
    /\ Alive(p)
    /\ Become(p, "gone")
    /\ UNCHANGED <<host, kind, pass, victim, asked, pidFile, foreign>>

TakePort ==
    /\ Fault
    /\ ~PortBusy
    /\ foreign' = TRUE
    /\ UNCHANGED <<host, kind, pc, pass, victim, asked, pidFile>>

-----------------------------------------------------------------------------
Command(p) == Dev(p) \/ Stop(p) \/ Uvicorn(p)
StopPrevious(p) ==
    \/ FindPrevious(p) \/ KillPrevious(p) \/ Unlink(p) \/ Pkill(p) \/ Fuser(p) \/ AwaitPort(p)
Serve(p) == Load(p) \/ WarmedUp(p) \/ Bind(p) \/ ClosePort(p)
Step(p) == StopPrevious(p) \/ Exec(p) \/ WritePid(p) \/ Serve(p)

Next ==
    \/ \E p \in Procs :
          \/ Command(p) \/ Step(p) \/ Drained(p)
          \/ StageFails(p) \/ Interrupt(p) \/ Kill(p)
    \/ TakePort

Spec == Init /\ [][Next]_vars

(* A process that can go on does. Clients need not hang up, so a server that
   drains need not end; nobody has to type a command. *)
Fairness == \A p \in Procs : WF_vars(Step(p))
FairSpec == Spec /\ Fairness

-----------------------------------------------------------------------------
(* Every variable holds a value of its declared kind. *)
States == Stopping \cup AtWork \cup Over \cup {"preparing", "registering", "importing"}
TypeOK ==
    /\ host \in [fuser : BOOLEAN, returns : BOOLEAN]
    /\ kind \in [Procs -> {"dev", "stop", "uvicorn"}]
    /\ pc \in [Procs -> States]
    /\ pass \in [Procs -> {1, 2}]
    /\ victim \in [Procs -> Procs \cup {NoProc}]
    /\ asked \in [Procs -> {"no", "term", "int"}]
    /\ pidFile \in Procs \cup {NoProc}
    /\ foreign \in BOOLEAN
    /\ faults \in Nat

(* "Two servers never contend for the GPU": of the servers that were launched,
   at most one has the models and the database, through every replacement of
   one that loads, serves or does not want to end. *)
OneAtWork == Cardinality(Launched) =< 1

(* "Server stopped." is true: no launched server is left, in whatever stage
   the command found it. *)
StoppedMeansStopped ==
    [][\A p \in Procs : pc[p] # "stopped" /\ pc'[p] = "stopped" => Launched' = {}]_vars

(* Launching again always ends with a server: it comes up, or another serves,
   whatever stage its predecessors were in - unless something failed, somebody
   stops servers or starts them by hand, or uvicorn is older than 0.29, whose
   exit removes the PID file under stop_previous' hands. *)
Undisturbed == faults = 0 /\ ~host.returns /\ \A p \in Procs : kind[p] = "dev"
LaunchServes ==
    \A p \in Procs :
        (pc[p] = "reading" /\ kind[p] = "dev")
            ~> (Undisturbed => \E q \in Procs : pc[q] = "serving")

-----------------------------------------------------------------------------
(* What the documents say and the code does not do (README, section 6)     *)

(* "Stop the server and release its VRAM": a stop leaves no launched server,
   also when it finds none listening. *)
StopReleases ==
    [][\A p \in Procs : pc[p] = "none" /\ kind'[p] = "stop" /\ pc'[p] = "gone"
                            => Launched = {}]_vars

=============================================================================
