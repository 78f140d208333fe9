----------------------------- MODULE Server_proofs -----------------------------
(* Proofs about what is around the jobs of the local server: its commands and *)
(* tunnels (modules Launcher and Tunnel) and its login (module LoginGate). As *)
(* long as no two commands look for a previous server at the same time, two   *)
(* launched servers are never at work together, and "Server stopped." is      *)
(* true; the PID file is what both rest on (Known). The table of sessions is  *)
(* bounded, and lockouts are earned. For any number of commands, processes,   *)
(* tunnels, logins and clients and any limits.                                *)
EXTENDS Tunnel, LoginGate, FiniteSetTheorems, TLAPS

(* The types the arguments need *)
Typed ==
    /\ kind \in [Procs -> {"dev", "stop", "uvicorn"}]
    /\ pc \in [Procs -> States]
    /\ victim \in [Procs -> Procs \cup {NoProc}]
    /\ pidFile \in Procs \cup {NoProc}

(* One command at a time is between looking for a server and telling of its own *)
Apart == \A p, q \in Procs : Section(p) /\ Section(q) => p = q

(* A process that has written the PID file is named there, ... *)
Known == \A q \in Procs : Registered(q) => pidFile = q

(* ... the command that is about to kill a process has the only one there is,
   and from then on there is none until it writes the file itself. *)
Cleared == {"unlinking", "sweeping", "fusing", "waiting", "registering"}
Handled ==
    \A p, q \in Procs : Registered(q) =>
        /\ pc[p] = "killing" => victim[p] = q
        /\ pc[p] \notin Cleared

LInv == Typed /\ Apart /\ Known /\ Handled

-----------------------------------------------------------------------------
LEMMA InitLInv == Init => LInv
  BY ProcsAssumption
  DEF Init, LInv, Typed, Apart, Known, Handled, Section, Registered, States, Stopping, AtWork,
      Over, Cleared

(* One step under each action. *)
LEMMA NextLInv ==
  ASSUME ~Overlap, LInv, [Next]_vars
  PROVE  LInv'
<1> USE ProcsAssumption DEF LInv, Typed, Apart, Known, Handled
<1> USE DEF Section, Registered, States, Stopping, AtWork, Over, Cleared, Alive, Become
<1>1. CASE UNCHANGED vars
  BY <1>1 DEF vars
<1>2. ASSUME NEW p \in Procs, Dev(p) PROVE LInv'
  BY <1>2 DEF Dev, Alone
<1>3. ASSUME NEW p \in Procs, Stop(p) PROVE LInv'
  BY <1>3 DEF Stop, Alone
<1>4. ASSUME NEW p \in Procs, Uvicorn(p) PROVE LInv'
  BY <1>4 DEF Uvicorn
<1>5. ASSUME NEW p \in Procs, FindPrevious(p) PROVE LInv'
  BY <1>5 DEF FindPrevious, Term
<1>6. ASSUME NEW p \in Procs, KillPrevious(p) PROVE LInv'
  <2> USE <1>6 DEF KillPrevious
  <2>1. /\ pc' \in [Procs -> States]
        /\ pc'[p] \in {"unlinking", "gone"}
        /\ victim[p] \in Procs => pc'[victim[p]] = "gone"
        /\ \A q \in Procs : q # p => pc'[q] \in {pc[q], "gone"}
    OBVIOUS
  <2>2. \A q \in Procs : Registered(q)' => Registered(q) /\ q # victim[p]
    BY <2>1
  <2>3. \A q \in Procs : ~Registered(q)'
    BY <2>2
  <2>4. Typed' /\ Apart'
    BY <2>1
  <2>5. Known' /\ Handled'
    BY <2>3
  <2>6. QED BY <2>4, <2>5
<1>7. ASSUME NEW p \in Procs, Unlink(p) PROVE LInv'
  BY <1>7 DEF Unlink
<1>8. ASSUME NEW p \in Procs, Pkill(p) PROVE LInv'
  BY <1>8 DEF Pkill, Term
<1>9. ASSUME NEW p \in Procs, Fuser(p) PROVE LInv'
  BY <1>9 DEF Fuser
<1>10. ASSUME NEW p \in Procs, AwaitPort(p) PROVE LInv'
  BY <1>10 DEF AwaitPort
<1>11. ASSUME NEW p \in Procs, Exec(p) PROVE LInv'
  BY <1>11 DEF Exec, Alone
<1>12. ASSUME NEW p \in Procs, WritePid(p) PROVE LInv'
  BY <1>12 DEF WritePid
<1>13. ASSUME NEW p \in Procs, Serve(p) PROVE LInv'
  BY <1>13 DEF Serve, Load, WarmedUp, Bind, ClosePort, Leave, FileAfter
<1>14. ASSUME NEW p \in Procs, Drained(p) PROVE LInv'
  BY <1>14 DEF Drained, Leave, FileAfter
<1>15. ASSUME NEW p \in Procs, StageFails(p) PROVE LInv'
  BY <1>15 DEF StageFails, Leave, FileAfter
<1>16. ASSUME NEW p \in Procs, Interrupt(p) PROVE LInv'
  BY <1>16 DEF Interrupt, Leave, FileAfter
<1>17. ASSUME NEW p \in Procs, Kill(p) PROVE LInv'
  BY <1>17 DEF Kill
<1>18. CASE TakePort
  BY <1>18 DEF TakePort
<1>19. QED
  BY <1>1, <1>2, <1>3, <1>4, <1>5, <1>6, <1>7, <1>8, <1>9, <1>10, <1>11, <1>12, <1>13, <1>14,
     <1>15, <1>16, <1>17, <1>18
  DEF Next, Command, Step, StopPrevious

LEMMA AlwaysLInv == ASSUME ~Overlap PROVE Spec => []LInv
<1>1. LInv /\ [Next]_vars => LInv'
  BY NextLInv
<1>2. QED BY InitLInv, <1>1, PTL DEF Spec

-----------------------------------------------------------------------------
(* "Two servers never contend for the GPU": for any number of launches, stops,
   servers started by hand, failures and signals, at most one launched server
   has the models and the database (main and stop_previous). *)
THEOREM OneServerAtWork == ASSUME ~Overlap PROVE Spec => []OneAtWork
<1>1. ASSUME LInv PROVE OneAtWork
  <2>1. Launched \subseteq {pidFile}
    BY <1>1 DEF LInv, Known, Registered, Launched, Servers
  <2>2. IsFiniteSet({pidFile}) /\ Cardinality({pidFile}) = 1
    BY FS_Singleton
  <2>3. Cardinality(Launched) =< Cardinality({pidFile})
    BY <2>1, <2>2, FS_Subset
  <2>4. QED BY <2>2, <2>3 DEF OneAtWork
<1>2. QED BY <1>1, AlwaysLInv, PTL

LEMMA OnlyAwaitPort ==
  ASSUME Typed, [Next]_vars, NEW p \in Procs, pc[p] # "stopped", pc'[p] = "stopped"
  PROVE  AwaitPort(p)
<1> USE DEF Typed, Become
<1>1. CASE UNCHANGED vars
  BY <1>1 DEF vars
<1>2. CASE TakePort
  BY <1>2 DEF TakePort
<1>3. ASSUME NEW q \in Procs, Command(q) PROVE AwaitPort(p)
  BY <1>3 DEF Command, Dev, Stop, Uvicorn
<1>4. ASSUME NEW q \in Procs, FindPrevious(q) \/ KillPrevious(q) PROVE AwaitPort(p)
  <2>1. CASE FindPrevious(q)
    BY <2>1 DEF FindPrevious, Term
  <2>2. CASE KillPrevious(q)
    <3>1. pc'[p] \in {pc[p], "unlinking", "gone"}
      BY <2>2 DEF KillPrevious
    <3>2. QED BY <3>1
  <2>3. QED BY <1>4, <2>1, <2>2
<1>5. ASSUME NEW q \in Procs, Unlink(q) \/ Pkill(q) \/ Fuser(q) PROVE AwaitPort(p)
  BY <1>5 DEF Unlink, Pkill, Fuser, Term
<1>6. ASSUME NEW q \in Procs, AwaitPort(q) PROVE AwaitPort(p)
  <2>1. q = p
    BY <1>6 DEF AwaitPort
  <2>2. QED BY <1>6, <2>1
<1>7. ASSUME NEW q \in Procs, Exec(q) \/ WritePid(q) \/ Serve(q) \/ Drained(q)
      PROVE  AwaitPort(p)
  BY <1>7 DEF Exec, WritePid, Serve, Load, WarmedUp, Bind, ClosePort, Drained, Leave
<1>8. ASSUME NEW q \in Procs, StageFails(q) \/ Interrupt(q) \/ Kill(q) PROVE AwaitPort(p)
  BY <1>8 DEF StageFails, Interrupt, Kill, Leave
<1>9. QED
  BY <1>1, <1>2, <1>3, <1>4, <1>5, <1>6, <1>7, <1>8 DEF Next, Step, StopPrevious

(* When stop_server.py prints "Server stopped.", no launched server is left,
   whatever it was doing when the command found it (stop_previous). *)
THEOREM StoppedIsStopped == ASSUME ~Overlap PROVE Spec => StoppedMeansStopped
<1>1. ASSUME LInv, [Next]_vars, NEW p \in Procs, pc[p] # "stopped", pc'[p] = "stopped"
      PROVE  Launched' = {}
  <2>1. Typed
    BY <1>1 DEF LInv
  <2>2. AwaitPort(p)
    BY <1>1, <2>1, OnlyAwaitPort
  <2>3. \A q \in Procs : q \notin Launched
    BY <1>1, <2>2
    DEF LInv, Handled, Cleared, AwaitPort, Registered, Launched, Servers
  <2>4. \A q \in Procs : q # p => pc'[q] = pc[q]
    BY <2>1, <2>2 DEF Typed, AwaitPort, Become
  <2>5. kind' = kind /\ pc'[p] \notin AtWork
    BY <1>1, <2>2 DEF AwaitPort, AtWork
  <2>6. QED BY <2>3, <2>4, <2>5 DEF Launched, Servers
<1>2. LInv /\ [Next]_vars
        => [\A p \in Procs : pc[p] # "stopped" /\ pc'[p] = "stopped" => Launched' = {}]_vars
  BY <1>1
<1>3. QED BY <1>2, AlwaysLInv, PTL DEF StoppedMeansStopped, Spec

-----------------------------------------------------------------------------
(* The tunnel scripts only look at the servers. *)
LEMMA ServersUndisturbed == TSpec => Spec
<1>1. TInit => Init
  BY DEF TInit
<1>2. [TNext]_allVars => [Next]_vars
  BY DEF TNext, allVars
<1>3. QED BY <1>1, <1>2, PTL DEF TSpec, Spec

(* A script has no child before Popen; one that is on its way out leaves a child
   that is up only for a signal to cut it short, which is then its second. *)
Children ==
    /\ tool \in [Scripts -> {"ngrok", "cloudflared"}]
    /\ at \in [Scripts -> {"none", "starting", "failing", "open", "closing", "ending",
                           "over", "lost", "cut"}]
    /\ child \in [Scripts -> {"none", "up", "told", "gone"}]
    /\ signals \in [Scripts -> Nat]
    /\ \A s \in Scripts :
          /\ at[s] = "none" => child[s] = "none"
          /\ at[s] = "ending" => child[s] # "up"
          /\ at[s] = "closing" /\ child[s] = "up" => signals[s] >= 1

LEMMA InitChildren == TInit => Children /\ TunnelClosed
  BY DEF TInit, Children, TunnelClosed

LEMMA NextChildren ==
  ASSUME Children, TunnelClosed, [TNext]_allVars
  PROVE  Children' /\ TunnelClosed'
<1> USE DEF Children, TunnelClosed
<1>1. CASE UNCHANGED tunnel
  BY <1>1 DEF tunnel
<1>2. ASSUME NEW s \in Scripts, Open(s) \/ Enter(s) \/ GiveUp(s) \/ ChildEnded(s)
      PROVE  Children' /\ TunnelClosed'
  BY <1>2 DEF Open, Enter, GiveUp, ChildEnded, Told
<1>3. ASSUME NEW s \in Scripts, Terminate(s) \/ Finish(s) \/ ChildEnds(s)
      PROVE  Children' /\ TunnelClosed'
  BY <1>3 DEF Terminate, Finish, ChildEnds, Told
<1>4. ASSUME NEW s \in Scripts, Signal(s)
      PROVE  Children' /\ TunnelClosed'
  BY <1>4 DEF Signal, AfterSignal, Told
<1>5. QED BY <1>1, <1>2, <1>3, <1>4 DEF TNext, ScriptStep, allVars

(* A tunnel script that runs to its end ends its tunnel, and it takes a second
   signal to cut it short in its try with the tunnel up, for any number of scripts
   and signals (main of tunnel.py and tunnel_cf.py). *)
THEOREM TunnelsAreClosed == TSpec => []TunnelClosed
<1>1. Children /\ TunnelClosed /\ [TNext]_allVars => (Children /\ TunnelClosed)'
  BY NextChildren
<1>2. QED BY InitChildren, <1>1, PTL DEF TSpec

-----------------------------------------------------------------------------
(***************************************************************************)
(* The login                                                               *)
(***************************************************************************)
Doings == {"none", "arrived", "right", "wrong", "counting", "locking", "pruning",
           "evicting", "in", "refused", "blocked", "error"}

GateTyped ==
    /\ now \in Nat \ {0}
    /\ sessions \in [Logins -> Nat]
    /\ doing \in [Logins -> Doings]
    /\ todo \in [Logins -> SUBSET (Clients \cup Logins)]

(* The threads that have made room and have only to add their session *)
Ready == {r \in Logins : doing[r] = "evicting" /\ todo[r] = {}}

(* They count as if they had done so. *)
Room == Cardinality(InTable) + Cardinality(Ready) < MaxSessions + MaxThreads

GateInv == GateTyped /\ Cardinality(Busy) =< MaxThreads /\ Room

-----------------------------------------------------------------------------
LEMMA Finite ==
  ASSUME NEW S, S \subseteq Logins
  PROVE  IsFiniteSet(S) /\ Cardinality(S) \in Nat
BY SetsAssumption, FS_Subset, FS_CardinalityType

LEMMA Smaller ==
  ASSUME NEW S, NEW T, S \subseteq T, T \subseteq Logins
  PROVE  Cardinality(S) =< Cardinality(T)
BY Finite, FS_Subset

LEMMA OneMore ==
  ASSUME NEW S, NEW T, NEW r, S \subseteq Logins, T \subseteq S \cup {r}
  PROVE  Cardinality(T) =< Cardinality(S) + 1
<1>1. IsFiniteSet(S) /\ Cardinality(S) \in Nat
  BY Finite
<1>2. IsFiniteSet(S \cup {r}) /\ Cardinality(S \cup {r}) =< Cardinality(S) + 1
  BY <1>1, FS_AddElement
<1>3. QED BY <1>1, <1>2, FS_Subset, FS_CardinalityType

LEMMA OneLess ==
  ASSUME NEW S, NEW T, NEW r \in S, S \subseteq Logins, T \subseteq S \ {r}
  PROVE  Cardinality(T) + 1 =< Cardinality(S)
<1>1. IsFiniteSet(S) /\ Cardinality(S) \in Nat
  BY Finite
<1>2. IsFiniteSet(S \ {r}) /\ Cardinality(S \ {r}) = Cardinality(S) - 1
  BY <1>1, FS_RemoveElement
<1>3. Cardinality(T) =< Cardinality(S \ {r}) /\ Cardinality(T) \in Nat
  BY <1>2, FS_Subset, Finite
<1>4. QED BY <1>1, <1>2, <1>3

-----------------------------------------------------------------------------
LEMMA InitGate == GateInit => GateInv
<1> SUFFICES ASSUME GateInit PROVE GateInv
  OBVIOUS
<1>1. GateTyped
  BY DEF GateInit, GateTyped, Doings
<1>2. InTable = {} /\ Busy = {} /\ Ready = {}
  BY DEF GateInit, InTable, Busy, Ready
<1>3. Cardinality({}) = 0
  BY FS_EmptySet
<1>4. QED BY <1>1, <1>2, <1>3, GateAssumption DEF GateInv, Room

(* A step that adds no session, no thread and none that is ready *)
Quiet == InTable' \subseteq InTable /\ Busy' \subseteq Busy /\ Ready' \subseteq Ready

LEMMA NextTyped == ASSUME GateTyped, [GateNext]_gateVars PROVE GateTyped'
<1> USE GateAssumption DEF GateTyped, Doings, Go
<1>1. CASE UNCHANGED gateVars
  BY <1>1 DEF gateVars, thread
<1>2. ASSUME NEW r \in Logins, Arrive(r) \/ Unlock(r) \/ Gate(r) PROVE GateTyped'
  BY <1>2 DEF Arrive, Unlock, Gate
<1>3. ASSUME NEW r \in Logins, Count(r) \/ Record(r) \/ Lock(r) PROVE GateTyped'
  BY <1>3 DEF Count, Record, Lock
<1>4. ASSUME NEW r \in Logins, Reset(r) \/ DropSession(r) \/ KeyError(r) PROVE GateTyped'
  <2>1. CASE Reset(r)
    BY <2>1 DEF Reset, Expired, InTable
  <2>2. CASE DropSession(r)
    BY <2>2 DEF DropSession, InTable
  <2>3. CASE KeyError(r)
    BY <2>3 DEF KeyError
  <2>4. QED BY <1>4, <2>1, <2>2, <2>3
<1>5. ASSUME NEW r \in Logins, MakeRoom(r) PROVE GateTyped'
  BY <1>5 DEF MakeRoom, Oldest, InTable
<1>6. ASSUME NEW r \in Logins, Create(r) PROVE GateTyped'
  BY <1>6 DEF Create
<1>7. ASSUME NEW r \in Logins, Logout(r) \/ Visit(r) PROVE GateTyped'
  BY <1>7 DEF Logout, Visit, thread
<1>8. CASE Tick
  BY <1>8 DEF Tick, thread
<1>9. QED BY <1>1, <1>2, <1>3, <1>4, <1>5, <1>6, <1>7, <1>8 DEF GateNext, Login

LEMMA QuietSteps ==
  ASSUME GateTyped,
         \/ UNCHANGED gateVars \/ Tick
         \/ \E r \in Logins : \/ Unlock(r) \/ Gate(r) \/ Count(r) \/ Record(r) \/ Lock(r)
                             \/ Reset(r) \/ KeyError(r) \/ Logout(r) \/ Visit(r)
  PROVE  Quiet
<1> USE DEF GateTyped, Doings, Go, Quiet, InTable, Busy, Ready
<1>1. CASE UNCHANGED gateVars \/ Tick
  BY <1>1 DEF gateVars, thread, Tick
<1>2. ASSUME NEW r \in Logins, Unlock(r) \/ Gate(r) PROVE Quiet
  BY <1>2 DEF Unlock, Gate
<1>3. ASSUME NEW r \in Logins, Count(r) \/ Record(r) \/ Lock(r) PROVE Quiet
  BY <1>3 DEF Count, Record, Lock
<1>4. ASSUME NEW r \in Logins, Reset(r) \/ KeyError(r) PROVE Quiet
  BY <1>4 DEF Reset, KeyError
<1>5. ASSUME NEW r \in Logins, Logout(r) \/ Visit(r) PROVE Quiet
  BY <1>5 DEF Logout, Visit, thread, Expired
<1>6. QED BY <1>1, <1>2, <1>3, <1>4, <1>5

LEMMA NextGate == ASSUME GateInv, [GateNext]_gateVars PROVE GateInv'
<1> DEFINE open == Cardinality(InTable)
           busy == Cardinality(Busy)
           ready == Cardinality(Ready)
<1>1. GateTyped /\ GateTyped'
  BY NextTyped DEF GateInv
<1>2. /\ {open, busy, ready, open', busy', ready'} \subseteq Nat
      /\ busy =< MaxThreads /\ open + ready < MaxSessions + MaxThreads
  <2>1. InTable \subseteq Logins /\ Busy \subseteq Logins /\ Ready \subseteq Logins
    BY DEF InTable, Busy, Ready
  <2>2. InTable' \subseteq Logins /\ Busy' \subseteq Logins /\ Ready' \subseteq Logins
    BY DEF InTable, Busy, Ready
  <2>3. QED BY <2>1, <2>2, Finite DEF GateInv, Room
<1>3. ready' =< busy'
  <2>1. Ready' \subseteq Busy' /\ Busy' \subseteq Logins
    BY DEF Ready, Busy
  <2>2. QED BY <2>1, Smaller
<1>4. SUFFICES busy' =< MaxThreads /\ open' + ready' < MaxSessions + MaxThreads
  BY <1>1 DEF GateInv, Room
<1>5. CASE Quiet
  <2>1. open' =< open /\ busy' =< busy /\ ready' =< ready
    BY <1>5, Smaller DEF Quiet, InTable, Busy, Ready
  <2>2. QED BY <1>2, <2>1, GateAssumption
<1>6. ASSUME NEW r \in Logins, Arrive(r)
      PROVE  busy' =< MaxThreads /\ open' + ready' < MaxSessions + MaxThreads
  <2>1. InTable' = InTable /\ Ready' \subseteq Ready /\ Busy' \subseteq Busy \cup {r}
    BY <1>1, <1>6 DEF Arrive, Go, GateTyped, Doings, InTable, Ready, Busy
  <2>2. busy < MaxThreads
    BY <1>6 DEF Arrive
  <2>3. open' = open /\ ready' =< ready /\ busy' =< busy + 1
    BY <2>1, Smaller, OneMore DEF InTable, Ready, Busy
  <2>4. QED BY <1>2, <2>2, <2>3, GateAssumption
<1>7. ASSUME NEW r \in Logins, DropSession(r)
      PROVE  busy' =< MaxThreads /\ open' + ready' < MaxSessions + MaxThreads
  <2>1. PICK t \in todo[r] \cap InTable : /\ sessions' = [sessions EXCEPT ![t] = 0]
                                       /\ todo' = [todo EXCEPT ![r] = @ \ {t}]
    BY <1>7 DEF DropSession
  <2>2. InTable' \subseteq InTable \ {t}
    BY <1>1, <2>1 DEF GateTyped, InTable
  <2>3. Ready' \subseteq Ready \cup {r} /\ Busy' = Busy
    BY <1>1, <1>7, <2>1 DEF DropSession, GateTyped, Ready, Busy
  <2>4. open' + 1 =< open /\ ready' =< ready + 1 /\ busy' = busy
    BY <2>1, <2>2, <2>3, OneLess, OneMore DEF InTable, Ready, Busy
  <2>5. QED BY <1>2, <2>4, GateAssumption
<1>8. ASSUME NEW r \in Logins, MakeRoom(r)
      PROVE  busy' =< MaxThreads /\ open' + ready' < MaxSessions + MaxThreads
  <2>1. InTable' = InTable /\ Busy' \subseteq Busy
    BY <1>1, <1>8 DEF MakeRoom, Go, GateTyped, Doings, InTable, Busy
  <2>2. open' = open /\ busy' =< busy
    BY <2>1, Smaller DEF Busy
  <2>3. CASE TableFull
    <3>1. PICK S \in Oldest(open + 1 - MaxSessions) : todo' = [todo EXCEPT ![r] = S]
      BY <1>8, <2>3 DEF MakeRoom
    <3>2. Cardinality(S) # 0
      BY <1>2, <2>3, <3>1, GateAssumption DEF Oldest, TableFull
    <3>3. S # {}
      BY <3>2, FS_EmptySet
    <3>4. Ready' \subseteq Ready
      BY <1>1, <1>8, <3>1, <3>3 DEF MakeRoom, Go, GateTyped, Doings, Ready
    <3>5. ready' =< ready
      BY <3>4, Smaller DEF Ready
    <3>6. QED BY <1>2, <2>2, <3>5, GateAssumption
  <2>4. CASE ~TableFull
    <3>1. open < MaxSessions
      BY <1>2, <2>4, GateAssumption DEF TableFull
    <3>2. QED BY <1>2, <1>3, <2>2, <3>1, GateAssumption
  <2>5. QED BY <2>3, <2>4
<1>9. ASSUME NEW r \in Logins, Create(r)
      PROVE  busy' =< MaxThreads /\ open' + ready' < MaxSessions + MaxThreads
  <2>1. r \in Ready /\ InTable' \subseteq InTable \cup {r}
    BY <1>1, <1>9 DEF Create, GateTyped, Ready, InTable
  <2>2. Ready' \subseteq Ready \ {r} /\ Busy' \subseteq Busy
    BY <1>1, <1>9 DEF Create, Go, GateTyped, Doings, Ready, Busy
  <2>3. open' =< open + 1 /\ ready' + 1 =< ready /\ busy' =< busy
    BY <2>1, <2>2, OneMore, OneLess, Smaller DEF InTable, Ready, Busy
  <2>4. QED BY <1>2, <2>3, GateAssumption
<1>10. QED
  BY <1>1, <1>5, <1>6, <1>7, <1>8, <1>9, QuietSteps DEF GateNext, Login

(* The session table stays bounded: threads that test its size and add to it
   without a lock overshoot MAX_SESSIONS by less than their number, for any
   number of logins (create_session and login of auth.py). *)
THEOREM SessionsAreBounded == GateSpec => []SessionsBounded
<1>1. GateInv /\ [GateNext]_gateVars => GateInv'
  BY NextGate
<1>2. ASSUME GateInv PROVE SessionsBounded
  <2>1. InTable \subseteq Logins /\ Ready \subseteq Logins
    BY DEF InTable, Ready
  <2>2. Cardinality(InTable) \in Nat /\ Cardinality(Ready) \in Nat
    BY <2>1, Finite
  <2>3. QED BY <1>2, <2>2, GateAssumption DEF GateInv, Room, SessionsBounded
<1>3. QED BY InitGate, <1>1, <1>2, PTL DEF GateSpec

-----------------------------------------------------------------------------
(***************************************************************************)
(* Lockouts. What a thread has read and not yet written back is old news    *)
(* when it is written: the attempts of other threads may be missing from it *)
(* and those a reset has forgotten come back. It remains true that every    *)
(* attempt it counts was made, by a login of its own, and is as recent as   *)
(* the thread's own one.                                                    *)
(***************************************************************************)
Attempts == Logins \X Nat
Counted == {"counting", "locking", "refused"}

Recorded ==
    /\ hits \in [Clients -> SUBSET Attempts]
    /\ locked \in [Clients -> Nat]
    /\ client \in [Logins -> Clients]
    /\ counted \in [Logins -> SUBSET Attempts]
    /\ failed \in [Clients -> SUBSET Attempts]

HitsMade == \A c \in Clients : hits[c] \subseteq failed[c]

(* A login that has not been counted has no failed attempt: its own is new. *)
FailedOnce ==
    \A c \in Clients : IsFiniteSet(failed[c])
        /\ \A f \in failed[c] : doing[f[1]] \in Counted /\ f[2] =< now

(* S is what a thread counts of a client whose failures are F. *)
CountOf(r, S, F) ==
    /\ S \subseteq F
    /\ \E own \in S : /\ own[1] = r
                      /\ \A f \in S : InWindow(f[2], own[2]) /\ (f[1] = r => f = own)

CountsMade ==
    \A r \in Logins : doing[r] \in {"counting", "locking"} => CountOf(r, counted[r], failed[client[r]])

LockingEarned == \A r \in Logins : doing[r] = "locking" => TooMany(r)

(* The lockout until t is earned by the failures F. *)
Earned(t, F) ==
    t # 0 => \E own \in F : /\ t = own[2] + Lockout
                            /\ Cardinality({f \in F : InWindow(f[2], own[2])}) >= MaxAttempts

LockedEarned == \A c \in Clients : Earned(locked[c], failed[c])

EarnInv ==
    /\ GateTyped /\ Recorded
    /\ HitsMade /\ FailedOnce /\ CountsMade /\ LockingEarned /\ LockedEarned

LEMMA InitEarn == GateInit => EarnInv
<1> SUFFICES ASSUME GateInit PROVE EarnInv
  OBVIOUS
<1>1. GateTyped /\ Recorded /\ HitsMade /\ CountsMade /\ LockingEarned
  BY DEF GateInit, GateTyped, Doings, Recorded, HitsMade, CountsMade, LockingEarned
<1>2. FailedOnce /\ LockedEarned
  BY FS_EmptySet DEF GateInit, FailedOnce, LockedEarned, Earned
<1>3. QED BY <1>1, <1>2 DEF EarnInv

(* A step that counts no attempt, writes none back and locks nobody out *)
Aside ==
    /\ UNCHANGED <<client, counted, failed>>
    /\ now =< now'
    /\ \A c \in Clients : hits'[c] \subseteq hits[c] /\ locked'[c] \in {0, locked[c]}
    /\ \A r \in Logins : IF doing[r] \in Counted THEN doing'[r] = doing[r] ELSE doing'[r] \notin {"counting", "locking"}

LEMMA AsideSteps ==
  ASSUME GateTyped, Recorded,
         \/ UNCHANGED gateVars \/ Tick
         \/ \E r \in Logins :
               \/ Arrive(r) \/ Unlock(r) \/ Gate(r) \/ Reset(r) \/ DropSession(r)
               \/ MakeRoom(r) \/ Create(r) \/ KeyError(r) \/ Logout(r) \/ Visit(r)
  PROVE  Aside /\ hits' \in [Clients -> SUBSET Attempts] /\ locked' \in [Clients -> Nat]
<1> DEFINE Goal == Aside /\ hits' \in [Clients -> SUBSET Attempts] /\ locked' \in [Clients -> Nat]
<1> USE DEF GateTyped, Doings, Recorded, Counted, Aside, Go, limiter, thread
<1>1. CASE UNCHANGED gateVars \/ Tick
  BY <1>1 DEF gateVars, Tick
<1>2. ASSUME NEW r \in Logins, Arrive(r) \/ Unlock(r) PROVE Goal
  BY <1>2 DEF Arrive, Unlock
<1>3. ASSUME NEW r \in Logins, Gate(r) PROVE Goal
  BY <1>3 DEF Gate
<1>4. ASSUME NEW r \in Logins, Reset(r) PROVE Goal
  BY <1>4 DEF Reset
<1>5. ASSUME NEW r \in Logins, DropSession(r) \/ MakeRoom(r) PROVE Goal
  BY <1>5 DEF DropSession, MakeRoom
<1>6. ASSUME NEW r \in Logins, Create(r) \/ KeyError(r) PROVE Goal
  BY <1>6 DEF Create, KeyError
<1>7. ASSUME NEW r \in Logins, Logout(r) \/ Visit(r) PROVE Goal
  BY <1>7 DEF Logout, Visit
<1>8. QED BY <1>1, <1>2, <1>3, <1>4, <1>5, <1>6, <1>7

LEMMA AsideEarn ==
  ASSUME EarnInv, GateTyped', Aside, hits' \in [Clients -> SUBSET Attempts], locked' \in [Clients -> Nat]
  PROVE  EarnInv'
<1> USE DEF EarnInv, GateTyped, Recorded, Aside
<1>1. HitsMade'
  BY DEF HitsMade
<1>2. FailedOnce'
  <2>1. ASSUME NEW c \in Clients, NEW f \in failed[c] PROVE doing'[f[1]] \in Counted /\ f[2] =< now'
    BY <2>1 DEF FailedOnce, Attempts
  <2>2. QED BY <2>1 DEF FailedOnce
<1>3. CountsMade' /\ LockingEarned'
  BY DEF CountsMade, LockingEarned, TooMany, Counted
<1>4. LockedEarned'
  <2>1. ASSUME NEW c \in Clients PROVE Earned(locked'[c], failed[c])
    <3>1. Earned(locked[c], failed[c]) /\ locked'[c] \in {0, locked[c]}
      BY DEF LockedEarned
    <3>2. QED BY <3>1 DEF Earned
  <2>2. QED BY <2>1 DEF LockedEarned
<1>5. QED BY <1>1, <1>2, <1>3, <1>4

LEMMA CountEarn ==
  ASSUME EarnInv, GateTyped', NEW r \in Logins, Count(r)
  PROVE  EarnInv'
<1> DEFINE own == <<r, now>>
           c == client[r]
<1>1. /\ doing[r] = "wrong" /\ doing' = [doing EXCEPT ![r] = "counting"]
      /\ UNCHANGED <<now, hits, locked, client>>
      /\ counted' = [counted EXCEPT ![r] = Recent(hits[c]) \cup {own}]
      /\ failed' = [failed EXCEPT ![c] = @ \cup {own}]
  BY DEF Count, Go, limiter
<1>2. c \in Clients /\ own \in Attempts /\ Recent(hits[c]) \subseteq hits[c] /\ hits[c] \subseteq failed[c]
  BY DEF EarnInv, GateTyped, Recorded, Attempts, Recent, HitsMade
<1>3. Recorded'
  BY <1>1, <1>2 DEF EarnInv, Recorded
<1>4. \A d \in Clients : failed[d] \subseteq failed'[d] /\ failed'[d] \subseteq failed[d] \cup {own}
  BY <1>1, <1>2 DEF EarnInv, Recorded
<1>5. HitsMade'
  BY <1>1, <1>4 DEF EarnInv, HitsMade
<1>6. FailedOnce'
  <2>1. ASSUME NEW d \in Clients PROVE IsFiniteSet(failed'[d])
    BY <1>4, <2>1, FS_AddElement, FS_Subset DEF EarnInv, FailedOnce
  <2>2. ASSUME NEW d \in Clients, NEW f \in failed'[d] PROVE doing'[f[1]] \in Counted /\ f[2] =< now'
    <3>1. CASE f = own
      BY <1>1, <3>1 DEF EarnInv, GateTyped, Counted
    <3>2. CASE f \in failed[d]
      BY <1>1, <2>2, <3>2 DEF EarnInv, GateTyped, Recorded, Attempts, FailedOnce, Counted
    <3>3. QED BY <1>4, <2>2, <3>1, <3>2
  <2>3. QED BY <2>1, <2>2 DEF FailedOnce
<1>7. CountsMade'
  <2>1. CountOf(r, Recent(hits[c]) \cup {own}, failed[c] \cup {own})
    <3>1. ASSUME NEW f \in Recent(hits[c]) PROVE InWindow(f[2], now) /\ f[1] # r
      <4>1. f \in failed[c] /\ f \in Attempts /\ now < f[2] + Window
        BY <1>2, <3>1 DEF Recent, EarnInv, Recorded
      <4>2. f[2] =< now /\ f[1] # r
        BY <1>1, <1>2, <4>1 DEF EarnInv, FailedOnce, Counted
      <4>3. QED BY <4>1, <4>2 DEF InWindow, Attempts, EarnInv, GateTyped
    <3>2. own[1] = r /\ own[2] = now /\ InWindow(now, now)
      BY DEF InWindow
    <3>3. QED BY <1>2, <3>1, <3>2 DEF CountOf
  <2>2. CountOf(r, counted'[r], failed'[client'[r]])
    BY <1>1, <1>2, <2>1 DEF EarnInv, Recorded
  <2>3. ASSUME NEW s \in Logins, s # r, doing'[s] \in {"counting", "locking"}
        PROVE  CountOf(s, counted'[s], failed'[client'[s]])
    <3>1. CountOf(s, counted[s], failed[client[s]])
      BY <1>1, <2>3 DEF EarnInv, GateTyped, CountsMade
    <3>2. counted'[s] = counted[s] /\ client'[s] = client[s] /\ failed[client[s]] \subseteq failed'[client[s]]
      BY <1>1, <1>4, <2>3 DEF EarnInv, Recorded
    <3>3. QED BY <3>1, <3>2 DEF CountOf
  <2>4. QED BY <2>2, <2>3 DEF CountsMade
<1>8. LockingEarned'
  BY <1>1 DEF EarnInv, GateTyped, Recorded, LockingEarned, TooMany
<1>9. LockedEarned'
  <2>1. ASSUME NEW d \in Clients, locked[d] # 0 PROVE Earned(locked[d], failed'[d])
    <3>1. PICK g \in failed[d] : /\ locked[d] = g[2] + Lockout
                                 /\ Cardinality({f \in failed[d] : InWindow(f[2], g[2])}) >= MaxAttempts
      BY <2>1 DEF EarnInv, LockedEarned, Earned
    <3> DEFINE W(F) == {f \in F : InWindow(f[2], g[2])}
    <3>2. IsFiniteSet(failed'[d]) /\ W(failed[d]) \subseteq W(failed'[d]) /\ W(failed'[d]) \subseteq failed'[d]
      BY <1>4, <1>6 DEF FailedOnce
    <3>3. /\ Cardinality(W(failed[d])) \in Nat /\ Cardinality(W(failed'[d])) \in Nat
          /\ Cardinality(W(failed[d])) =< Cardinality(W(failed'[d]))
      BY <3>2, FS_Subset, FS_CardinalityType
    <3>4. Cardinality(W(failed'[d])) >= MaxAttempts
      BY <3>1, <3>3, GateAssumption
    <3>5. QED BY <1>4, <3>1, <3>4 DEF Earned
  <2>2. QED BY <1>1, <2>1 DEF LockedEarned, Earned
<1>10. QED BY <1>3, <1>5, <1>6, <1>7, <1>8, <1>9 DEF EarnInv

LEMMA RecordEarn ==
  ASSUME EarnInv, GateTyped', NEW r \in Logins, Record(r)
  PROVE  EarnInv'
<1>1. /\ doing[r] = "counting" /\ doing' = [doing EXCEPT ![r] = IF TooMany(r) THEN "locking" ELSE "refused"]
      /\ hits' = [hits EXCEPT ![client[r]] = counted[r]]
      /\ UNCHANGED <<now, locked, client, counted, failed>>
  BY DEF Record, Go
<1>2. CountOf(r, counted[r], failed[client[r]])
  BY <1>1 DEF EarnInv, CountsMade
<1>3. Recorded'
  BY <1>1 DEF EarnInv, Recorded
<1>4. HitsMade'
  BY <1>1, <1>2 DEF EarnInv, Recorded, HitsMade, CountOf
<1>5. FailedOnce'
  BY <1>1 DEF EarnInv, GateTyped, Recorded, Attempts, FailedOnce, Counted
<1>6. CountsMade' /\ LockingEarned' /\ LockedEarned'
  BY <1>1, <1>2 DEF EarnInv, GateTyped, CountsMade, LockingEarned, TooMany, LockedEarned
<1>7. QED BY <1>3, <1>4, <1>5, <1>6 DEF EarnInv

LEMMA LockEarn ==
  ASSUME EarnInv, GateTyped', NEW r \in Logins, Lock(r)
  PROVE  EarnInv'
<1> DEFINE c == client[r]
<1>1. PICK own \in counted[r] :
        /\ own[1] = r
        /\ locked' = [locked EXCEPT ![c] = own[2] + Lockout]
  BY DEF Lock
<1>2. /\ doing[r] = "locking" /\ doing' = [doing EXCEPT ![r] = "refused"]
      /\ hits' = [hits EXCEPT ![c] = {}]
      /\ UNCHANGED <<now, client, counted, failed>>
  BY DEF Lock, Go
<1>3. CountOf(r, counted[r], failed[c]) /\ TooMany(r)
  BY <1>2 DEF EarnInv, CountsMade, LockingEarned
<1>4. c \in Clients /\ own \in Attempts
  BY DEF EarnInv, Recorded
<1>5. Recorded'
  BY <1>1, <1>2, <1>4, GateAssumption DEF EarnInv, Recorded, Attempts
<1>6. HitsMade' /\ CountsMade' /\ LockingEarned'
  BY <1>2 DEF EarnInv, GateTyped, Recorded, HitsMade, CountsMade, LockingEarned, TooMany
<1>7. FailedOnce'
  BY <1>2 DEF EarnInv, GateTyped, Recorded, Attempts, FailedOnce, Counted
<1>8. Earned(own[2] + Lockout, failed[c])
  <2> DEFINE W == {f \in failed[c] : InWindow(f[2], own[2])}
  <2>1. counted[r] \subseteq W
    BY <1>1, <1>3 DEF CountOf
  <2>2. IsFiniteSet(W)
    BY <1>4, FS_Subset DEF EarnInv, FailedOnce
  <2>3. Cardinality(counted[r]) =< Cardinality(W)
    BY <2>1, <2>2, FS_Subset
  <2>4. Cardinality(W) \in Nat /\ Cardinality(counted[r]) \in Nat
    BY <2>1, <2>2, FS_Subset, FS_CardinalityType
  <2>5. Cardinality(W) >= MaxAttempts
    BY <1>3, <2>3, <2>4, GateAssumption DEF TooMany
  <2>6. QED BY <1>1, <1>3, <2>5 DEF Earned, CountOf
<1>9. LockedEarned'
  BY <1>1, <1>2, <1>8 DEF EarnInv, Recorded, LockedEarned
<1>10. QED BY <1>5, <1>6, <1>7, <1>9 DEF EarnInv

(* A lockout is earned, however the operations of concurrent logins on the two
   dicts of the limiter interleave and whatever the limits are (record_failure,
   retry_after and reset of security.py RateLimiter). *)
THEOREM LockoutsAreEarned == GateSpec => []BlockedEarned
<1>1. EarnInv /\ [GateNext]_gateVars => EarnInv'
  <2> SUFFICES ASSUME EarnInv, [GateNext]_gateVars PROVE EarnInv'
    OBVIOUS
  <2>1. GateTyped /\ GateTyped' /\ Recorded
    BY NextTyped DEF EarnInv
  <2>2. ASSUME NEW r \in Logins, Count(r) \/ Record(r) \/ Lock(r) PROVE EarnInv'
    BY <2>1, <2>2, CountEarn, RecordEarn, LockEarn
  <2>3. CASE ~\E r \in Logins : Count(r) \/ Record(r) \/ Lock(r)
    BY <2>1, <2>3, AsideSteps, AsideEarn DEF GateNext, Login
  <2>4. QED BY <2>2, <2>3
<1>2. EarnInv => BlockedEarned
  BY DEF EarnInv, LockedEarned, Earned, BlockedEarned
<1>3. QED BY InitEarn, <1>1, <1>2, PTL DEF GateSpec

=============================================================================
