------------------------------- MODULE LoginGate -------------------------------
(***************************************************************************)
(* The login of the local server (server/auth.py) and the limiter of       *)
(* failed attempts (server/security.py RateLimiter). The login handler     *)
(* runs in threads of a pool, the middleware on the event loop, and all of *)
(* them share three dicts that no lock protects: one operation on a dict   *)
(* is atomic, a loop over a snapshot of one is not.                        *)
(***************************************************************************)
EXTENDS Naturals, FiniteSets

CONSTANTS
    Logins,       \* POST /api/login requests; each names the session it creates
    Clients,      \* client_key: addresses attempts are counted for
    MaxThreads,   \* threads of the pool that answer logins
    MaxSessions,  \* MAX_SESSIONS
    MaxAttempts,  \* LOGIN_MAX_ATTEMPTS
    Window,       \* LOGIN_WINDOW_SEC
    Lockout,      \* LOGIN_LOCKOUT_SEC
    Ttl,          \* SESSION_TTL
    MaxTime       \* bound: the clock

ASSUME SetsAssumption == IsFiniteSet(Logins) /\ IsFiniteSet(Clients)
ASSUME GateAssumption ==
    /\ {MaxThreads, MaxSessions, MaxAttempts} \subseteq Nat \ {0}
    /\ {Window, Lockout, Ttl, MaxTime} \subseteq Nat

VARIABLES
    now,       \* time.time()
    sessions,  \* _sessions: when the session of a login expires; 0: not in the dict
    hits,      \* _hits: a client's failed attempts, each as <<login, time>>
    locked,    \* _locked: until when it is locked out; 0: not in the dict
    doing,     \* what the thread of each login is doing
    client,    \* who logs in
    todo,      \* entries of a snapshot the thread has still to delete
    counted,   \* the attempts it has read, with its own
    failed     \* bookkeeping: every failed attempt of a client, as <<login, time>>

limiter == <<hits, locked>>
thread == <<doing, client, todo, counted>>
gateVars == <<now, sessions, limiter, thread, failed>>

-----------------------------------------------------------------------------
InTable == {t \in Logins : sessions[t] # 0}
Expired == {t \in InTable : sessions[t] < now}
Busy == {r \in Logins : doing[r] \notin {"none", "in", "refused", "blocked", "error"}}

Go(r, s) == doing' = [doing EXCEPT ![r] = s]

GateInit ==
    /\ now = 1
    /\ sessions = [t \in Logins |-> 0]
    /\ hits = [c \in Clients |-> {}]
    /\ locked = [c \in Clients |-> 0]
    /\ doing = [r \in Logins |-> "none"]
    /\ client \in [Logins -> Clients]
    /\ todo = [r \in Logins |-> {}]
    /\ counted = [r \in Logins |-> {}]
    /\ failed = [c \in Clients |-> {}]

-----------------------------------------------------------------------------
(* retry_after: the lockouts that are over are listed, then deleted one by
   one, then the client's own is looked up *)
Arrive(r) ==
    /\ doing[r] = "none"
    /\ Cardinality(Busy) < MaxThreads
    /\ Go(r, "arrived")
    /\ todo' = [todo EXCEPT ![r] = {c \in Clients : locked[c] # 0 /\ locked[c] < now}]
    /\ UNCHANGED <<now, sessions, limiter, client, counted, failed>>

Unlock(r) ==
    /\ doing[r] = "arrived"
    /\ \E c \in todo[r] :
          /\ locked[c] # 0
          /\ locked' = [locked EXCEPT ![c] = 0]
          /\ todo' = [todo EXCEPT ![r] = @ \ {c}]
    /\ UNCHANGED <<now, sessions, hits, doing, client, counted, failed>>

Gate(r) ==
    /\ doing[r] = "arrived" /\ todo[r] = {}
    /\ \/ locked[client[r]] > now /\ Go(r, "blocked")
       \/ locked[client[r]] =< now /\ \E s \in {"right", "wrong"} : Go(r, s)
    /\ UNCHANGED <<now, sessions, limiter, client, todo, counted, failed>>

(* record_failure: read the recent attempts, add one, write them back. A list of
   times in the code: nothing depends on their order, and a login adds one. *)
Recent_All(S) == S
Recent(S) == {f \in S : now < f[2] + Window}

Count(r) ==
    /\ doing[r] = "wrong"
    /\ counted' = [counted EXCEPT ![r] = Recent(hits[client[r]]) \cup {<<r, now>>}]
    /\ failed' = [failed EXCEPT ![client[r]] = @ \cup {<<r, now>>}]
    /\ Go(r, "counting")
    /\ UNCHANGED <<now, sessions, limiter, client, todo>>

TooMany(r) == Cardinality(counted[r]) >= MaxAttempts

Record(r) ==
    /\ doing[r] = "counting"
    /\ hits' = [hits EXCEPT ![client[r]] = counted[r]]
    /\ Go(r, IF TooMany(r) THEN "locking" ELSE "refused")
    /\ UNCHANGED <<now, sessions, locked, client, todo, counted, failed>>

(* too many: lock the client out, from the time of this attempt, and forget its
   attempts *)
Lock(r) ==
    /\ doing[r] = "locking"
    /\ \E f \in counted[r] :
          /\ f[1] = r
          /\ locked' = [locked EXCEPT ![client[r]] = f[2] + Lockout]
    /\ hits' = [hits EXCEPT ![client[r]] = {}]
    /\ Go(r, "refused")
    /\ UNCHANGED <<now, sessions, client, todo, counted, failed>>

-----------------------------------------------------------------------------
(* The password is right: the limiter forgets the client, and create_session
   deletes what has expired, makes room, and adds the session. *)
Reset(r) ==
    /\ doing[r] = "right"
    /\ hits' = [hits EXCEPT ![client[r]] = {}]
    /\ locked' = [locked EXCEPT ![client[r]] = 0]
    /\ todo' = [todo EXCEPT ![r] = Expired]
    /\ Go(r, "pruning")
    /\ UNCHANGED <<now, sessions, client, counted, failed>>

DropSession(r) ==
    /\ doing[r] \in {"pruning", "evicting"}
    /\ \E t \in todo[r] \cap InTable :
          /\ sessions' = [sessions EXCEPT ![t] = 0]
          /\ todo' = [todo EXCEPT ![r] = @ \ {t}]
    /\ UNCHANGED <<now, limiter, doing, client, counted, failed>>

(* the oldest len - MAX_SESSIONS + 1 *)
Oldest(n) ==
    {S \in SUBSET InTable : Cardinality(S) = n /\ \A t \in S, u \in InTable \ S : sessions[t] =< sessions[u]}

TableFull_After == Cardinality(InTable) > MaxSessions
TableFull == Cardinality(InTable) >= MaxSessions

MakeRoom(r) ==
    /\ doing[r] = "pruning" /\ todo[r] = {}
    /\ IF TableFull
       THEN \E S \in Oldest(Cardinality(InTable) + 1 - MaxSessions) : todo' = [todo EXCEPT ![r] = S]
       ELSE UNCHANGED todo
    /\ Go(r, "evicting")
    /\ UNCHANGED <<now, sessions, limiter, client, counted, failed>>

Create(r) ==
    /\ doing[r] = "evicting" /\ todo[r] = {}
    /\ sessions' = [sessions EXCEPT ![r] = now + Ttl]
    /\ Go(r, "in")
    /\ UNCHANGED <<now, limiter, client, todo, counted, failed>>

(* del d[key] of an entry another thread has deleted meanwhile: the request is
   answered with an internal error *)
KeyError(r) ==
    /\ \/ doing[r] = "arrived" /\ \E c \in todo[r] : locked[c] = 0
       \/ doing[r] \in {"pruning", "evicting"} /\ todo[r] \ InTable # {}
    /\ todo' = [todo EXCEPT ![r] = {}]
    /\ Go(r, "error")
    /\ UNCHANGED <<now, sessions, limiter, client, counted, failed>>

Login(r) ==
    \/ Arrive(r) \/ Unlock(r) \/ Gate(r) \/ Count(r) \/ Record(r) \/ Lock(r)
    \/ Reset(r) \/ DropSession(r) \/ MakeRoom(r) \/ Create(r) \/ KeyError(r)

(* POST /api/logout; valid_session of a session that has expired *)
Logout(t) ==
    /\ t \in InTable
    /\ sessions' = [sessions EXCEPT ![t] = 0]
    /\ UNCHANGED <<now, limiter, thread, failed>>

Visit(t) ==
    /\ t \in Expired
    /\ sessions' = [sessions EXCEPT ![t] = 0]
    /\ UNCHANGED <<now, limiter, thread, failed>>

Tick ==
    /\ now < MaxTime
    /\ now' = now + 1
    /\ UNCHANGED <<sessions, limiter, thread, failed>>

GateNext ==
    \/ \E r \in Logins : Login(r) \/ Logout(r) \/ Visit(r)
    \/ Tick

GateSpec == GateInit /\ [][GateNext]_gateVars

-----------------------------------------------------------------------------
(* Every variable holds a value of its declared kind. *)
GateTypeOK ==
    /\ now \in Nat
    /\ sessions \in [Logins -> Nat]
    /\ hits \in [Clients -> SUBSET (Logins \X Nat)]
    /\ locked \in [Clients -> Nat]
    /\ doing \in [Logins -> {"none", "arrived", "right", "wrong", "counting", "locking", "pruning",
                          "evicting", "in", "refused", "blocked", "error"}]
    /\ client \in [Logins -> Clients]
    /\ todo \in [Logins -> SUBSET (Clients \cup Logins)]
    /\ counted \in [Logins -> SUBSET (Logins \X Nat)]
    /\ failed \in [Clients -> SUBSET (Logins \X Nat)]

(* The session table is bounded although threads check its size and add to it
   without a lock: it exceeds MAX_SESSIONS by less than the threads there are. *)
SessionsBounded == Cardinality(InTable) < MaxSessions + MaxThreads

(* A lockout is earned: however attempts, resets and the deletion of lockouts
   that are over interleave, a client is locked out only for MAX_ATTEMPTS
   failures of its own within one window, and for LOCKOUT after the last. *)
InWindow(t, last) == t = last \/ (t < last /\ last < t + Window)

BlockedEarned ==
    \A c \in Clients : locked[c] # 0 =>
        \E own \in failed[c] :
            /\ locked[c] = own[2] + Lockout
            /\ Cardinality({f \in failed[c] : InWindow(f[2], own[2])}) >= MaxAttempts

=============================================================================
