----------------------------- MODULE BotQuota -----------------------------
(***************************************************************************)
(* The daily quota of one bot (web_app/backend/src/bots/bots.service.ts)   *)
(* as uploads, the worker's reports and the admin use it. Time is counted  *)
(* in ticks, DayLength to a day; the bot's clock is Offset ticks ahead of  *)
(* UTC, and a day is named by its date on the clock it is read from.       *)
(* CallsService.upload creates the row and stores the recording between    *)
(* checkQuota and consume (module PortalCalls); here that is only time.    *)
(***************************************************************************)
EXTENDS Integers, FiniteSets, FiniteSetsExt

CONSTANTS
    Uploads,       \* uploads to this bot
    Lengths,       \* possible lengths of a recording, in minutes
    Settings,      \* what the admin may set: see SettingsAssumption
    DayLength,     \* ticks of a day
    Offset,        \* of the bot's timezone
    MaxTime,       \* bound: the last tick
    MaxUpdates,    \* bound: PATCH bots/:id
    MaxConcurrent  \* bound: uploads between arrival and consume

ASSUME QuotaAssumption ==
    /\ IsFiniteSet(Uploads)
    /\ Lengths \subseteq Nat
    /\ DayLength \in Nat \ {0}
    /\ Offset \in -DayLength..DayLength
    /\ MaxTime \in Nat /\ MaxTime >= 2 * DayLength
    /\ MaxUpdates \in Nat
    /\ MaxConcurrent \in Nat \ {0}
(* A limit is a set of at most one number, {} for null; so is the window. *)
ASSUME SettingsAssumption ==
    \A s \in Settings :
        /\ DOMAIN s = {"enabled", "callLimit", "minuteLimit", "window"}
        /\ s.enabled \in BOOLEAN
        /\ s.callLimit \in SUBSET Nat /\ s.minuteLimit \in SUBSET Nat
        /\ s.window \in SUBSET ((0..DayLength - 1) \X (0..DayLength - 1))

VARIABLES
    now,      \* the time
    bot,      \* the Bot row
    usage,    \* the BotUsage rows, by day
    length,   \* minutes of each recording
    pc,       \* each upload
    seen,     \* what its checkQuota has read
    at,       \* when it was counted
    updates   \* PATCH requests so far

vars == <<now, bot, usage, length, pc, seen, at, updates>>

-----------------------------------------------------------------------------
(* The date on a clock that is o ticks ahead of UTC. *)
Date(t, o) == (t + o) \div DayLength
Days == {Date(t, o) : t \in 0..MaxTime, o \in {0, Offset}}
NoUsage == [exists |-> FALSE, calls |-> 0, minutes |-> 0]
DayFor_Utc(t) == Date(t, 0)
DayFor(t) == Date(t, Offset)
UtcDay(t) == Date(t, 0)
MinutesSinceMidnight(t) == (t + Offset) % DayLength

(* A window may wrap past midnight. *)
WithinWindow_NoWrap(w, n) == \A x \in w : n >= x[1] /\ n < x[2]
WithinWindow(w, n) ==
    \A x \in w : IF x[1] =< x[2] THEN n >= x[1] /\ n < x[2] ELSE n >= x[1] \/ n < x[2]

Init ==
    /\ now \in DayLength..(2 * DayLength - 1)
    /\ bot \in Settings
    /\ usage = [d \in Days |-> NoUsage]
    /\ length \in [Uploads -> Lengths]
    /\ pc = [u \in Uploads |-> "idle"]
    /\ seen = [u \in Uploads |-> [bot |-> bot, time |-> now, calls |-> 0]]
    /\ at = [u \in Uploads |-> 0]
    /\ updates = 0

Goto(u, from, to) == pc[u] = from /\ pc' = [pc EXCEPT ![u] = to]

-----------------------------------------------------------------------------
(* checkQuota reads the bot, ... *)
CheckBot(u) ==
    /\ Cardinality({v \in Uploads : pc[v] \in {"checking", "allowed"}}) < MaxConcurrent
    /\ IF bot.enabled /\ WithinWindow(bot.window, MinutesSinceMidnight(now))
       THEN /\ Goto(u, "idle", "checking")
            /\ seen' = [seen EXCEPT ![u] = [bot |-> bot, time |-> now, calls |-> 0]]
       ELSE Goto(u, "idle", "refused") /\ UNCHANGED seen
    /\ UNCHANGED <<now, bot, usage, length, at, updates>>

(* ... and after another await the usage of that day. The upload does not know
   the recording's length: the minutes wanted are 0. *)
WithinLimits_Loose(b, used) ==
    /\ \A n \in b.callLimit : used.calls =< n
    /\ \A n \in b.minuteLimit : used.minutes =< n
WithinLimits(b, used) ==
    /\ \A n \in b.callLimit : used.calls < n
    /\ \A n \in b.minuteLimit : used.minutes =< n

CheckUsage(u) ==
    /\ IF WithinLimits(seen[u].bot, usage[DayFor(seen[u].time)])
       THEN Goto(u, "checking", "allowed")
       ELSE Goto(u, "checking", "refused")
    /\ seen' = [seen EXCEPT ![u].calls = usage[DayFor(seen[u].time)].calls]
    /\ UNCHANGED <<now, bot, usage, length, at, updates>>

(* consume: an atomic upsert with increment, on the day it is by then *)
Consume_ReadWrite(u) ==
    /\ Goto(u, "allowed", "counted")
    /\ usage' = [usage EXCEPT ![DayFor(now)].exists = TRUE,
                              ![DayFor(now)].calls = seen[u].calls + 1]
    /\ at' = [at EXCEPT ![u] = now]
    /\ UNCHANGED <<now, bot, length, seen, updates>>
Consume(u) ==
    /\ Goto(u, "allowed", "counted")
    /\ usage' = [usage EXCEPT ![DayFor(now)].exists = TRUE, ![DayFor(now)].calls = @ + 1]
    /\ at' = [at EXCEPT ![u] = now]
    /\ UNCHANGED <<now, bot, length, seen, updates>>

(* The upload fails between the two, or its job does after them. *)
Fail(u) ==
    /\ Goto(u, "allowed", "failed") \/ Goto(u, "counted", "failed")
    /\ UNCHANGED <<now, bot, usage, length, seen, at, updates>>

(* applyProgress of COMPLETED: an update of the UTC day's row, and if there is
   none the error is caught. *)
Charged(row, n) == IF row.exists THEN [row EXCEPT !.minutes = @ + n] ELSE row
Complete(u) ==
    /\ Goto(u, "counted", "completed")
    /\ usage' = [usage EXCEPT ![UtcDay(now)] = Charged(@, length[u])]
    /\ UNCHANGED <<now, bot, length, seen, at, updates>>

(* PATCH bots/:id: limits, window and status. It may change the timezone as well,
   which is not modelled: Offset stays what it is. *)
UpdateBot ==
    /\ updates < MaxUpdates
    /\ updates' = updates + 1
    /\ bot' \in Settings
    /\ UNCHANGED <<now, usage, length, pc, seen, at>>

Tick ==
    /\ now < MaxTime
    /\ now' = now + 1
    /\ UNCHANGED <<bot, usage, length, pc, seen, at, updates>>

Next ==
    \/ \E u \in Uploads : CheckBot(u) \/ CheckUsage(u) \/ Consume(u) \/ Fail(u) \/ Complete(u)
    \/ UpdateBot
    \/ Tick

Spec == Init /\ [][Next]_vars

-----------------------------------------------------------------------------
(* Every variable holds a value of its declared kind, and a day without a row
   has nothing counted on it. *)
TypeOK ==
    /\ now \in 0..MaxTime
    /\ bot \in Settings
    /\ usage \in [Days -> [exists : BOOLEAN, calls : Nat, minutes : Nat]]
    /\ length \in [Uploads -> Lengths]
    /\ pc \in [Uploads -> {"idle", "checking", "allowed", "counted", "completed", "failed",
                           "refused"}]
    /\ seen \in [Uploads -> [bot : Settings, time : 0..MaxTime, calls : Nat]]
    /\ at \in [Uploads -> 0..MaxTime]
    /\ updates \in 0..MaxUpdates
    /\ \A d \in Days : ~usage[d].exists => usage[d] = NoUsage

(* No counted call is lost, however uploads overlap: on each of the bot's days
   the counter is the number of calls counted on it. *)
CountedOn(d) == {u \in Uploads : at[u] # 0 /\ DayFor(at[u]) = d}
CallsCounted == \A d \in Days : usage[d].calls = Cardinality(CountedOn(d))

(* Uploads that overlap can overrun the limit, but only by the others of them
   that passed the check before one was counted. *)
OverrunBounded ==
    \A d \in Days : \A n \in bot.callLimit :
        updates = 0 => usage[d].calls < n + MaxConcurrent

(* The allowance is new at the bot's midnight: an upload checked on one day of
   the bot's own clock is not refused a call that day still has. *)
FreshAllowance ==
    [][\A u \in Uploads :
          pc[u] = "checking" /\ pc'[u] = "refused" /\ seen[u].bot.minuteLimit = {}
          => \E n \in seen[u].bot.callLimit :
                Cardinality({v \in Uploads : at[v] # 0
                                /\ Date(at[v], Offset) = Date(seen[u].time, Offset)}) >= n]_vars

(* An upload is let through exactly in the window: going forward from its
   start, past midnight if need be, the time comes before its end. *)
WindowKept ==
    [][\A u \in Uploads : pc[u] = "idle" /\ pc'[u] # "idle" =>
          (pc'[u] = "checking" <=>
              /\ bot.enabled
              /\ \A w \in bot.window :
                    (now + Offset - w[1]) % DayLength < (w[2] - w[1]) % DayLength)]_vars

-----------------------------------------------------------------------------
(* What the documents say and the code does not do (README, section 6)     *)

(* No day of the bot has more calls than its limit: they are counted early, or
   "a burst of uploads all pass the check". *)
CallLimitKept == \A d \in Days : \A n \in bot.callLimit : updates = 0 => usage[d].calls =< n

(* No upload passes on a day that has no minutes left. *)
NoUploadWithoutMinutes ==
    [][\A u \in Uploads : pc[u] = "checking" /\ pc'[u] = "allowed" =>
          \A n \in seen[u].bot.minuteLimit : usage[DayFor(seen[u].time)].minutes < n]_vars

(* Minutes are charged on the bot's own day. *)
MinutesOnBotsDay ==
    [][\A d \in Days : usage'[d].minutes # usage[d].minutes => d = DayFor(now)]_vars

(* The minutes of every completed call are charged to some day. *)
NoMinutesLost ==
    MapThenSumSet(LAMBDA d : usage[d].minutes, Days)
        = MapThenSumSet(LAMBDA u : length[u], {u \in Uploads : pc[u] = "completed"})

=============================================================================
