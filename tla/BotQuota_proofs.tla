-------------------------- MODULE BotQuota_proofs --------------------------
(* Proofs about BotQuota, for any clock, settings and uploads.               *)
EXTENDS BotQuota, FiniteSetTheorems, TLAPS

-----------------------------------------------------------------------------
(* The inductive invariant                                                  *)

(* Time began on day 1, so that 0 is no time an upload is counted at. *)
TypeInv == TypeOK /\ DayLength =< now

(* An upload that is not counted yet has no time at which it was. *)
Uncounted == \A u \in Uploads : pc[u] \in {"idle", "checking", "allowed", "refused"} => at[u] = 0

(* Uploads between their arrival and consume, and what they have read. *)
InFlight == {u \in Uploads : pc[u] \in {"checking", "allowed"}}
FlightsBounded == Cardinality(InFlight) =< MaxConcurrent
ReadsOld ==
    \A u \in InFlight :
        /\ DayFor(seen[u].time) =< DayFor(now)
        /\ updates = 0 => seen[u].bot = bot

(* Uploads that may still be counted on day d whatever is counted there first:
   those that passed the check, and those that check an earlier day. *)
Owed(d) == {u \in Uploads : \/ pc[u] = "allowed"
                            \/ pc[u] = "checking" /\ DayFor(seen[u].time) < d}

(* The bound of one day, for a limit that lets something through. *)
DayBound(n, d) ==
    /\ usage[d].calls < n + MaxConcurrent
    /\ d >= DayFor(now) => usage[d].calls + Cardinality(Owed(d)) < n + MaxConcurrent

FutureFree == \A d \in Days : d > DayFor(now) => usage[d].calls = 0
OverrunInv ==
    updates = 0 => \A n \in bot.callLimit :
        /\ n = 0 => \A u \in Uploads : pc[u] # "allowed"
        /\ n = 0 => \A d \in Days : usage[d].calls = 0
        /\ n # 0 => \A d \in Days : DayBound(n, d)
CountInv == TypeInv /\ Uncounted /\ CallsCounted
QuotaInv == CountInv /\ FlightsBounded /\ ReadsOld /\ FutureFree /\ OverrunInv

-----------------------------------------------------------------------------
(* Days                                                                     *)

LEMMA DatesAreDays ==
  ASSUME NEW t \in 0..MaxTime
  PROVE DayFor(t) \in Days /\ UtcDay(t) \in Days
BY DEF DayFor, UtcDay, Days

LEMMA DaysAreNumbers == Days \subseteq Int
<1>1. ASSUME NEW t \in 0..MaxTime, NEW o \in {0, Offset} PROVE Date(t, o) \in Int
  BY QuotaAssumption DEF Date
<1>2. QED BY <1>1 DEF Days

LEMMA DaysGoForward ==
  ASSUME NEW t \in 0..MaxTime
  PROVE DayFor(t) =< DayFor(t + 1)
<1>1. ASSUME NEW a \in Int, NEW b \in Int, a =< b
      PROVE a \div DayLength =< b \div DayLength
  BY <1>1, QuotaAssumption
<1>2. t + Offset \in Int /\ t + 1 + Offset \in Int /\ t + Offset =< t + 1 + Offset
  BY QuotaAssumption
<1>3. QED BY <1>1, <1>2 DEF DayFor, Date

-----------------------------------------------------------------------------
(* Types                                                                    *)

States == {"idle", "checking", "allowed", "counted", "completed", "failed", "refused"}
Usages == [exists : BOOLEAN, calls : Nat, minutes : Nat]

LEMMA SettingsTyped ==
  ASSUME NEW s \in Settings
  PROVE s.callLimit \subseteq Nat /\ s.minuteLimit \subseteq Nat
BY SettingsAssumption

LEMMA InitTyped == Init => TypeInv
<1> SUFFICES ASSUME Init PROVE TypeInv
  OBVIOUS
<1>1. now \in 0..MaxTime /\ DayLength =< now
  BY QuotaAssumption DEF Init
<1>2. NoUsage \in Usages
  <2>1. FALSE \in BOOLEAN /\ 0 \in Nat
    OBVIOUS
  <2>2. QED BY <2>1, Zenon DEF NoUsage, Usages
<1>3. usage \in [Days -> Usages] /\ \A d \in Days : usage[d] = NoUsage
  BY <1>2 DEF Init
<1>4. QED
  BY <1>1, <1>3, QuotaAssumption DEF Init, TypeInv, TypeOK, Usages

LEMMA NextTyped == TypeInv /\ [Next]_vars => TypeInv'
<1> SUFFICES ASSUME TypeInv, [Next]_vars PROVE TypeInv'
  OBVIOUS
<1> USE DEF TypeInv, TypeOK, Goto
<1>1. ASSUME NEW u \in Uploads, CheckBot(u) PROVE TypeInv'
  <2>1. [bot |-> bot, time |-> now, calls |-> 0] \in [bot : Settings, time : 0..MaxTime, calls : Nat]
    OBVIOUS
  <2>2. seen' \in [Uploads -> [bot : Settings, time : 0..MaxTime, calls : Nat]]
    BY <1>1, <2>1 DEF CheckBot
  <2>3. QED BY <1>1, <2>2 DEF CheckBot
<1>2. ASSUME NEW u \in Uploads, CheckUsage(u) PROVE TypeInv'
  <2>1. usage[DayFor(seen[u].time)].calls \in Nat
    BY DatesAreDays
  <2>2. QED BY <1>2, <2>1 DEF CheckUsage
<1>3. ASSUME NEW u \in Uploads, Consume(u) PROVE TypeInv'
  <2>1. DayFor(now) \in Days
    BY DatesAreDays
  <2>2. /\ usage' \in [Days -> [exists : BOOLEAN, calls : Nat, minutes : Nat]]
        /\ \A d \in Days : ~usage'[d].exists => usage'[d] = NoUsage
    BY <1>3, <2>1 DEF Consume
  <2>3. QED BY <1>3, <2>2 DEF Consume
<1>4. ASSUME NEW u \in Uploads, Fail(u) PROVE TypeInv'
  BY <1>4 DEF Fail
<1>5. ASSUME NEW u \in Uploads, Complete(u) PROVE TypeInv'
  <2>1. UtcDay(now) \in Days /\ length[u] \in Nat
    BY DatesAreDays, QuotaAssumption
  <2>2. /\ usage' \in [Days -> [exists : BOOLEAN, calls : Nat, minutes : Nat]]
        /\ \A d \in Days : ~usage'[d].exists => usage'[d] = NoUsage
    BY <1>5, <2>1 DEF Complete, Charged
  <2>3. QED BY <1>5, <2>2 DEF Complete
<1>6. CASE UpdateBot
  BY <1>6, QuotaAssumption DEF UpdateBot
<1>7. CASE Tick
  BY <1>7, QuotaAssumption DEF Tick
<1>8. CASE UNCHANGED vars
  BY <1>8 DEF vars
<1>9. QED
  BY <1>1, <1>2, <1>3, <1>4, <1>5, <1>6, <1>7, <1>8 DEF Next

(* Every variable keeps its kind, and no usage is counted without a row. *)
THEOREM QuotaTyped == Spec => []TypeOK
<1>1. TypeInv => TypeOK
  BY DEF TypeInv
<1>2. QED BY InitTyped, NextTyped, <1>1, PTL DEF Spec

-----------------------------------------------------------------------------
(* Counting                                                                 *)

LEMMA InitCounted == Init => CountInv
<1> SUFFICES ASSUME Init PROVE CountInv
  OBVIOUS
<1>1. TypeInv
  BY InitTyped
<1>2. Uncounted
  BY DEF Init, Uncounted
<1>3. CallsCounted
  <2>1. \A d \in Days : CountedOn(d) = {}
    BY DEF Init, CountedOn
  <2>2. \A d \in Days : usage[d].calls = 0
    BY DEF Init, NoUsage
  <2>3. QED BY <2>1, <2>2, FS_EmptySet DEF CallsCounted
<1>4. QED BY <1>1, <1>2, <1>3 DEF CountInv

(* The counter of a day follows the calls counted on it. *)
LEMMA ConsumeCounts ==
  ASSUME CountInv, NEW u \in Uploads, Consume(u)
  PROVE CallsCounted'
<1> USE DEF CountInv, TypeInv, TypeOK
<1>1. now # 0 /\ at[u] = 0
  BY QuotaAssumption DEF Uncounted, Consume, Goto
<1>2. at' = [at EXCEPT ![u] = now]
  BY DEF Consume
<1>3. SUFFICES ASSUME NEW d \in Days PROVE usage'[d].calls = Cardinality(CountedOn(d)')
  BY DEF CallsCounted
<1>4. IsFiniteSet(CountedOn(d)) /\ usage[d].calls = Cardinality(CountedOn(d))
  BY QuotaAssumption, FS_Subset DEF CountedOn, CallsCounted
<1>5. CASE d = DayFor(now)
  <2>1. CountedOn(d)' = CountedOn(d) \cup {u}
    BY <1>1, <1>2, <1>5 DEF CountedOn, DayFor
  <2>2. u \notin CountedOn(d)
    BY <1>1 DEF CountedOn
  <2>3. usage'[d].calls = usage[d].calls + 1
    BY <1>5 DEF Consume
  <2>4. Cardinality(CountedOn(d) \cup {u}) = Cardinality(CountedOn(d)) + 1
    BY <1>4, <2>2, FS_AddElement
  <2>5. QED BY <1>4, <2>1, <2>3, <2>4
<1>6. CASE d # DayFor(now)
  <2>1. CountedOn(d)' = CountedOn(d)
    BY <1>1, <1>2, <1>6 DEF CountedOn, DayFor
  <2>2. usage'[d].calls = usage[d].calls
    BY <1>6 DEF Consume
  <2>3. QED BY <1>4, <2>1, <2>2
<1>7. QED BY <1>5, <1>6

(* Charging minutes does not touch the calls. *)
LEMMA ChargeKeepsCalls ==
  ASSUME TypeInv, NEW u \in Uploads, Complete(u), NEW d \in Days
  PROVE usage'[d].calls = usage[d].calls
BY DEF TypeInv, TypeOK, Complete, Charged

LEMMA NextCounted == CountInv /\ [Next]_vars => CountInv'
<1> SUFFICES ASSUME CountInv, [Next]_vars PROVE Uncounted' /\ CallsCounted'
  BY NextTyped DEF CountInv
<1> USE DEF CountInv, Goto
<1>1. ASSUME NEW u \in Uploads, Consume(u) PROVE Uncounted' /\ CallsCounted'
  BY <1>1, ConsumeCounts DEF TypeInv, TypeOK, Consume, Uncounted
<1>2. ASSUME UNCHANGED at, \A d \in Days : usage'[d].calls = usage[d].calls
      PROVE CallsCounted'
  BY <1>2 DEF CallsCounted, CountedOn
<1>3. ASSUME NEW u \in Uploads, CheckBot(u) \/ CheckUsage(u) \/ Fail(u)
      PROVE Uncounted' /\ CallsCounted'
  BY <1>2, <1>3 DEF TypeInv, TypeOK, CheckBot, CheckUsage, Fail, Uncounted
<1>4. ASSUME NEW u \in Uploads, Complete(u) PROVE Uncounted' /\ CallsCounted'
  BY <1>2, <1>4, ChargeKeepsCalls DEF TypeInv, TypeOK, Complete, Uncounted
<1>5. CASE UpdateBot \/ Tick \/ UNCHANGED vars
  BY <1>2, <1>5 DEF UpdateBot, Tick, vars, Uncounted
<1>6. QED BY <1>1, <1>3, <1>4, <1>5 DEF Next

LEMMA CountInvariant == Spec => []CountInv
BY InitCounted, NextCounted, PTL DEF Spec

(* However uploads and midnights interleave, every day's counter is the number
   of calls counted on that day of the bot. *)
THEOREM EveryCallCounted == Spec => []CallsCounted
<1>1. CountInv => CallsCounted
  BY DEF CountInv
<1>2. QED BY CountInvariant, <1>1, PTL

(* No upload is refused a call that its day, on the bot's own clock, still has:
   the counter it is checked against is that day's. *)
THEOREM AllowanceIsFresh == Spec => FreshAllowance
<1>1. ASSUME CountInv, [Next]_vars, NEW u \in Uploads,
             pc[u] = "checking", pc'[u] = "refused", seen[u].bot.minuteLimit = {}
      PROVE \E n \in seen[u].bot.callLimit :
                Cardinality({v \in Uploads : at[v] # 0
                                /\ Date(at[v], Offset) = Date(seen[u].time, Offset)}) >= n
  <2> USE DEF CountInv, TypeInv, TypeOK
  <2> DEFINE d == DayFor(seen[u].time)
  <2>1. ~WithinLimits(seen[u].bot, usage[d])
    <3>1. CheckUsage(u)
      <4>1. pc' # pc
        BY <1>1
      <4>2. \E v \in Uploads : \/ CheckBot(v) \/ CheckUsage(v) \/ Consume(v)
                              \/ Fail(v) \/ Complete(v)
        BY <1>1, <4>1 DEF Next, vars, UpdateBot, Tick
      <4>3. QED
        BY <1>1, <4>2 DEF Goto, CheckBot, CheckUsage, Consume, Fail, Complete
    <3>2. QED BY <1>1, <3>1 DEF CheckUsage, Goto
  <2>2. PICK n \in seen[u].bot.callLimit : ~(usage[d].calls < n)
    BY <1>1, <2>1 DEF WithinLimits
  <2>3. n \in Nat /\ d \in Days
    <3>1. seen[u].bot \in Settings /\ seen[u].time \in 0..MaxTime
      BY <1>1
    <3>2. QED BY <3>1, SettingsTyped, DatesAreDays
  <2>4. usage[d].calls \in Nat /\ usage[d].calls = Cardinality(CountedOn(d))
    BY <1>1, <2>3 DEF CallsCounted
  <2>5. CountedOn(d) = {v \in Uploads : at[v] # 0
                          /\ Date(at[v], Offset) = Date(seen[u].time, Offset)}
    BY DEF CountedOn, DayFor
  <2>6. Cardinality(CountedOn(d)) >= n
    BY <2>2, <2>3, <2>4
  <2>7. QED BY <2>5, <2>6
<1>2. CountInv /\ [Next]_vars =>
        [\A u \in Uploads :
          pc[u] = "checking" /\ pc'[u] = "refused" /\ seen[u].bot.minuteLimit = {}
          => \E n \in seen[u].bot.callLimit :
                Cardinality({v \in Uploads : at[v] # 0
                                /\ Date(at[v], Offset) = Date(seen[u].time, Offset)}) >= n]_vars
  BY <1>1
<1>3. QED BY CountInvariant, <1>2, PTL DEF Spec, FreshAllowance

-----------------------------------------------------------------------------
(* The overrun                                                              *)

LEMMA FlightsNext ==
  ASSUME TypeInv, FlightsBounded, [Next]_vars
  PROVE FlightsBounded'
<1> USE DEF TypeInv, TypeOK, Goto
<1>1. IsFiniteSet(InFlight) /\ Cardinality(InFlight) \in Nat
  <2>1. InFlight \in SUBSET Uploads
    BY DEF InFlight
  <2>2. QED BY <2>1, QuotaAssumption, FS_Subset, FS_CardinalityType
<1>2. ASSUME InFlight' \subseteq InFlight PROVE FlightsBounded'
  <2>1. InFlight' \in SUBSET InFlight
    BY <1>2
  <2>2. Cardinality(InFlight') =< Cardinality(InFlight) /\ Cardinality(InFlight') \in Nat
    BY <1>1, <2>1, FS_Subset, FS_CardinalityType
  <2>3. QED BY <1>1, <2>2, QuotaAssumption DEF FlightsBounded
<1>3. ASSUME NEW u \in Uploads, CheckBot(u) PROVE FlightsBounded'
  <2>1. CASE InFlight' \subseteq InFlight
    BY <1>2, <2>1
  <2>2. CASE InFlight' = InFlight \cup {u}
    <3>1. Cardinality(InFlight) < MaxConcurrent
      BY <1>3 DEF CheckBot, InFlight
    <3>2. Cardinality(InFlight') =< Cardinality(InFlight) + 1
      <4>1. Cardinality(InFlight \cup {u})
              = IF u \in InFlight THEN Cardinality(InFlight) ELSE Cardinality(InFlight) + 1
        BY <1>1, FS_AddElement
      <4>2. QED BY <1>1, <2>2, <4>1
    <3>3. Cardinality(InFlight') \in Nat
      BY <1>1, <2>2, FS_AddElement, FS_CardinalityType
    <3>4. QED BY <1>1, <3>1, <3>2, <3>3, QuotaAssumption DEF FlightsBounded
  <2>3. QED BY <1>3, <2>1, <2>2 DEF CheckBot, InFlight
<1>4. ASSUME NEW u \in Uploads, CheckUsage(u) \/ Consume(u) \/ Fail(u) \/ Complete(u)
      PROVE FlightsBounded'
  BY <1>2, <1>4 DEF CheckUsage, Consume, Fail, Complete, InFlight
<1>5. CASE UpdateBot \/ Tick \/ UNCHANGED vars
  BY <1>2, <1>5 DEF UpdateBot, Tick, vars, InFlight
<1>6. QED BY <1>3, <1>4, <1>5 DEF Next

LEMMA ReadsNext ==
  ASSUME TypeInv, ReadsOld, [Next]_vars
  PROVE ReadsOld'
<1> USE DEF TypeInv, TypeOK, Goto, InFlight, ReadsOld
<1>1. ASSUME NEW t \in 0..MaxTime PROVE DayFor(t) \in Int
  BY DatesAreDays, DaysAreNumbers
<1>2. ASSUME NEW u \in Uploads, CheckBot(u) PROVE ReadsOld'
  BY <1>1, <1>2 DEF CheckBot, DayFor
<1>3. ASSUME NEW u \in Uploads, CheckUsage(u) PROVE ReadsOld'
  BY <1>3 DEF CheckUsage, DayFor
<1>4. ASSUME NEW u \in Uploads, Consume(u) \/ Fail(u) \/ Complete(u) PROVE ReadsOld'
  BY <1>4 DEF Consume, Fail, Complete, DayFor
<1>5. CASE UpdateBot
  BY <1>5 DEF UpdateBot, DayFor
<1>6. CASE Tick
  <2>1. now' = now + 1 /\ now' \in 0..MaxTime /\ DayFor(now) =< DayFor(now')
    BY <1>6, DaysGoForward, QuotaAssumption DEF Tick
  <2>2. ASSUME NEW u \in InFlight' PROVE DayFor(seen[u].time) =< DayFor(now')
    <3>1. DayFor(seen[u].time) =< DayFor(now)
      BY <1>6, <2>2 DEF Tick
    <3>2. DayFor(seen[u].time) \in Int /\ DayFor(now) \in Int /\ DayFor(now') \in Int
      BY <1>1, <2>1
    <3>3. QED BY <2>1, <3>1, <3>2
  <2>3. QED BY <1>6, <2>2 DEF Tick, DayFor
<1>7. CASE UNCHANGED vars
  BY <1>7 DEF vars, DayFor
<1>8. QED BY <1>2, <1>3, <1>4, <1>5, <1>6, <1>7 DEF Next

LEMMA FutureNext ==
  ASSUME TypeInv, FutureFree, [Next]_vars
  PROVE FutureFree'
<1> USE DEF TypeInv, TypeOK, FutureFree
<1>1. DayFor(now) \in Int
  BY DatesAreDays, DaysAreNumbers
<1>2. ASSUME \A d \in Days : usage'[d].calls = usage[d].calls \/ d = DayFor(now),
             DayFor(now') \in Int, DayFor(now) =< DayFor(now')
      PROVE FutureFree'
  <2>1. ASSUME NEW d \in Days, d > DayFor(now') PROVE usage'[d].calls = 0
    <3>1. d \in Int /\ d > DayFor(now) /\ d # DayFor(now)
      BY <1>1, <1>2, <2>1, DaysAreNumbers
    <3>2. QED BY <1>2, <3>1
  <2>2. QED BY <2>1 DEF DayFor
<1>3. ASSUME NEW u \in Uploads, Complete(u) PROVE FutureFree'
  BY <1>1, <1>2, <1>3, ChargeKeepsCalls DEF Complete
<1>4. ASSUME NEW u \in Uploads, Consume(u) PROVE FutureFree'
  BY <1>1, <1>2, <1>4 DEF Consume
<1>5. ASSUME NEW u \in Uploads, CheckBot(u) \/ CheckUsage(u) \/ Fail(u) PROVE FutureFree'
  BY <1>1, <1>2, <1>5 DEF CheckBot, CheckUsage, Fail
<1>6. CASE Tick
  <2>1. now' = now + 1 /\ now' \in 0..MaxTime
    BY <1>6, QuotaAssumption DEF Tick
  <2>2. DayFor(now') \in Int /\ DayFor(now) =< DayFor(now')
    BY <2>1, DatesAreDays, DaysAreNumbers, DaysGoForward
  <2>3. QED BY <1>2, <1>6, <2>2 DEF Tick
<1>7. CASE UpdateBot \/ UNCHANGED vars
  BY <1>1, <1>2, <1>7 DEF UpdateBot, vars
<1>8. QED BY <1>3, <1>4, <1>5, <1>6, <1>7 DEF Next

(* What a day owes comes from uploads in flight. *)
LEMMA PartBounded ==
  ASSUME NEW S \in SUBSET Uploads, NEW T \in SUBSET S, Cardinality(S) =< MaxConcurrent
  PROVE IsFiniteSet(T) /\ Cardinality(T) \in Nat /\ Cardinality(T) =< MaxConcurrent
<1>1. IsFiniteSet(S) /\ Cardinality(S) \in Nat
  BY QuotaAssumption, FS_Subset, FS_CardinalityType
<1>2. IsFiniteSet(T) /\ Cardinality(T) \in Nat /\ Cardinality(T) =< Cardinality(S)
  BY <1>1, FS_Subset, FS_CardinalityType
<1>3. QED BY <1>1, <1>2, QuotaAssumption

LEMMA OwedInFlight ==
  ASSUME NEW d \in Days
  PROVE InFlight \in SUBSET Uploads /\ Owed(d) \in SUBSET InFlight
BY DEF Owed, InFlight

LEMMA OwedInFlightNext ==
  ASSUME NEW d \in Days
  PROVE InFlight' \in SUBSET Uploads /\ Owed(d)' \in SUBSET InFlight'
BY DEF Owed, InFlight

(* A day's bound is kept when nothing is counted on the day and it owes nothing new. *)
LEMMA BoundKept ==
  ASSUME QuotaInv, NEW n \in Nat \ {0}, NEW d \in Days, DayBound(n, d),
         usage'[d].calls = usage[d].calls,
         d >= DayFor(now') => d >= DayFor(now) /\ Owed(d)' \subseteq Owed(d)
  PROVE DayBound(n, d)'
<1>1. CASE d >= DayFor(now')
  <2>1. Owed(d)' \in SUBSET Owed(d)
    BY <1>1
  <2>2. IsFiniteSet(Owed(d)) /\ Cardinality(Owed(d)) \in Nat
    BY OwedInFlight, PartBounded DEF QuotaInv, FlightsBounded
  <2>3. Cardinality(Owed(d)') \in Nat /\ Cardinality(Owed(d)') =< Cardinality(Owed(d))
    BY <2>1, <2>2, FS_Subset, FS_CardinalityType
  <2>4. usage[d].calls + Cardinality(Owed(d)) < n + MaxConcurrent
    BY <1>1 DEF DayBound
  <2>5. usage[d].calls \in Nat
    BY DEF QuotaInv, CountInv, TypeInv, TypeOK
  <2>6. usage'[d].calls + Cardinality(Owed(d)') < n + MaxConcurrent
    BY <2>2, <2>3, <2>4, <2>5, QuotaAssumption
  <2>7. QED BY <2>6 DEF DayBound
<1>2. CASE ~(d >= DayFor(now'))
  BY <1>2 DEF DayBound, DayFor
<1>3. QED BY <1>1, <1>2

(* Without a request of the admin the bot stays as it is. *)
LEMMA BotStays ==
  ASSUME TypeInv, [Next]_vars, updates' = 0
  PROVE updates = 0 /\ bot' = bot /\ ~UpdateBot
<1>1. updates \in Nat
  BY QuotaAssumption DEF TypeInv, TypeOK
<1>2. ~UpdateBot
  BY <1>1 DEF UpdateBot
<1>3. QED
  BY <1>2 DEF Next, vars, CheckBot, CheckUsage, Consume, Fail, Complete, Tick

(* A limit of 0 lets nothing through. *)
LEMMA NothingPasses ==
  ASSUME QuotaInv, [Next]_vars, updates' = 0, 0 \in bot'.callLimit
  PROVE (\A u \in Uploads : pc'[u] # "allowed") /\ (\A d \in Days : usage'[d].calls = 0)
<1> USE DEF QuotaInv, CountInv, TypeInv, TypeOK, Goto
<1>1. updates = 0 /\ bot' = bot
  BY BotStays
<1>2. (\A u \in Uploads : pc[u] # "allowed") /\ (\A d \in Days : usage[d].calls = 0)
  BY <1>1 DEF OverrunInv
<1>3. ASSUME NEW u \in Uploads, CheckUsage(u)
      PROVE (\A v \in Uploads : pc'[v] # "allowed") /\ usage' = usage
  <2>1. u \in InFlight /\ seen[u].bot = bot /\ DayFor(seen[u].time) \in Days
    BY <1>1, <1>3, DatesAreDays DEF CheckUsage, InFlight, ReadsOld
  <2>2. usage[DayFor(seen[u].time)].calls = 0 /\ 0 \in seen[u].bot.callLimit
    BY <1>1, <1>2, <2>1
  <2>3. ~WithinLimits(seen[u].bot, usage[DayFor(seen[u].time)])
    BY <2>2 DEF WithinLimits
  <2>4. QED BY <1>2, <1>3, <2>3 DEF CheckUsage
<1>4. ASSUME NEW u \in Uploads, CheckBot(u) \/ Fail(u)
      PROVE (\A v \in Uploads : pc'[v] # "allowed") /\ usage' = usage
  BY <1>2, <1>4 DEF CheckBot, Fail
<1>5. ASSUME NEW u \in Uploads, Consume(u) PROVE FALSE
  BY <1>2, <1>5 DEF Consume
<1>6. ASSUME NEW u \in Uploads, Complete(u)
      PROVE /\ \A v \in Uploads : pc'[v] # "allowed"
            /\ \A d \in Days : usage'[d].calls = usage[d].calls
  BY <1>2, <1>6, ChargeKeepsCalls DEF Complete
<1>7. CASE UpdateBot \/ Tick \/ UNCHANGED vars
  BY <1>1, <1>2, <1>7 DEF UpdateBot, Tick, vars
<1>8. QED BY <1>2, <1>3, <1>4, <1>5, <1>6, <1>7 DEF Next

LEMMA Between ==
  ASSUME NEW x \in Int, NEW y \in Int, NEW z \in Int, x =< y, z >= y, z # x
  PROVE x < z
OBVIOUS

(* Every step keeps the bound of every day: an upload that passes found fewer
   than n calls on its day and is one of at most MaxConcurrent; one that is
   counted was owed; a day that has not begun owes at most all in flight. *)
LEMMA DayBoundNext ==
  ASSUME QuotaInv, [Next]_vars, FlightsBounded', TypeInv', updates' = 0,
         NEW n \in bot.callLimit, n # 0, NEW d \in Days
  PROVE DayBound(n, d)'
<1> USE DEF QuotaInv, CountInv, TypeInv, TypeOK, Goto
<1>1. updates = 0 /\ ~UpdateBot
  BY BotStays
<1>2. n \in Nat \ {0} /\ DayBound(n, d)
  BY <1>1, SettingsTyped DEF OverrunInv
<1>3. /\ d \in Int /\ DayFor(now) \in Int
      /\ usage[d].calls \in Nat /\ usage'[d].calls \in Nat
  BY DatesAreDays, DaysAreNumbers
<1>4. /\ Cardinality(Owed(d)') \in Nat /\ Cardinality(Owed(d)') =< MaxConcurrent
      /\ Cardinality(Owed(d)) \in Nat /\ IsFiniteSet(Owed(d))
  BY OwedInFlight, OwedInFlightNext, PartBounded DEF FlightsBounded
<1>5. ASSUME usage'[d].calls = usage[d].calls,
             d >= DayFor(now') => d >= DayFor(now) /\ Owed(d)' \subseteq Owed(d)
      PROVE DayBound(n, d)'
  BY <1>2, <1>5, BoundKept
<1>6. ASSUME usage'[d].calls < n PROVE DayBound(n, d)'
  BY <1>2, <1>3, <1>4, <1>6, QuotaAssumption DEF DayBound
<1>7. ASSUME NEW u \in Uploads, CheckBot(u) PROVE DayBound(n, d)'
  <2>1. usage' = usage /\ now' = now
    BY <1>7 DEF CheckBot
  <2>2. CASE d > DayFor(now)
    BY <1>2, <1>6, <2>1, <2>2 DEF FutureFree
  <2>3. CASE d =< DayFor(now)
    <3>1. Owed(d)' \subseteq Owed(d)
      BY <1>3, <1>7, <2>3 DEF CheckBot, Owed, DayFor
    <3>2. QED BY <1>5, <2>1, <3>1
  <2>4. QED BY <1>3, <2>2, <2>3
<1>8. ASSUME NEW u \in Uploads, CheckUsage(u) PROVE DayBound(n, d)'
  <2> DEFINE e == DayFor(seen[u].time)
  <2>1. usage' = usage /\ now' = now
    BY <1>8 DEF CheckUsage
  <2>2. e \in Int /\ e =< DayFor(now) /\ seen[u].bot = bot
    BY <1>1, <1>8, DatesAreDays, DaysAreNumbers DEF CheckUsage, InFlight, ReadsOld
  <2>3. CASE pc'[u] = "allowed" /\ d = e
    BY <1>6, <1>8, <2>1, <2>2, <2>3 DEF CheckUsage, WithinLimits
  <2>4. CASE pc'[u] # "allowed" \/ d # e
    <3>1. d >= DayFor(now) => Owed(d)' \subseteq Owed(d)
      <4>1. \A v \in Uploads : seen'[v].time = seen[v].time
        BY <1>8 DEF CheckUsage
      <4>2. \A v \in Uploads : v # u => pc'[v] = pc[v]
        BY <1>8 DEF CheckUsage
      <4>3. ASSUME d >= DayFor(now), u \in Owed(d)' PROVE u \in Owed(d)
        <5>1. pc'[u] = "allowed"
          <6>1. pc'[u] \in {"allowed", "refused"}
            BY <1>8 DEF CheckUsage
          <6>2. QED BY <4>3, <6>1 DEF Owed
        <5>2. e < d
          <6>1. d # e /\ d >= DayFor(now)
            BY <2>4, <4>3, <5>1
          <6>2. e \in Int /\ d \in Int /\ DayFor(now) \in Int /\ e =< DayFor(now)
            BY <1>3, <2>2
          <6> HIDE DEF e, QuotaInv
          <6>3. QED BY <6>1, <6>2, Between
        <5>3. QED BY <1>8, <5>2 DEF CheckUsage, Owed
      <4>4. ASSUME NEW v \in Owed(d)', v # u PROVE v \in Owed(d)
        BY <4>1, <4>2, <4>4 DEF Owed, DayFor
      <4>5. QED BY <4>3, <4>4
    <3>2. QED BY <1>5, <2>1, <3>1
  <2>5. QED BY <2>3, <2>4
<1>9. ASSUME NEW u \in Uploads, Consume(u) PROVE DayBound(n, d)'
  <2>1. now' = now /\ u \in Owed(d) /\ Owed(d)' = Owed(d) \ {u}
    BY <1>9 DEF Consume, Owed, DayFor
  <2>2. CASE d # DayFor(now)
    BY <1>5, <1>9, <2>1, <2>2 DEF Consume
  <2>3. CASE d = DayFor(now)
    <3>1. usage'[d].calls = usage[d].calls + 1
      BY <1>9, <2>3 DEF Consume
    <3>2. Cardinality(Owed(d)') = Cardinality(Owed(d)) - 1
      BY <1>4, <2>1, FS_RemoveElement
    <3>3. usage[d].calls + Cardinality(Owed(d)) < n + MaxConcurrent
      BY <1>2, <1>3, <2>3 DEF DayBound
    <3>4. QED BY <1>2, <1>3, <1>4, <3>1, <3>2, <3>3, QuotaAssumption DEF DayBound
  <2>4. QED BY <2>2, <2>3
<1>10. ASSUME NEW u \in Uploads, Fail(u) PROVE DayBound(n, d)'
  BY <1>5, <1>10 DEF Fail, Owed, DayFor
<1>11. ASSUME NEW u \in Uploads, Complete(u) PROVE DayBound(n, d)'
  <2>1. usage'[d].calls = usage[d].calls
    BY <1>11, ChargeKeepsCalls
  <2>2. QED BY <1>5, <1>11, <2>1 DEF Complete, Owed, DayFor
<1>12. CASE Tick
  <2>1. DayFor(now) =< DayFor(now') /\ DayFor(now') \in Int
    BY <1>12, QuotaAssumption, DaysGoForward, DatesAreDays, DaysAreNumbers DEF Tick
  <2>2. d >= DayFor(now') => d >= DayFor(now)
    BY <1>3, <2>1
  <2>3. QED BY <1>5, <1>12, <2>2 DEF Tick, Owed, DayFor
<1>13. CASE UNCHANGED vars
  BY <1>5, <1>13 DEF vars, Owed, DayFor
<1>14. QED
  BY <1>1, <1>7, <1>8, <1>9, <1>10, <1>11, <1>12, <1>13 DEF Next

LEMMA OverrunNext ==
  ASSUME QuotaInv, [Next]_vars, FlightsBounded', TypeInv'
  PROVE OverrunInv'
<1> SUFFICES ASSUME updates' = 0, NEW n \in bot'.callLimit
    PROVE /\ n = 0 => \A u \in Uploads : pc'[u] # "allowed"
          /\ n = 0 => \A d \in Days : usage'[d].calls = 0
          /\ n # 0 => \A d \in Days : DayBound(n, d)'
  BY DEF OverrunInv
<1>1. bot' = bot
  BY BotStays DEF QuotaInv, CountInv
<1>2. QED BY <1>1, NothingPasses, DayBoundNext

LEMMA InitQuota == Init => QuotaInv
<1> SUFFICES ASSUME Init PROVE QuotaInv
  OBVIOUS
<1>1. CountInv /\ InFlight = {} /\ \A d \in Days : Owed(d) = {}
  BY InitCounted DEF Init, InFlight, Owed
<1>2. \A d \in Days : usage[d].calls = 0
  BY DEF Init, NoUsage
<1>3. FlightsBounded /\ ReadsOld /\ FutureFree
  BY <1>1, <1>2, FS_EmptySet, QuotaAssumption DEF FlightsBounded, ReadsOld, FutureFree
<1>4. OverrunInv
  <2>1. ASSUME NEW n \in bot.callLimit, n # 0, NEW d \in Days PROVE DayBound(n, d)
    <3>1. n \in Nat
      BY SettingsTyped DEF Init
    <3>2. Cardinality(Owed(d)) = 0 /\ usage[d].calls = 0
      BY <1>1, <1>2, FS_EmptySet
    <3>3. 0 < n + MaxConcurrent /\ 0 + 0 < n + MaxConcurrent
      BY <2>1, <3>1, QuotaAssumption
    <3>4. QED BY <3>2, <3>3 DEF DayBound
  <2>2. QED BY <1>2, <2>1 DEF Init, OverrunInv
<1>5. QED BY <1>1, <1>3, <1>4 DEF QuotaInv

(* However uploads overlap each other, the midnights and the jobs, no day of
   the bot takes more calls than its limit and the other uploads in flight. *)
THEOREM OverrunIsBounded == Spec => []OverrunBounded
<1>1. QuotaInv /\ [Next]_vars => QuotaInv'
  BY NextCounted, FlightsNext, ReadsNext, FutureNext, OverrunNext DEF QuotaInv, CountInv
<1>2. QuotaInv => OverrunBounded
  <2> SUFFICES ASSUME QuotaInv, NEW d \in Days, NEW n \in bot.callLimit, updates = 0
      PROVE usage[d].calls < n + MaxConcurrent
    BY DEF OverrunBounded
  <2>1. CASE n = 0
    BY <2>1, QuotaAssumption DEF QuotaInv, OverrunInv
  <2>2. CASE n # 0
    BY <2>2 DEF QuotaInv, OverrunInv, DayBound
  <2>3. QED BY <2>1, <2>2
<1>3. QED BY InitQuota, <1>1, <1>2, PTL DEF Spec

-----------------------------------------------------------------------------
(* The window                                                               *)

LEMMA DivMod ==
  ASSUME NEW a \in Int
  PROVE /\ a = DayLength * (a \div DayLength) + (a % DayLength)
        /\ (a % DayLength) \in 0..(DayLength - 1)
        /\ (a \div DayLength) \in Int
BY QuotaAssumption

LEMMA RemainderIsUnique ==
  ASSUME NEW a \in Int, NEW q \in Int, NEW r \in 0..(DayLength - 1), a = DayLength * q + r
  PROVE a % DayLength = r
BY QuotaAssumption

(* Whole days make no difference to the time of day, ... *)
LEMMA WholeDays ==
  ASSUME NEW x \in Int, NEW q \in Int
  PROVE (x + DayLength * q) % DayLength = x % DayLength
<1>1. /\ x = DayLength * (x \div DayLength) + (x % DayLength)
      /\ (x % DayLength) \in 0..(DayLength - 1) /\ (x \div DayLength) \in Int
  BY DivMod
<1>2. DayLength * ((x \div DayLength) + q) = DayLength * (x \div DayLength) + DayLength * q
  BY <1>1, QuotaAssumption
<1>3. x + DayLength * q = DayLength * ((x \div DayLength) + q) + (x % DayLength)
  BY <1>1, <1>2, QuotaAssumption
<1>4. x + DayLength * q \in Int /\ (x \div DayLength) + q \in Int
  BY <1>1, QuotaAssumption
<1>5. QED BY <1>1, <1>3, <1>4, RemainderIsUnique

(* ... so that the time since s is that since s on the same day. *)
LEMMA TimeOfDay ==
  ASSUME NEW t \in Int, NEW s \in Int
  PROVE (t - s) % DayLength = ((t % DayLength) - s) % DayLength
<1> DEFINE x == (t % DayLength) - s
           q == t \div DayLength
<1>1. /\ t = DayLength * q + (t % DayLength)
      /\ (t % DayLength) \in Int /\ q \in Int
  <2>1. t = DayLength * q + (t % DayLength) /\ (t % DayLength) \in 0..(DayLength - 1) /\ q \in Int
    BY DivMod
  <2>2. QED BY <2>1, QuotaAssumption
<1>2. x \in Int /\ q \in Int /\ t - s = x + DayLength * q
  <2> HIDE DEF q
  <2>1. DayLength * q \in Int
    BY <1>1, QuotaAssumption
  <2>2. QED BY <1>1, <2>1
<1> HIDE DEF x, q
<1>3. (t - s) % DayLength = x % DayLength
  BY <1>2, WholeDays
<1>4. QED BY <1>3 DEF x

LEMMA SinceStart ==
  ASSUME NEW m \in 0..(DayLength - 1), NEW s \in 0..(DayLength - 1)
  PROVE (m - s) % DayLength = IF m >= s THEN m - s ELSE m - s + DayLength
BY QuotaAssumption

(* The code's comparison, wrapping or not, says that less time has passed
   since the start of the window than the window is long. *)
LEMMA WrapsRight ==
  ASSUME NEW m \in 0..(DayLength - 1), NEW s \in 0..(DayLength - 1), NEW e \in 0..(DayLength - 1)
  PROVE (m - s) % DayLength < (e - s) % DayLength
            <=> IF s =< e THEN m >= s /\ m < e ELSE m >= s \/ m < e
BY SinceStart, QuotaAssumption

LEMMA WithinWindowRight ==
  ASSUME NEW t \in 0..MaxTime, NEW s \in Settings
  PROVE WithinWindow(s.window, MinutesSinceMidnight(t))
            <=> \A w \in s.window :
                    (t + Offset - w[1]) % DayLength < (w[2] - w[1]) % DayLength
<1> DEFINE m == MinutesSinceMidnight(t)
<1>1. m \in 0..(DayLength - 1)
  BY DivMod, QuotaAssumption DEF MinutesSinceMidnight
<1>2. ASSUME NEW w \in s.window
      PROVE (t + Offset - w[1]) % DayLength < (w[2] - w[1]) % DayLength
                <=> IF w[1] =< w[2] THEN m >= w[1] /\ m < w[2] ELSE m >= w[1] \/ m < w[2]
  <2>1. w[1] \in 0..(DayLength - 1) /\ w[2] \in 0..(DayLength - 1)
    BY SettingsAssumption
  <2>2. w[1] \in Int /\ t + Offset \in Int
    BY <2>1, QuotaAssumption
  <2>3. (t + Offset - w[1]) % DayLength = (m - w[1]) % DayLength
    <3> DEFINE a == w[1]
               b == t + Offset
    <3>1. a \in Int /\ b \in Int
      BY <2>2
    <3>2. m = b % DayLength
      BY DEF MinutesSinceMidnight
    <3> HIDE DEF a, b, m
    <3>3. (b - a) % DayLength = ((b % DayLength) - a) % DayLength
      BY <3>1, TimeOfDay
    <3>4. (b - a) % DayLength = (m - a) % DayLength
      BY <3>2, <3>3
    <3>5. t + Offset - w[1] = b - a
      BY <2>2, QuotaAssumption DEF a, b
    <3>6. QED BY <3>4, <3>5 DEF a
  <2> HIDE DEF m
  <2>4. QED BY <1>1, <2>1, <2>3, WrapsRight
<1> HIDE DEF m
<1>3. QED BY <1>2 DEF WithinWindow, m

(* At any time of any clock, an upload passes the window exactly if it comes
   inside it, also when the window wraps past midnight or is empty. *)
THEOREM WindowsAreKept == Spec => WindowKept
<1>1. ASSUME TypeInv, [Next]_vars, NEW u \in Uploads, pc[u] = "idle", pc'[u] # "idle"
      PROVE pc'[u] = "checking" <=>
              /\ bot.enabled
              /\ \A w \in bot.window :
                    (now + Offset - w[1]) % DayLength < (w[2] - w[1]) % DayLength
  <2>1. CheckBot(u)
    BY <1>1 DEF TypeInv, TypeOK, Next, vars, Goto, CheckBot, CheckUsage, Consume, Fail, Complete,
                UpdateBot, Tick
  <2>2. pc'[u] = "checking"
          <=> bot.enabled /\ WithinWindow(bot.window, MinutesSinceMidnight(now))
    BY <1>1, <2>1 DEF TypeInv, TypeOK, CheckBot, Goto
  <2>3. QED BY <1>1, <2>2, WithinWindowRight DEF TypeInv, TypeOK
<1>2. TypeInv /\ [Next]_vars =>
        [\A u \in Uploads : pc[u] = "idle" /\ pc'[u] # "idle" =>
          (pc'[u] = "checking" <=>
              /\ bot.enabled
              /\ \A w \in bot.window :
                    (now + Offset - w[1]) % DayLength < (w[2] - w[1]) % DayLength)]_vars
  BY <1>1
<1>3. QED BY InitTyped, NextTyped, <1>2, PTL DEF Spec, WindowKept

=============================================================================
