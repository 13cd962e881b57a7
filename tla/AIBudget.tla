------------------------------ MODULE AIBudget ------------------------------
(***************************************************************************)
(* The ledger that every AI call asks for money before it is made.         *)
(*                                                                         *)
(* A turn reserves its worst case against every ceiling it counts in, the  *)
(* provider is called, and the reservation is settled at what the call     *)
(* really cost.  Each ceiling is one counter row that is locked until the  *)
(* transaction ends.  A Hilal turn is one transaction from beginning to    *)
(* end; a setup turn commits its reservation when the plan is carried out  *)
(* and settles in a second transaction, so its process can die between the *)
(* two.  Every five minutes a sweep gives the promises back that nobody    *)
(* settled.                                                                *)
(*                                                                         *)
(* An estimate is the uniform ceiling of one turn and counts as one unit;  *)
(* a call costs one unit or nothing.  Calls whose price is unknown or too  *)
(* large are refused before anything is read and do not appear.            *)
(***************************************************************************)
EXTENDS Integers, FiniteSets

CONSTANTS
    Turns,          \* the requests that run one AI turn each
    Keys,           \* the idempotency keys
    Users,
    KeyOf,          \* the key a turn reserves under; a retry has its original's
    UserOf,         \* the user a key belongs to
    Durable,        \* the keys of setup turns; the others are Hilal's
    Sweeps,         \* the processes that run the sweep
    Scopes,         \* the kinds of ceiling that are configured
    Limit,          \* the ceiling of each scope, or Absent
    MaxConcurrent,  \* max_concurrent_reservations; 0 is no limit
    Costs,          \* bound: what a call may cost, of 0 and 1
    Days,           \* bound: days that pass
    MaxCrashes,     \* bound: processes that die
    MayOverrun,     \* may a turn outlast its claim or its reservation?
    Metered,        \* bound: the scopes whose true bill is recorded
    Absent          \* no value

\* windows_for, whose ceilings reserve and reconcile lock sorted by scope
ScopeOrder == <<"global_daily", "global_monthly", "model_daily", "user_daily",
                "user_feature_daily", "user_messages_daily", "user_monthly">>
Shared == {"global_daily", "global_monthly", "model_daily"}
Monthly == {"global_monthly", "user_monthly"}
Units == {"usd", "message"}

ASSUME ConstantsAssumption ==
    /\ IsFiniteSet(Keys)
    /\ KeyOf \in [Turns -> Keys]
    /\ UserOf \in [Keys -> Users]
    /\ Durable \subseteq Keys
    /\ Turns \cap Sweeps = {}
    /\ Scopes \subseteq {ScopeOrder[i] : i \in 1 .. 7}
    /\ Metered \subseteq Scopes
    /\ Absent \notin Nat
    /\ Absent \notin Keys
    /\ Limit \in [Scopes -> Nat \cup {Absent}]
    /\ {MaxConcurrent, MaxCrashes} \subseteq Nat
    /\ Costs \subseteq {0, 1}
    /\ Days \in Nat \ {0}
    /\ MayOverrun \in BOOLEAN

VARIABLES
    today,     \* the day that the windows of a new reservation are taken from
    counters,  \* the ai_budget_counters rows, as committed
    rows,      \* the ai_budget_reservations rows, as committed
    lapsed,    \* the reservations whose expires_at has passed
    tx,        \* the open transaction of each process
    turn,      \* how far each turn has come
    sweep,     \* the reservations each sweep has selected, and the current one
    bill,      \* what the provider really charged for the metered windows
    crashes    \* processes that have died

vars == <<today, counters, rows, lapsed, tx, turn, sweep, bill, crashes>>
world == <<today, lapsed>>
ledger == <<counters, rows>>

Procs == Turns \cup Sweeps

-----------------------------------------------------------------------------
(* Counters, reservations and transactions *)

\* windows_for.  A reservation keeps the windows it was taken against; they
\* follow from its user and its day.
WindowsFor ==
    [user \in Users |-> [day \in 1 .. Days |->
        {[scope |-> s,
          owner |-> IF s \in Shared THEN Absent ELSE user,
          period |-> IF s \in Monthly THEN 0 ELSE day] : s \in Scopes}]]

Windows == UNION {WindowsFor[user][day] : user \in Users, day \in 1 .. Days}

Unit(w) == IF w.scope = "user_messages_daily" THEN "message" ELSE "usd"

Counter == [spent : Nat, reserved : Nat]
Charge == [Units -> {0, 1}]
Reservation ==
    [day : 1 .. Days, state : {"reserved", "settled", "expired"}, charge : Charge]

ASSUME AbsentIsNoReservation == Absent \notin Reservation

NoCharge == [u \in Units |-> 0]
Promise(day) == [day |-> day, state |-> "reserved", charge |-> NoCharge]

\* The windows a transaction has locked, the counters as it sees them, and
\* the reservations it has written.
Blank == [held |-> {},
          counters |-> [w \in Windows |-> [spent |-> 0, reserved |-> 0]],
          rows |-> [k \in Keys |-> Absent]]

Seen(p, k) == IF tx[p].rows[k] # Absent THEN tx[p].rows[k] ELSE rows[k]

\* _windows_from: the windows a reservation was taken against, whatever the day
WindowsOf(k, row) == WindowsFor[UserOf[k]][row.day]

Key(t) == KeyOf[t]
Live(t) == turn[t].at \in {"reserving", "calling", "answered", "settling"}

Init ==
    /\ today = 1
    /\ counters = [w \in Windows |-> [spent |-> 0, reserved |-> 0]]
    /\ rows = [k \in Keys |-> Absent]
    /\ lapsed = {}
    /\ tx = [p \in Procs |-> Blank]
    /\ turn = [t \in Turns |->
                  [at |-> "idle", day |-> 1, ok |-> FALSE, charge |-> NoCharge]]
    /\ sweep = [s \in Sweeps |-> [todo |-> {}, key |-> Absent]]
    /\ bill = [w \in {x \in Windows : x.scope \in Metered} |-> 0]
    /\ crashes = 0

\* What a process is locking counters for.
Wanted(p) ==
    IF p \in Turns
    THEN CASE turn[p].at = "reserving" -> WindowsFor[UserOf[Key(p)]][turn[p].day]
           [] turn[p].at = "settling"  -> WindowsOf(Key(p), Seen(p, Key(p)))
           [] OTHER                    -> {}
    ELSE IF sweep[p].key = Absent THEN {}
         ELSE WindowsOf(sweep[p].key, rows[sweep[p].key])

HasLocks(p) == Wanted(p) \subseteq tx[p].held

\* Mutant: the counter is read without FOR UPDATE
Free_NoLock(w, p) == TRUE

Free(w, p) == \A q \in Procs \ {p} : w \notin tx[q].held

RankOf == [s \in Scopes |-> CHOOSE i \in 1 .. 7 : ScopeOrder[i] = s]
Rank(w) == RankOf[w.scope]

\* The windows a process has yet to lock, and those that come next.
Missing(p) == Wanted(p) \ tx[p].held
NextWindows(p) ==
    LET missing == Missing(p)
    IN  {w \in missing : \A v \in missing : Rank(w) <= Rank(v)}

Locked(mine, w) ==
    [mine EXCEPT !.held = @ \cup {w}, !.counters[w] = counters[w]]

\* _locked_counter, for the next window in the fixed order.
Lock(p) ==
    \E w \in NextWindows(p) :
        /\ Free(w, p)
        /\ tx' = [tx EXCEPT ![p] = Locked(tx[p], w)]
        /\ UNCHANGED <<world, ledger, turn, sweep, bill, crashes>>

\* What the rest of the transaction leaves behind, committed.
Published(p, mine) ==
    /\ counters' = [w \in Windows |->
                       IF w \in mine.held THEN mine.counters[w] ELSE counters[w]]
    /\ rows' = [k \in Keys |->
                   IF mine.rows[k] # Absent THEN mine.rows[k] ELSE rows[k]]
    /\ tx' = [tx EXCEPT ![p] = Blank]

-----------------------------------------------------------------------------
(* Reserving *)

Outstanding(user) ==
    {k \in Keys : /\ UserOf[k] = user
                  /\ rows[k] # Absent
                  /\ rows[k].state = "reserved"
                  /\ k \notin lapsed}

TooManyInFlight(user) ==
    MaxConcurrent > 0 /\ Cardinality(Outstanding(user)) >= MaxConcurrent

\* One message is worked on by one turn: a setup turn has the chat's claim, and
\* a Hilal question is written down under a unique key.  A message that has
\* its answer is not asked again.
MayAsk(t) ==
    /\ \A o \in Turns : Key(o) = Key(t) => turn[o].at # "done"
    /\ ~ MayOverrun => /\ Key(t) \notin lapsed
                       /\ \A o \in Turns : Key(o) = Key(t) => ~ Live(o)

Step(t, at) == turn' = [turn EXCEPT ![t].at = at]

\* The start of reserve: a key that is known is a replay, whatever became of
\* its reservation.
Ask(t) ==
    /\ turn[t].at = "idle"
    /\ MayAsk(t)
    /\ \/ /\ rows[Key(t)] # Absent
          /\ Step(t, "calling")
       \/ /\ rows[Key(t)] = Absent
          /\ TooManyInFlight(UserOf[Key(t)])
          /\ Step(t, "refused")
       \/ /\ rows[Key(t)] = Absent
          /\ ~ TooManyInFlight(UserOf[Key(t)])
          /\ turn' = [turn EXCEPT ![t] = [@ EXCEPT !.at = "reserving", !.day = today]]
    /\ UNCHANGED <<world, ledger, tx, sweep, bill, crashes>>

\* Mutant: the promises of others are forgotten
Exceeds_SpentOnly(mine, w) ==
    /\ Limit[w.scope] # Absent
    /\ mine.counters[w].spent + 1 > Limit[w.scope]

Exceeds(mine, w) ==
    /\ Limit[w.scope] # Absent
    /\ mine.counters[w].spent + mine.counters[w].reserved + 1 > Limit[w.scope]

Increased(c) == [spent |-> c.spent, reserved |-> c.reserved + 1]

\* Mutant: a lost race on the key keeps the increments
WithPromise_Kept(mine, k, ws, day) ==
    [mine EXCEPT
        !.counters = [w \in Windows |->
                         IF w \in ws THEN Increased(@[w]) ELSE @[w]],
        !.rows[k] = IF rows[k] # Absent THEN Absent ELSE Promise(day)]

\* The increments and the new row; a lost race on the key takes both back.
WithPromise(mine, k, ws, day) ==
    IF rows[k] # Absent THEN mine
    ELSE [mine EXCEPT
             !.counters = [w \in Windows |->
                              IF w \in ws THEN Increased(@[w]) ELSE @[w]],
             !.rows[k] = Promise(day)]

\* Two writers of one key wait for each other on its unique index.
KeyTaken(t, q) == HasLocks(t) /\ tx[q].rows[Key(t)] # Absent

\* The rest of reserve, once every counter is locked.
Reserve(t) ==
    /\ turn[t].at = "reserving"
    /\ HasLocks(t)
    /\ \A q \in Procs \ {t} : ~ KeyTaken(t, q)
    /\ IF \E w \in Wanted(t) : Exceeds(tx[t], w)
       THEN /\ Step(t, "refused")
            /\ tx' = [tx EXCEPT ![t] = Blank]
       ELSE /\ Step(t, "calling")
            /\ tx' = [tx EXCEPT ![t] =
                         WithPromise(tx[t], Key(t), Wanted(t), turn[t].day)]
    /\ UNCHANGED <<world, ledger, sweep, bill, crashes>>

-----------------------------------------------------------------------------
(* The call, and what it cost *)

\* A failed setup call still used a message and whatever tokens it reported;
\* a failed Hilal call is released as unused.
Charges(k, ok) ==
    IF ~ ok /\ k \notin Durable THEN {NoCharge}
    ELSE {[u \in Units |-> IF u = "usd" THEN cost ELSE 1] : cost \in Costs}

\* The provider answers.  A setup turn that has an answer commits what it has
\* so far, with the carried out plan; one that failed goes on to settle.
Answer(t) ==
    /\ turn[t].at = "calling"
    /\ \E ok \in BOOLEAN : \E charge \in Charges(Key(t), ok) :
           /\ turn' = [turn EXCEPT ![t] = [@ EXCEPT !.at = "answered", !.ok = ok,
                                                      !.charge = charge]]
           /\ bill' = [w \in DOMAIN bill |->
                          IF w \in WindowsOf(Key(t), Seen(t, Key(t)))
                          THEN bill[w] + charge[Unit(w)] ELSE bill[w]]
           /\ IF ok /\ Key(t) \in Durable THEN Published(t, tx[t])
              ELSE UNCHANGED <<ledger, tx>>
    /\ UNCHANGED <<world, sweep, crashes>>

Ended(t) == Step(t, IF turn[t].ok THEN "done" ELSE "failed")

\* The start of reconcile: a reservation that is no longer reserved is left
\* alone.  The state is read here, before the counters are locked.
Reconcile(t) ==
    /\ turn[t].at = "answered"
    /\ IF Seen(t, Key(t)).state = "reserved"
       THEN Step(t, "settling") /\ UNCHANGED <<ledger, tx>>
       ELSE Ended(t) /\ Published(t, tx[t])
    /\ UNCHANGED <<world, sweep, bill, crashes>>

\* Mutant: the estimate is taken off without a floor
Settled_Unclipped(c, cost) == [spent |-> c.spent + cost, reserved |-> c.reserved - 1]

Settled(c, cost) ==
    [spent |-> c.spent + cost, reserved |-> IF c.reserved = 0 THEN 0 ELSE c.reserved - 1]

\* Mutant: reconcile recomputes the windows for the day it runs on
ReconcileWindows_Today(k, row) == WindowsFor[UserOf[k]][today]

ReconcileWindows(k, row) == WindowsOf(k, row)

\* The rest of reconcile: each counter loses the estimate and gains the cost.
WithSettlement(mine, k, row, state, charge) ==
    [mine EXCEPT
        !.counters = [w \in Windows |->
                         IF w \in ReconcileWindows(k, row)
                         THEN Settled(@[w], charge[Unit(w)]) ELSE @[w]],
        !.rows[k] = [day |-> row.day, state |-> state, charge |-> charge]]

Settle(t) ==
    /\ turn[t].at = "settling"
    /\ HasLocks(t)
    /\ Ended(t)
    /\ Published(t, WithSettlement(tx[t], Key(t), Seen(t, Key(t)), "settled",
                                   turn[t].charge))
    /\ UNCHANGED <<world, sweep, bill, crashes>>

-----------------------------------------------------------------------------
(* The sweep, time and faults *)

\* Mutant: the sweep looks only at today's reservations
Stale_Today ==
    {k \in lapsed : rows[k] # Absent /\ rows[k].state = "reserved" /\ rows[k].day = today}

Stale == {k \in lapsed : rows[k] # Absent /\ rows[k].state = "reserved"}

\* sweep_expired selects the stale reservations once.
SweepSelect(s) ==
    /\ sweep[s].key = Absent
    /\ \E k \in Stale : sweep' = [sweep EXCEPT ![s] = [todo |-> Stale \ {k}, key |-> k]]
    /\ UNCHANGED <<world, ledger, tx, turn, bill, crashes>>

\* It settles them at nothing one by one, from the rows it has selected, and
\* commits after the last.
SweepOne(s) ==
    /\ sweep[s].key # Absent
    /\ HasLocks(s)
    /\ LET k == sweep[s].key
           mine == WithSettlement(tx[s], k, rows[k], "expired", NoCharge)
       IN  IF sweep[s].todo = {}
           THEN /\ Published(s, mine)
                /\ sweep' = [sweep EXCEPT ![s].key = Absent]
           ELSE /\ \E next \in sweep[s].todo :
                       sweep' = [sweep EXCEPT ![s] = [todo |-> @.todo \ {next},
                                                      key |-> next]]
                /\ tx' = [tx EXCEPT ![s] = mine]
                /\ UNCHANGED ledger
    /\ UNCHANGED <<world, turn, bill, crashes>>

\* Fifteen minutes after it was made, a promise may be swept.  A turn is
\* bounded to less than that by its own deadline, unless MayOverrun.
Expire(k) ==
    /\ k \notin lapsed
    /\ rows[k] # Absent
    /\ rows[k].state = "reserved"
    /\ MayOverrun \/ \A t \in Turns : Key(t) = k => ~ Live(t)
    /\ lapsed' = lapsed \cup {k}
    /\ UNCHANGED <<today, ledger, tx, turn, sweep, bill, crashes>>

Midnight ==
    /\ today < Days
    /\ today' = today + 1
    /\ UNCHANGED <<lapsed, ledger, tx, turn, sweep, bill, crashes>>

\* A process is gone and the database rolls its transaction back.  A cancelled
\* turn releases its reservation first, in the transaction that is rolled back.
Gone(p) ==
    /\ tx' = [tx EXCEPT ![p] = Blank]
    /\ turn' = IF p \in Turns THEN [turn EXCEPT ![p].at = "dead"] ELSE turn
    /\ sweep' = IF p \in Sweeps
                THEN [sweep EXCEPT ![p] = [todo |-> {}, key |-> Absent]] ELSE sweep
    /\ UNCHANGED <<world, ledger, bill>>

Busy(p) == IF p \in Turns THEN Live(p) ELSE sweep[p].key # Absent

Crash(p) ==
    /\ crashes < MaxCrashes
    /\ Busy(p)
    /\ crashes' = crashes + 1
    /\ Gone(p)

\* The database ends one of two transactions that wait for each other.
WaitsFor(p, q) ==
    \/ NextWindows(p) \cap tx[q].held # {}
    \/ p \in Turns /\ turn[p].at = "reserving" /\ KeyTaken(p, q)

Deadlocked(p) ==
    /\ \E q \in Procs \ {p} : WaitsFor(p, q) /\ WaitsFor(q, p)
    /\ Gone(p)
    /\ UNCHANGED crashes

TurnStep(t) == Reserve(t) \/ Answer(t) \/ Reconcile(t) \/ Settle(t)
SweepStep(s) == SweepSelect(s) \/ SweepOne(s)
Wait(p) == Lock(p) \/ Deadlocked(p)

Next ==
    \/ \E t \in Turns : Ask(t) \/ TurnStep(t)
    \/ \E s \in Sweeps : SweepStep(s)
    \/ \E p \in Procs : Wait(p) \/ Crash(p)
    \/ \E k \in Keys : Expire(k)
    \/ Midnight

Spec == Init /\ [][Next]_vars

\* A call ends with an answer or at its deadline, the database queues those
\* who wait for a lock, time passes, and the sweep runs every five minutes.
Fairness ==
    /\ \A t \in Turns : SF_vars(TurnStep(t) \/ Wait(t))
    /\ \A s \in Sweeps : WF_vars(SweepStep(s) \/ Wait(s))
    /\ \A k \in Keys : WF_vars(Expire(k))

FairSpec == Spec /\ Fairness

-----------------------------------------------------------------------------
(* Properties *)

\* Every column holds a value its code can have written, and every counter is
\* a number that is not negative.
TypeOK ==
    /\ today \in 1 .. Days
    /\ counters \in [Windows -> Counter]
    /\ rows \in [Keys -> Reservation \cup {Absent}]
    /\ lapsed \subseteq Keys
    /\ tx \in [Procs -> [held : SUBSET Windows,
                         counters : [Windows -> Counter],
                         rows : [Keys -> Reservation \cup {Absent}]]]
    /\ turn \in [Turns -> [at : {"idle", "reserving", "calling", "answered", "settling",
                                 "done", "failed", "refused", "dead"},
                           day : 1 .. Days, ok : BOOLEAN, charge : Charge]]
    /\ sweep \in [Sweeps -> [todo : SUBSET Keys, key : Keys \cup {Absent}]]
    /\ bill \in [{w \in Windows : w.scope \in Metered} -> Nat]
    /\ crashes \in 0 .. MaxCrashes

Against(w) == {k \in Keys : rows[k] # Absent /\ w \in WindowsOf(k, rows[k])}
Promised(w) == {k \in Against(w) : rows[k].state = "reserved"}
Charged(w) == {k \in Against(w) : rows[k].charge[Unit(w)] = 1}

\* No counter ever holds budget for a promise that is no longer outstanding:
\* crashes, refusals, lost races, double settlements and midnight leak nothing.
\* This is what the sweep and the windows stored on the row are for.
NothingLeaks == \A w \in Windows : counters[w].reserved <= Cardinality(Promised(w))

\* A counter is exactly the sum of the reservations it was taken for: what is
\* promised is what is outstanding, and every settled cost was added once, to
\* the windows of the day it was reserved on.
CountersAddUp ==
    ~ MayOverrun =>
        \A w \in Windows : /\ counters[w].reserved = Cardinality(Promised(w))
                           /\ counters[w].spent = Cardinality(Charged(w))

\* Spent and promised together never pass a ceiling, for any interleaving of
\* the turns that check it.
CeilingHolds ==
    ~ MayOverrun =>
        \A w \in Windows :
            Limit[w.scope] # Absent =>
                counters[w].spent + counters[w].reserved <= Limit[w.scope]

\* What the tests of the ledger say of it: actual spend never passes the
\* ceiling that is enforced.  The spend is what the provider has charged.
BillWithinCeiling ==
    \A w \in DOMAIN bill : Limit[w.scope] # Absent => bill[w] <= Limit[w.scope]

\* The committed reservations are a book as AIBudgetBook describes it: each is
\* entered under its ceilings and settled or released once, whatever turns,
\* sweeps and crashes happen on the way.  It holds without overruns and with one sweep.
Book ==
    INSTANCE AIBudgetBook WITH
        WindowsFor <- [k \in Keys |-> WindowsFor[UserOf[k]]],
        Ceiling <- [w \in Windows |-> Limit[w.scope]],
        UnitOf <- [w \in Windows |-> Unit(w)],
        None <- Absent,
        entry <- rows

ImplementsBook == Book!Spec

\* A promise is never held for ever: a reservation that was committed is
\* settled or swept, although its process may have died.
PromisesEnd ==
    \A k \in Keys :
        (rows[k] # Absent /\ rows[k].state = "reserved")
            ~> (rows[k] # Absent /\ rows[k].state # "reserved")
=============================================================================
