----------------------------- MODULE SetupAlerts -----------------------------
(***************************************************************************)
(* Setups and alerts: what one evaluation of one symbol writes besides its  *)
(* scan result.  An evaluation opens or advances the symbol's setup, weighs *)
(* the trial cap and the pace limits, and either records an alert, or       *)
(* records why there is none.  It is one savepoint: when any statement of   *)
(* it fails, everything it wrote is undone, its scan result included, and   *)
(* the symbol is listed among the job's failures.                           *)
(*                                                                         *)
(* Evaluators run concurrently, and so does the minute-by-minute expiry of  *)
(* setups.  Rows are guarded by an optimistic version and by unique keys.   *)
(* An evaluation is three steps: it reads the open setup; it flushes the    *)
(* setup under a row lock and takes its decision; it commits.               *)
(***************************************************************************)
EXTENDS Integers, FiniteSets, Sequences

CONSTANTS
    Monitors,            \* the active strategy versions of one user
    ExperimentMonitors,  \* those that an experiment evaluates as well
    Symbols,
    LastCandle,          \* bound: the last candle evaluated
    LastTick,            \* bound: the candle in which the clock stops
    ExpireAfter,         \* definition.expiry.expire_after_candles
    CooldownTicks,       \* definition.alerts.cooldown_seconds; 0 switches it off
    HourTicks, HourlyMax,    \* the hourly window and its limit
    DayTicks, DailyBudget,   \* the daily window and the plan's limit
    WeekTicks, WeeklyBudget, \* the length of a week and the plan's limit
    TrialCap,            \* alerts_per_trial_cycle; 0 is no cap
    Withheld,            \* may a message find no destination? a set of BOOLEANs
    Outcomes,            \* the answers of the evaluator that are explored
    Absent               \* no setup row

ASSUME ConstantsAssumption ==
    /\ Outcomes \subseteq {"confirmed", "near_miss", "forming"}
    /\ ExperimentMonitors \subseteq Monitors
    /\ IsFiniteSet(Monitors) /\ IsFiniteSet(Symbols)
    /\ LastCandle \in Nat /\ LastTick \in Nat /\ LastCandle <= LastTick
    /\ Withheld \in (SUBSET BOOLEAN) \ {{}}
    /\ ExpireAfter \in Nat \ {0}
    /\ {CooldownTicks, HourTicks, DayTicks, TrialCap} \subseteq Nat
    /\ {HourlyMax, DailyBudget, WeekTicks, WeeklyBudget} \subseteq Nat \ {0}

VARIABLES
    now,         \* the clock, in candles
    setups,      \* the setup_instances rows, by unique key
    history,     \* the setup_lifecycle_events of each
    alerts,      \* the alerts rows
    results,     \* the evaluations with a committed scan result
    failures,    \* the errors that rolled an evaluation back
    tx,          \* the open transaction of each evaluator
    sweep,       \* what the expiry pass has selected
    delivered,   \* qualifying_alerts_delivered of the trial cycle
    subscribed   \* an active subscription

vars == <<now, setups, history, alerts, results, failures, tx, sweep, delivered,
          subscribed>>

----------------------------------------------------------------------------
Candles == 0 .. LastCandle
Ticks == 0 .. LastTick

\* uq_setup_instance_key: the candle a setup was first seen on is its name.
SetupIds == [monitor : Monitors, symbol : Symbols, candle : Candles]

Evaluators == [monitor : Monitors, kind : {"live"}]
              \cup [monitor : ExperimentMonitors, kind : {"experiment"}]

\* What the evaluator can answer, and the setup state each answer proposes.  A
\* confirmation and a near miss ask for an alert; a forming or skipped
\* evaluation asks for none.
Proposed == [confirmed |-> "CONFIRMED", near_miss |-> "NEAR_CONFIRMATION",
             forming |-> "FORMING"]

\* The part of ALLOWED_SETUP_TRANSITIONS that the proposed states can reach.
States == {"FORMING", "NEAR_CONFIRMATION", "CONFIRMED", "ALERT_SENT",
           "SUPPRESSED", "EXPIRED"}
AllowedFrom ==
    [FORMING |-> {"NEAR_CONFIRMATION", "CONFIRMED", "EXPIRED"},
     NEAR_CONFIRMATION |-> {"FORMING", "CONFIRMED", "EXPIRED"},
     CONFIRMED |-> {"ALERT_SENT", "SUPPRESSED", "EXPIRED"},
     ALERT_SENT |-> {"EXPIRED"},
     SUPPRESSED |-> {"ALERT_SENT", "EXPIRED"},
     EXPIRED |-> {}]

\* Mutant: the table forgets that a suppressed setup can expire.
MayMove_SuppressedStays(from, to) ==
    to \in AllowedFrom[from] /\ ~(from = "SUPPRESSED" /\ to = "EXPIRED")

MayMove(from, to) == to \in AllowedFrom[from]

\* transition_setup: the state column changes in memory, and a lifecycle event
\* waits to be written with it.
Moved(row, to) ==
    [row EXCEPT !.state = to,
                !.moves = Append(@, [from |-> row.state, to |-> to])]

Stored(row) == [row EXCEPT !.moves = <<>>]

Errors == {"stale_row", "duplicate_setup", "duplicate_alert"}

\* Mutant: the nullable expires_at is left empty.
NewSetup_NoExpiry(candle, state) ==
    [state |-> state, moves |-> <<[from |-> "none", to |-> state]>>, version |-> 1,
     expires |-> Absent, refusal |-> "none", refusedAt |-> 0]

NewSetup(candle, state) ==
    [state |-> state, moves |-> <<[from |-> "none", to |-> state]>>, version |-> 1,
     expires |-> candle + ExpireAfter, refusal |-> "none", refusedAt |-> 0]

Idle == [pc |-> "idle"]

Init ==
    /\ now = 0
    /\ setups = [i \in SetupIds |-> Absent]
    /\ history = [i \in SetupIds |-> <<>>]
    /\ alerts = {}
    /\ results = {}
    /\ failures = {}
    /\ tx = [e \in Evaluators |-> Idle]
    /\ sweep = Absent
    /\ delivered = 0
    /\ subscribed = FALSE

----------------------------------------------------------------------------
(* The environment.                                                         *)
Tick ==
    /\ now < LastTick
    /\ now' = now + 1
    /\ UNCHANGED <<setups, history, alerts, results, failures, tx, sweep, delivered,
                   subscribed>>

EventAlerts == {a \in alerts : a.key.of = "event"}

\* record_successful_delivery: an alert that was not withheld arrives.
Deliver ==
    /\ delivered < Cardinality({a \in EventAlerts : ~a.withheld})
    /\ delivered < TrialCap
    /\ delivered' = delivered + 1
    /\ UNCHANGED <<now, setups, history, alerts, results, failures, tx, sweep,
                   subscribed>>

Subscribe ==
    /\ TrialCap > 0
    /\ subscribed' = TRUE
    /\ UNCHANGED <<now, setups, history, alerts, results, failures, tx, sweep, delivered>>

----------------------------------------------------------------------------
(* An evaluation.                                                           *)

\* Mutant: the query overlooks a setup that was answered already.
IsOpen_Unanswered(i) ==
    setups[i] # Absent /\ setups[i].state \in {"FORMING", "NEAR_CONFIRMATION"}

IsOpen(i) == setups[i] # Absent /\ setups[i].state # "EXPIRED"

OpenSetups(monitor, symbol) ==
    {i \in SetupIds : i.monitor = monitor /\ i.symbol = symbol /\ IsOpen(i)}

Newest(ids) == CHOOSE i \in ids : \A j \in ids : j.candle <= i.candle

Evaluated(e) == {r.candle : r \in {x \in results : x.evaluator = e}}

\* _upsert_setup's select: the newest open setup, or the name of a new one.
ReadSetup(e, symbol, candle, outcome) ==
    LET found == OpenSetups(e.monitor, symbol)
        id == IF found # {} THEN Newest(found)
              ELSE [monitor |-> e.monitor, symbol |-> symbol, candle |-> candle]
    IN
    /\ tx[e].pc = "idle"
    /\ candle <= now
    /\ \A c \in Evaluated(e) : c <= candle
    /\ [evaluator |-> e, symbol |-> symbol, candle |-> candle] \notin results
    /\ tx' = [tx EXCEPT ![e] =
          [pc |-> "read", symbol |-> symbol, candle |-> candle,
           outcome |-> outcome, id |-> id,
           seen |-> IF found # {} THEN setups[id] ELSE Absent]]
    /\ UNCHANGED <<now, setups, history, alerts, results, failures, sweep, delivered,
                   subscribed>>

Locked(id) == \E e \in Evaluators : tx[e].pc = "decided" /\ tx[e].id = id

\* Mutant: no version column.
Current_Unversioned(id, seen) == setups[id] # Absent

\* The version column: the row is still the one that was read.
Current(id, seen) == setups[id].version = seen.version

\* The row after _upsert_setup: a new one, or the one read with its state
\* advanced where the table allows it.
Upserted(me) ==
    LET to == Proposed[me.outcome] IN
    IF me.seen = Absent THEN NewSetup(me.candle, to)
    ELSE LET row == [me.seen EXCEPT !.version = @ + 1] IN
         IF MayMove(row.state, to) THEN Moved(row, to) ELSE row

\* The deduplication keys: of an event, of a suppressed trial alert, and of a
\* notice to the user.
EventKey(me) == [of |-> "event", monitor |-> me.id.monitor,
                 symbol |-> me.symbol, type |-> me.outcome, period |-> me.candle]
CappedKey(me) == [of |-> "capped", monitor |-> me.id.monitor,
                  symbol |-> me.symbol, type |-> me.outcome,
                  period |-> me.id.candle]
NoticeKey(code, period) == [of |-> code, monitor |-> Absent, symbol |-> Absent,
                            type |-> "notice", period |-> period]
KeysIn(rows) == {a.key : a \in rows}

Week == now \div WeekTicks

\* Mutant: one notice for all time.
Period_Forever(code) == 0

\* The period in a notice's key: a week, a day, or the whole trial cycle.
Period(code) ==
    CASE code = "weekly" -> Week
      [] code = "daily" -> now
      [] OTHER -> 0

\* Mutant: an alert at the edge of the window is not counted.
Recent_Narrow(monitor, ticks) ==
    {a \in alerts : a.monitor = monitor /\ a.at > now - ticks}

\* The alert rows of a monitor that a rolling window counts, notices and
\* suppressed alerts among them.
Recent(monitor, ticks) ==
    {a \in alerts : a.monitor = monitor /\ a.at >= now - ticks}

SentThisWeek == {a \in alerts : ~a.withheld /\ a.at \div WeekTicks = Week}

CoolingDown(me) ==
    /\ CooldownTicks > 0
    /\ \E a \in Recent(me.id.monitor, CooldownTicks) : a.key.symbol = me.symbol

\* Mutant: one alert too many.
Full_OffByOne(rows, limit) == Cardinality(rows) > limit

Full(rows, limit) == Cardinality(rows) >= limit

\* AlertFatigueGuard.check: the first reason found, or "none".
Refusal(me) ==
    LET monitor == me.id.monitor IN
    IF EventKey(me) \in KeysIn(alerts) THEN "duplicate"
    ELSE IF CoolingDown(me) THEN "cooldown"
    ELSE IF Full(Recent(monitor, HourTicks), HourlyMax) THEN "hourly"
    ELSE IF Full(Recent(monitor, DayTicks), DailyBudget) THEN "daily"
    ELSE IF Full(SentThisWeek, WeeklyBudget) THEN "weekly"
    ELSE "none"

\* trial_alert_cap_reached.
CapReached == ~subscribed /\ TrialCap > 0 /\ delivered >= TrialCap

AlertRow(me, key, withheld) ==
    [key |-> key, monitor |-> me.id.monitor, setup |-> me.id, at |-> now,
     withheld |-> withheld]

\* The notice that a limit is reached, unless it exists.
Notice(me, code, withheld) ==
    LET key == NoticeKey(code, Period(code)) IN
    IF key \in KeysIn(alerts) THEN {} ELSE {AlertRow(me, key, withheld)}

\* Mutants: a refused confirmation is left as it is, or counts as alerted.
Refused_Silently(row, why) == row
Refused_AsSent(row, why) ==
    IF row.state = "CONFIRMED" THEN Moved(row, "ALERT_SENT") ELSE row

\* A confirmation that is not alerted is suppressed, with the reason.
Refused(row, why) ==
    IF row.state = "CONFIRMED"
    THEN [Moved(row, "SUPPRESSED") EXCEPT !.refusal = why, !.refusedAt = now]
    ELSE row

Alerted(row) ==
    IF row.state \in {"CONFIRMED", "SUPPRESSED"} THEN Moved(row, "ALERT_SENT")
    ELSE row

\* _create_alert: the setup row and the alert rows it leaves.  `withheld` says
\* that no destination takes the messages it enqueues.
Decided(me, withheld) ==
    LET row == Upserted(me)
        why == Refusal(me)
    IN
    IF me.outcome = "forming" THEN [row |-> row, new |-> {}]
    ELSE IF CapReached THEN
        [row |-> Refused(row, "trial"),
         new |-> {AlertRow(me, CappedKey(me), TRUE)}
                 \cup Notice(me, "trial", withheld)]
    ELSE IF why # "none" THEN
        [row |-> Refused(row, why),
         new |-> IF why \in {"daily", "weekly"}
                 THEN Notice(me, why, withheld) ELSE {}]
    ELSE
        [row |-> Alerted(row), new |-> {AlertRow(me, EventKey(me), withheld)}]

Evaluation(e) == [evaluator |-> e, symbol |-> tx[e].symbol,
                  candle |-> tx[e].candle]

\* The savepoint is rolled back and the job goes on with the next symbol.
RollBack(e, error) ==
    /\ failures' = failures \cup {error}
    /\ tx' = [tx EXCEPT ![e] = Idle]
    /\ UNCHANGED <<now, setups, history, alerts, results, sweep, delivered, subscribed>>

\* The flush of the setup row, which waits for its lock, and the decision.
Decide(e, withheld) ==
    LET me == tx[e] IN
    /\ me.pc = "read"
    /\ ~Locked(me.id)
    /\ IF me.seen = Absent THEN setups[me.id] = Absent ELSE Current(me.id, me.seen)
    /\ LET plan == Decided(me, withheld) IN
       tx' = [tx EXCEPT ![e] = [pc |-> "decided", symbol |-> me.symbol,
                                candle |-> me.candle, id |-> me.id,
                                row |-> plan.row, new |-> plan.new]]
    /\ UNCHANGED <<now, setups, history, alerts, results, failures, sweep, delivered,
                   subscribed>>

\* uq_setup_instance_key refuses a new row, or the version of the row moved on.
SetupConflict(e) ==
    LET me == tx[e] IN
    /\ me.pc = "read"
    /\ ~Locked(me.id)
    /\ \/ /\ me.seen = Absent /\ setups[me.id] # Absent
          /\ RollBack(e, "duplicate_setup")
       \/ /\ me.seen # Absent /\ ~Current(me.id, me.seen)
          /\ RollBack(e, "stale_row")

Commit(e) ==
    LET me == tx[e] IN
    /\ me.pc = "decided"
    /\ KeysIn(me.new) \cap KeysIn(alerts) = {}
    /\ setups' = [setups EXCEPT ![me.id] = Stored(me.row)]
    /\ history' = [history EXCEPT ![me.id] = @ \o me.row.moves]
    /\ alerts' = alerts \cup me.new
    /\ results' = results \cup {Evaluation(e)}
    /\ tx' = [tx EXCEPT ![e] = Idle]
    /\ UNCHANGED <<now, failures, sweep, delivered, subscribed>>

\* uq_alert_deduplication_key.
AlertConflict(e) ==
    /\ tx[e].pc = "decided"
    /\ KeysIn(tx[e].new) \cap KeysIn(alerts) # {}
    /\ RollBack(e, "duplicate_alert")

\* The worker process dies.
Crash(e) ==
    /\ tx[e].pc # "idle"
    /\ tx' = [tx EXCEPT ![e] = Idle]
    /\ UNCHANGED <<now, setups, history, alerts, results, failures, sweep, delivered,
                   subscribed>>

----------------------------------------------------------------------------
(* _expire_setup_instances: one transaction for every setup that is due.     *)
Due == {i \in SetupIds : IsOpen(i) /\ setups[i].expires <= now}

SelectDue ==
    /\ sweep = Absent
    /\ Due # {}
    /\ sweep' = [i \in Due |-> setups[i]]
    /\ UNCHANGED <<now, setups, history, alerts, results, failures, tx, delivered,
                   subscribed>>

\* Mutant: the rows are written whatever became of them.
SweepIsCurrent_Blind(rows) == TRUE

SweepIsCurrent(rows) == \A i \in DOMAIN rows : Current(i, rows[i])

\* Every row selected moves to EXPIRED, a transition the table refuses being
\* skipped; one row that moved on since it was read undoes the whole pass.
Expiring ==
    IF SweepIsCurrent(sweep)
    THEN {i \in DOMAIN sweep : MayMove(sweep[i].state, "EXPIRED")} ELSE {}

Expired(row) == [Moved(row, "EXPIRED") EXCEPT !.version = @ + 1]

ExpireDue ==
    /\ sweep # Absent
    /\ \A i \in DOMAIN sweep : ~Locked(i)
    /\ setups' = [i \in SetupIds |->
          IF i \in Expiring THEN Stored(Expired(sweep[i])) ELSE setups[i]]
    /\ history' = [i \in SetupIds |->
          IF i \in Expiring THEN history[i] \o Expired(sweep[i]).moves
          ELSE history[i]]
    /\ sweep' = Absent
    /\ UNCHANGED <<now, alerts, results, failures, tx, delivered, subscribed>>

----------------------------------------------------------------------------
Step(e) ==
    \/ \E s \in Symbols, c \in Candles, o \in Outcomes : ReadSetup(e, s, c, o)
    \/ \E withheld \in Withheld : Decide(e, withheld)
    \/ SetupConflict(e) \/ Commit(e) \/ AlertConflict(e) \/ Crash(e)

Next ==
    \/ Tick \/ Deliver \/ Subscribe
    \/ SelectDue \/ ExpireDue
    \/ \E e \in Evaluators : Step(e)

Spec == Init /\ [][Next]_vars
(* Time passes, the expiry pass runs every minute and stands in the queue of *)
(* the row locks it needs, and an evaluation that holds a lock ends.         *)
Fairness ==
    /\ WF_vars(Tick) /\ WF_vars(SelectDue) /\ SF_vars(ExpireDue)
    /\ \A e \in Evaluators :
          /\ WF_vars((\E withheld \in Withheld : Decide(e, withheld))
                     \/ SetupConflict(e))
          /\ WF_vars(Commit(e) \/ AlertConflict(e))

FairSpec == Spec /\ Fairness

----------------------------------------------------------------------------
(* Properties.                                                              *)

Setups == {i \in SetupIds : setups[i] # Absent}
AlertsOf(i) == {a \in EventAlerts : a.setup = i}
Happened(i) == {history[i][n].to : n \in 1 .. Len(history[i])}

Rows == [state : States, moves : {<<>>}, version : Nat \ {0},
         expires : Nat, refusal : {"none", "trial", "duplicate", "cooldown",
                                   "hourly", "daily", "weekly"},
         refusedAt : Ticks]

ASSUME AbsentIsNoRow == Absent \notin Rows

AlertRows == [key : [of : {"event", "capped", "trial", "daily", "weekly"},
                     monitor : Monitors \cup {Absent},
                     symbol : Symbols \cup {Absent},
                     type : Outcomes \cup {"notice"}, period : Nat],
              monitor : Monitors, setup : SetupIds, at : Ticks,
              withheld : BOOLEAN]

(* The type invariant: rows and transactions have their shapes, every setup  *)
(* has an expiry time, and the deduplication key of an alert is unique.      *)
TypeOK ==
    /\ now \in Ticks
    /\ setups \in [SetupIds -> Rows \cup {Absent}]
    /\ history \in [SetupIds -> Seq([from : States \cup {"none"}, to : States])]
    /\ alerts \subseteq AlertRows
    /\ \A a, b \in alerts : a.key = b.key => a = b
    /\ results \subseteq [evaluator : Evaluators, symbol : Symbols,
                          candle : Candles]
    /\ failures \subseteq Errors
    /\ \A e \in Evaluators : tx[e].pc \in {"idle", "read", "decided"}
    /\ sweep # Absent => \A i \in DOMAIN sweep : sweep[i] \in Rows
    /\ delivered \in 0 .. TrialCap
    /\ subscribed \in BOOLEAN

(* The lifecycle events of a setup are one legal path that ends in its state *)
(* column, however evaluations and the expiry pass overlap: nobody writes a  *)
(* setup from a state it has left.                                           *)
HistoryIsALegalPath ==
    \A i \in Setups :
        LET h == history[i] IN
        /\ h[1].from = "none"
        /\ \A n \in 2 .. Len(h) :
              h[n].from = h[n - 1].to /\ h[n].to \in AllowedFrom[h[n].from]
        /\ setups[i].state = h[Len(h)].to

(* No committed setup rests in CONFIRMED: every confirmation is answered, in *)
(* the transaction that made it, by an alert or by a recorded refusal.       *)
ConfirmationsAreAnswered ==
    \A i \in Setups :
        /\ setups[i].state # "CONFIRMED"
        /\ "SUPPRESSED" \in Happened(i) <=> setups[i].refusal # "none"

(* A setup reads "alert sent" only when an alert about it exists, and a      *)
(* confirmation alert leaves no setup that does not say so.                  *)
SentMeansAlerted ==
    \A i \in Setups :
        /\ "ALERT_SENT" \in Happened(i) => AlertsOf(i) # {}
        /\ (\E a \in AlertsOf(i) : a.key.type = "confirmed")
              => "ALERT_SENT" \in Happened(i)

(* A closed setup is never alerted about, nor opened again.                  *)
ClosedStaysClosed ==
    [][\A i \in Setups :
          setups[i].state = "EXPIRED" =>
              /\ setups'[i] = setups[i] /\ history'[i] = history[i]
              /\ {a \in alerts' : a.key.of = "event" /\ a.setup = i}
                    = AlertsOf(i)]_vars

(* What holds for a monitor whose checks run one at a time.                  *)

(* One symbol of a monitor has one open setup.                               *)
OneOpenSetup ==
    \A i, j \in Setups :
        /\ i.monitor = j.monitor /\ i.symbol = j.symbol
        /\ "EXPIRED" \notin {setups[i].state, setups[j].state}
        => i = j

(* The pace limits hold for what was alerted: the cooldown of a symbol, and  *)
(* the alerts in the hour and in the day that end with each alert.           *)
PaceHolds ==
    \A a \in EventAlerts :
        LET Window(ticks) ==
                {b \in EventAlerts : /\ b.monitor = a.monitor
                                     /\ b.at <= a.at /\ b.at >= a.at - ticks}
        IN
        /\ Cardinality(Window(HourTicks)) <= HourlyMax
        /\ Cardinality(Window(DayTicks)) <= DailyBudget
        /\ CooldownTicks > 0 =>
              \A b \in Window(CooldownTicks) \ {a} : b.key.symbol # a.key.symbol

(* The plan's week is never overspent on alerts that can reach the user.     *)
WeekBudgetHolds ==
    \A w \in 0 .. (LastTick \div WeekTicks) :
        Cardinality({a \in EventAlerts : ~a.withheld /\ a.at \div WeekTicks = w})
            <= WeeklyBudget

(* Whoever lost a confirmation to a limit of the plan or the trial was told: *)
(* the notice of the week, the day or the trial of that refusal is there.    *)
RefusalIsExplained ==
    \A i \in Setups :
        LET code == setups[i].refusal
            period == CASE code = "weekly" -> setups[i].refusedAt \div WeekTicks
                        [] code = "daily" -> setups[i].refusedAt
                        [] OTHER -> 0
        IN
        code \in {"weekly", "daily", "trial"} =>
            NoticeKey(code, period) \in KeysIn(alerts)

(* An evaluation is never undone by its own bookkeeping, as the user reads   *)
(* in the notice of the trial cap; the code does not keep this at the cap.   *)
EvidenceIsKept == "duplicate_alert" \notin failures

(* The plan's daily number, read as the plan words it: the user's alerts of  *)
(* a day, whichever monitor raised them.                                     *)
PlanDayHolds ==
    \A a \in EventAlerts :
        Cardinality({b \in EventAlerts : b.at <= a.at /\ b.at >= a.at - DayTicks})
            <= DailyBudget

(* Every setup whose expiry the clock reaches closes in the end, whatever    *)
(* evaluations it races with.                                                *)
Closes ==
    \A i \in {j \in SetupIds : j.candle + ExpireAfter <= LastTick} :
        setups[i] # Absent ~> setups[i] # Absent /\ setups[i].state = "EXPIRED"
=============================================================================
