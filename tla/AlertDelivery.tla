---------------------------- MODULE AlertDelivery ----------------------------
(***************************************************************************)
(* Sending the queued alerts of one trial user, and counting them.         *)
(*                                                                         *)
(* Every minute one task per channel selects the delivery rows that are    *)
(* due, oldest first, and sends them one by one.  It commits once, after   *)
(* the last: a message that left cannot be taken back, but the rows that   *)
(* say so are undone when anything in the same pass raises.  A successful  *)
(* delivery also marks its alert as counted against the trial cycle.  The  *)
(* cycle's counter is incremented in memory and written back, so passes    *)
(* can lose each other's increments; a repair task recounts it.            *)
(*                                                                         *)
(* The alerts are numbered in the order in which they are raised.  The     *)
(* counter is the delivered of SetupAlerts, whose trial cap reads it.      *)
(***************************************************************************)
EXTENDS Integers, FiniteSets

CONSTANTS
    AlertCount,     \* bound: qualifying alerts that are raised
    Chosen,         \* the channels the user asked for
    Passes,         \* the processes that run delivery passes
    ChannelOf,      \* the channel each of them serves
    BatchSize,      \* process_due's limit
    MaxAttempts,    \* attempts before a delivery is given up on
    Faults,         \* what a pass can die of
    MaxFaults,      \* bound: passes that die of it
    MaxLinkChanges, \* bound: how often the chat is unlinked or linked again
    CycleEnds,      \* bound: may the trial cycle end?
    Observed,       \* bound: the rows whose calls are counted
    Absent          \* no value

Channels == {"telegram", "email"}

ASSUME ConstantsAssumption ==
    /\ {AlertCount, MaxFaults, MaxLinkChanges} \subseteq Nat
    /\ {BatchSize, MaxAttempts} \subseteq Nat \ {0}
    /\ Chosen \subseteq Channels
    /\ ChannelOf \in [Passes -> Chosen]
    /\ Faults \subseteq {"crash", "uncaught"}
    /\ CycleEnds \in BOOLEAN
    /\ Absent \notin Int
    /\ Observed \subseteq Nat \X Channels

VARIABLES
    raised,       \* how many alerts exist
    deliveries,   \* the alert_deliveries rows
    waiting,      \* the rows whose next_retry_at lies in the future
    attribution,  \* the trial_alert_attributions row of each alert
    cycle,        \* the trial cycle: its status, and its counter
    connected,    \* the Telegram chat is linked and takes alerts
    links,        \* link changes so far
    pass,         \* the open transaction of each process
    repair,       \* the recount that repair_cycle_counters is about to write
    tries,        \* calls the provider has received for each observed row
    accepted,     \* rows whose message the provider has accepted
    faults        \* passes that have died

vars == <<raised, deliveries, waiting, attribution, cycle, connected, links,
          pass, repair, tries, accepted, faults>>
world == <<connected, links>>
outside == <<tries, accepted, faults>>

----------------------------------------------------------------------------
Alerts == 1 .. AlertCount
Rows == Alerts \X Chosen

Statuses == {"NONE", "PENDING", "SENT", "FAILED_RETRYABLE", "FAILED_PERMANENT",
             "CANCELED"}
Row == [status : Statuses, attempts : 0 .. MaxAttempts]
NoRow == [status |-> "NONE", attempts |-> 0]

\* What an unfinished pass holds: the alerts still to visit, the rows as it
\* read them and as it will write them, the cycle's counter as first loaded,
\* and the alerts it has counted.
Pass == [at : {"idle", "next", "flush", "count"},
         queue : SUBSET Alerts,
         read : [Alerts -> Row], write : [Alerts -> Row],
         memory : Int \cup {Absent}, counted : SUBSET Alerts]
Idle == [at |-> "idle", queue |-> {}, read |-> [a \in Alerts |-> NoRow],
         write |-> [a \in Alerts |-> NoRow], memory |-> Absent, counted |-> {}]

Counted == {a \in Alerts : attribution[a] = "qualifying_delivered"}

Init ==
    /\ raised = 0
    /\ deliveries = [r \in Rows |-> NoRow]
    /\ waiting = {}
    /\ attribution = [a \in Alerts |-> "none"]
    /\ cycle = [status |-> "active", ended |-> FALSE, delivered |-> 0]
    /\ connected = TRUE
    /\ links = 0
    /\ pass = [p \in Passes |-> Idle]
    /\ repair = Absent
    /\ tries = [r \in Observed |-> 0]
    /\ accepted = {}
    /\ faults = 0

----------------------------------------------------------------------------
(* Row locks.  A pass keeps what it has flushed locked until it ends.      *)

Head(p) == CHOOSE a \in pass[p].queue : \A b \in pass[p].queue : a <= b

Dirty(p) == {a \in Alerts : pass[p].write[a] # pass[p].read[a]} \
            (IF pass[p].at = "count" THEN pass[p].queue \ {Head(p)} ELSE pass[p].queue)

Waits(p, q) ==
    \/ pass[p].at = "flush" /\ ChannelOf[q] = ChannelOf[p] /\ Head(p) \in Dirty(q)
    \/ pass[p].at = "count" /\ pass[q].counted # {}
Granted(p) == \A q \in Passes \ {p} : ~Waits(p, q)
CycleIsFree == \A p \in Passes : pass[p].counted = {}

----------------------------------------------------------------------------
(* The world outside the passes.                                           *)

\* The scanner records the next alert: its attribution when the trial cycle
\* still runs, which updates the cycle's row, and one row per chosen channel;
\* Telegram takes part only when its chat is linked.
Raise ==
    /\ raised < AlertCount
    /\ cycle.ended \/ CycleIsFree
    /\ LET a == raised + 1
           To == {ch \in Chosen : ch = "telegram" => connected}
       IN /\ deliveries' = [r \in Rows |->
                 IF r \in {a} \X To THEN [NoRow EXCEPT !.status = "PENDING"]
                 ELSE deliveries[r]]
          /\ attribution' = [attribution EXCEPT ![a] =
                 IF cycle.ended THEN "none" ELSE "generated"]
    /\ raised' = raised + 1
    /\ UNCHANGED <<waiting, cycle, world, pass, repair, outside>>

ChangeLink ==
    /\ links < MaxLinkChanges
    /\ connected' = ~connected
    /\ links' = links + 1
    /\ UNCHANGED <<raised, deliveries, waiting, attribution, cycle, pass, repair, outside>>

\* next_retry_at comes.
BackoffElapses(r) ==
    /\ r \in waiting
    /\ waiting' = waiting \ {r}
    /\ UNCHANGED <<raised, deliveries, attribution, cycle, world, pass, repair, outside>>

\* ends_at comes: later alerts belong to no cycle.
EndCycle ==
    /\ CycleEnds /\ ~cycle.ended
    /\ cycle' = [cycle EXCEPT !.ended = TRUE]
    /\ UNCHANGED <<raised, deliveries, waiting, attribution, world, pass, repair, outside>>

\* evaluate_due_cycles, after the settlement grace; a locked cycle is skipped.
CloseCycle ==
    /\ cycle.ended /\ cycle.status = "active"
    /\ CycleIsFree
    /\ cycle' = [cycle EXCEPT !.status = "expired"]
    /\ UNCHANGED <<raised, deliveries, waiting, attribution, world, pass, repair, outside>>

----------------------------------------------------------------------------
(* A delivery pass.  Telegram's selection also names rows SENT without a    *)
(* message id; no writer leaves one, so none is due for that reason.        *)

Due_PendingOnly(ch) == {a \in Alerts : deliveries[<<a, ch>>].status = "PENDING"}
Due(ch) == {a \in Alerts :
    \/ deliveries[<<a, ch>>].status = "PENDING"
    \/ deliveries[<<a, ch>>].status = "FAILED_RETRYABLE" /\ <<a, ch>> \notin waiting}
Oldest(S) == {a \in S : Cardinality({b \in S : b < a}) < BatchSize}

Begin(p) ==
    LET chosen == Oldest(Due(ChannelOf[p]))
        loaded == [a \in Alerts |->
                      IF a \in chosen THEN deliveries[<<a, ChannelOf[p]>>] ELSE NoRow]
    IN /\ pass[p].at = "idle"
       /\ chosen # {}
       /\ pass' = [pass EXCEPT ![p] = [Idle EXCEPT !.at = "next",
              !.queue = chosen,
              !.read = loaded, !.write = loaded]]
       /\ UNCHANGED <<raised, deliveries, waiting, attribution, cycle, world,
                      repair, outside>>

\* Whether the provider took the message, and what the program makes of its
\* answer.  A transport error on the way to Telegram is no TelegramDeliveryError:
\* it is "uncaught" and ends the pass.  Every SMTP error is translated.
Answers_ErrorUnread(ch) ==
    {<<TRUE, "SENT">>, <<FALSE, "SENT">>, <<FALSE, "FAILED_PERMANENT">>}
Answers(ch) ==
    {<<TRUE, "SENT">>, <<TRUE, "FAILED_RETRYABLE">>, <<FALSE, "FAILED_RETRYABLE">>,
     <<FALSE, "FAILED_PERMANENT">>}
    \cup (IF ch = "telegram" THEN BOOLEAN \X {"uncaught"} ELSE {})

StatusAfter_OffByOne(answer, attempts) ==
    IF answer = "FAILED_RETRYABLE" /\ attempts > MaxAttempts
    THEN "FAILED_PERMANENT" ELSE answer
StatusAfter(answer, attempts) ==
    IF answer = "FAILED_RETRYABLE" /\ attempts >= MaxAttempts
    THEN "FAILED_PERMANENT" ELSE answer

\* What becomes of the row the pass has reached, in its memory.
Marked(p, row) == [pass[p] EXCEPT !.at = "flush", !.write = [@ EXCEPT ![Head(p)] = row]]

\* Telegram asks again whether the chat is linked, and cancels the row when it
\* is not; email sends to the address the row was queued with.
Cancel(p) ==
    /\ pass[p].at = "next" /\ pass[p].queue # {}
    /\ ChannelOf[p] = "telegram" /\ ~connected
    /\ pass' = [pass EXCEPT ![p] =
           Marked(p, [status |-> "CANCELED",
                      attempts |-> pass[p].write[Head(p)].attempts])]
    /\ UNCHANGED <<raised, deliveries, waiting, attribution, cycle, world,
                   repair, outside>>

Send(p, taken, answer) ==
    LET a == Head(p)
        r == <<a, ChannelOf[p]>>
        attempt == pass[p].write[a].attempts + 1
    IN /\ pass[p].at = "next" /\ pass[p].queue # {}
       /\ ChannelOf[p] = "telegram" => connected
       /\ <<taken, answer>> \in Answers(ChannelOf[p])
       /\ tries' = [o \in Observed |-> IF o = r THEN tries[o] + 1 ELSE tries[o]]
       /\ accepted' = IF taken THEN accepted \cup {r} ELSE accepted
       /\ \/ /\ answer # "uncaught"
             /\ pass' = [pass EXCEPT ![p] =
                    Marked(p, [status |-> StatusAfter(answer, attempt),
                               attempts |-> attempt])]
             /\ UNCHANGED faults
          \/ /\ answer = "uncaught" /\ "uncaught" \in Faults /\ faults < MaxFaults
             /\ pass' = [pass EXCEPT ![p] = Idle]
             /\ faults' = faults + 1
       /\ UNCHANGED <<raised, deliveries, waiting, attribution, cycle, world, repair>>

\* record_successful_delivery finds the alert's cycle still running, and then an
\* attribution that is still to be counted.
InCycle(a) == cycle.status = "active" /\ attribution[a] # "none"
Qualifies_Again(a) == InCycle(a)
Qualifies_NoGrace(a) == ~cycle.ended /\ attribution[a] = "generated"
Qualifies(a) == InCycle(a) /\ attribution[a] = "generated"

\* What the pass knows of the counter after a success.  The cycle is loaded for
\* every alert of it, and not refreshed while the session holds the object;
\* nothing but the session's weak reference holds one that was only looked at.
Loaded(p) ==
    LET a == Head(p)
    IN IF pass[p].write[a].status # "SENT" \/ ~InCycle(a) \/ pass[p].memory # Absent
       THEN {pass[p].memory}
       ELSE {cycle.delivered} \cup (IF Qualifies(a) THEN {} ELSE {Absent})

\* The next query flushes the row, waiting for another pass that holds it.
Flush(p) ==
    LET a == Head(p)
        counting == pass[p].write[a].status = "SENT" /\ Qualifies(a)
    IN /\ pass[p].at = "flush"
       /\ Granted(p)
       /\ \E known \in Loaded(p) :
              pass' = [pass EXCEPT
                  ![p].at = IF counting THEN "count" ELSE "next",
                  ![p].queue = IF counting THEN @ ELSE @ \ {a},
                  ![p].memory = known]
       /\ UNCHANGED <<raised, deliveries, waiting, attribution, cycle, world,
                      repair, outside>>

Count(p) ==
    LET a == Head(p)
    IN /\ pass[p].at = "count"
       /\ Granted(p)
       /\ pass' = [pass EXCEPT ![p].at = "next", ![p].queue = @ \ {a},
              ![p].memory = @ + 1, ![p].counted = @ \cup {a}]
       /\ UNCHANGED <<raised, deliveries, waiting, attribution, cycle, world,
                      repair, outside>>

\* A column that the pass did not change is not part of its UPDATE.
Column(read, write, stored) == IF write = read THEN stored ELSE write
Written(p, a) ==
    LET old == deliveries[<<a, ChannelOf[p]>>]
    IN [status |-> Column(pass[p].read[a].status, pass[p].write[a].status, old.status),
        attempts |-> Column(pass[p].read[a].attempts, pass[p].write[a].attempts,
                            old.attempts)]

Commit(p) ==
    LET Mine == {r \in Rows : r[2] = ChannelOf[p] /\ r[1] \in Dirty(p)}
    IN /\ pass[p].at = "next" /\ pass[p].queue = {}
       /\ deliveries' = [r \in Rows |->
              IF r \in Mine THEN Written(p, r[1]) ELSE deliveries[r]]
       /\ waiting' = (waiting \ Mine) \cup
              {r \in Mine : pass[p].write[r[1]].status = "FAILED_RETRYABLE"}
       /\ attribution' = [a \in Alerts |->
              IF a \in pass[p].counted THEN "qualifying_delivered" ELSE attribution[a]]
       /\ cycle' = IF pass[p].counted = {} THEN cycle
                   ELSE [cycle EXCEPT !.delivered = pass[p].memory]
       /\ pass' = [pass EXCEPT ![p] = Idle]
       /\ UNCHANGED <<raised, world, repair, outside>>

\* The worker dies, or its task is killed: the transaction is undone.
Crash(p) ==
    /\ pass[p].at # "idle" /\ "crash" \in Faults /\ faults < MaxFaults
    /\ pass' = [pass EXCEPT ![p] = Idle]
    /\ faults' = faults + 1
    /\ UNCHANGED <<raised, deliveries, waiting, attribution, cycle, world, repair,
                   tries, accepted>>

\* Two passes that wait for each other: the database ends one of them.
Deadlocked(p) ==
    /\ \E q \in Passes \ {p} : Waits(p, q) /\ Waits(q, p)
    /\ pass' = [pass EXCEPT ![p] = Idle]
    /\ UNCHANGED <<raised, deliveries, waiting, attribution, cycle, world, repair, outside>>

----------------------------------------------------------------------------
(* repair_cycle_counters: a recount, and the write of what differs.        *)

RepairRead_OnlyDown ==
    /\ repair = Absent
    /\ cycle.delivered > Cardinality(Counted)
    /\ repair' = Cardinality(Counted)
    /\ UNCHANGED <<raised, deliveries, waiting, attribution, cycle, world, pass, outside>>
RepairRead ==
    /\ repair = Absent
    /\ cycle.delivered # Cardinality(Counted)
    /\ repair' = Cardinality(Counted)
    /\ UNCHANGED <<raised, deliveries, waiting, attribution, cycle, world, pass, outside>>

RepairWrite ==
    /\ repair # Absent
    /\ CycleIsFree
    /\ cycle' = [cycle EXCEPT !.delivered = repair]
    /\ repair' = Absent
    /\ UNCHANGED <<raised, deliveries, waiting, attribution, world, pass, outside>>

----------------------------------------------------------------------------
PassStep(p) ==
    \/ Cancel(p)
    \/ \E taken \in BOOLEAN, answer \in Statuses \cup {"uncaught"} :
           Send(p, taken, answer)
    \/ Flush(p)
    \/ Count(p)
    \/ Commit(p)

Next ==
    \/ Raise
    \/ ChangeLink
    \/ \E r \in Rows : BackoffElapses(r)
    \/ EndCycle
    \/ CloseCycle
    \/ \E p \in Passes : Begin(p) \/ PassStep(p) \/ Crash(p) \/ Deadlocked(p)
    \/ RepairRead
    \/ RepairWrite

Spec == Init /\ [][Next]_vars

\* Beat starts every task again and again; a task that runs makes progress, and
\* a lock that is waited for is granted when its holder ends.
Fairness ==
    /\ \A r \in Rows : WF_vars(BackoffElapses(r))
    /\ \A p \in Passes : WF_vars(Begin(p)) /\ SF_vars(PassStep(p))
                        /\ WF_vars(Deadlocked(p))
    /\ WF_vars(RepairRead)
    /\ SF_vars(RepairWrite)
FairSpec == Spec /\ Fairness

----------------------------------------------------------------------------
TypeOK ==
    /\ raised \in 0 .. AlertCount
    /\ deliveries \in [Rows -> Row]
    /\ waiting \subseteq Rows
    /\ attribution \in [Alerts -> {"none", "generated", "qualifying_delivered"}]
    /\ cycle \in [status : {"active", "expired"}, ended : BOOLEAN, delivered : Nat]
    /\ connected \in BOOLEAN /\ links \in 0 .. MaxLinkChanges
    /\ pass \in [Passes -> Pass]
    /\ repair \in Nat \cup {Absent}
    /\ tries \in [Observed -> Nat] /\ accepted \subseteq Rows
    /\ faults \in 0 .. MaxFaults

\* A row that says sent is a message the provider took, and an alert counted
\* against the trial is one that some channel took, whichever pass wrote last
\* and whatever was undone in between.
RecordedIsReal ==
    /\ \A r \in Rows : deliveries[r].status = "SENT" => r \in accepted
    /\ \A a \in Counted : \E ch \in Chosen : <<a, ch>> \in accepted

\* The counter that the trial cap reads never runs ahead of the alerts that
\* were delivered: an alert delivered on two channels counts once, and a
\* recount that comes late does no harm.
NeverOverstated == cycle.delivered <= Cardinality(Counted)

\* A sent alert of the cycle is counted unless the cycle was closed first;
\* reconcile_alert_deliveries finds nothing left to do.
SentIsCounted ==
    \A a \in Alerts, ch \in Chosen :
        deliveries[<<a, ch>>].status = "SENT" /\ attribution[a] = "generated"
            => cycle.status = "expired"

\* Every queued message is in the end sent, given up on or canceled, and stays
\* so: behind whatever failures of its own and of its neighbours, and although
\* a pass that overlaps may put a finished row back to retrying.
Settles ==
    <>[](\A r \in Rows : deliveries[r].status \notin {"PENDING", "FAILED_RETRYABLE"})

\* Increments that passes lose are found again: the counter ends up exact.
CounterSettles == <>[](cycle.delivered = Cardinality(Counted))

\* What alert_emails.py says of both channels: five attempts, and then a
\* delivery is given up on.
TriesWithinBudget == \A r \in Observed : tries[r] <= MaxAttempts

=============================================================================
