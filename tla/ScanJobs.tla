------------------------------ MODULE ScanJobs ------------------------------
(***************************************************************************)
(* The scan-job queue: how one check of one monitor for one candle is      *)
(* scheduled, dispatched, claimed, run symbol by symbol, retried, recovered *)
(* after a crash, expired and purged.                                      *)
(*                                                                         *)
(* Three kinds of process share the scan_jobs table.  Beat tasks (the      *)
(* scheduler, the stale-job recovery and the nightly retention) commit row  *)
(* changes and publish messages afterwards; Celery workers receive the      *)
(* messages, claim rows and write one transaction per symbol.  Every action *)
(* is one committed transaction, or one message sent or received.  The     *)
(* clock is abstracted to the three comparisons the code makes with it: is  *)
(* a heartbeat stale, is a retry due, is a row past the abandonment window. *)
(***************************************************************************)
EXTENDS Integers, FiniteSets

CONSTANTS
    Versions,            \* strategy versions, each one a monitor
    ExperimentVersions,  \* the versions that also run in an experiment
    LastBucket,          \* bound: the last candle bucket explored
    Symbols,             \* the screened universe of every monitor
    Workers,             \* Celery worker processes
    MaxAttempts,         \* settings.scan_job_max_attempts
    Schedulers,          \* how many schedule_due passes may overlap
    SlowWorkers,         \* may a worker outlive its claim timeout and go on?
    Backlog,             \* may a row reach the abandonment window although
                         \* its message or its worker is still alive?
    NoJob                \* what an idle worker works on

ASSUME ConstantsAssumption ==
    /\ ExperimentVersions \subseteq Versions
    /\ LastBucket \in Nat
    /\ IsFiniteSet(Symbols) /\ IsFiniteSet(Workers)
    /\ MaxAttempts \in Nat \ {0}
    /\ Schedulers \in Nat \ {0}
    /\ SlowWorkers \in BOOLEAN /\ Backlog \in BOOLEAN

VARIABLES
    bucket,       \* the candle bucket the wall clock is in
    active,       \* versions whose strategy is ACTIVE
    experiments,  \* versions of a running experiment
    planned,      \* keys a schedule_due pass found due and has not inserted yet
    job,          \* the scan_jobs rows, by idempotency key
    results,      \* the symbols of each job with a scan_results row
    usage,        \* the "symbols_scanned" usage record of each job
    beat,         \* keys a beat task committed and has not published yet
    broker,       \* keys with a deliverable run_scan_job message
    worker        \* the in-memory state of each worker

vars == <<bucket, active, experiments, planned, job, results, usage, beat,
          broker, worker>>

----------------------------------------------------------------------------
(* A job's identity is its idempotency key: who asked, which version, and   *)
(* the candle bucket it was scheduled for.                                  *)
Keys == [kind: {"live"}, version: Versions, bucket: 0 .. LastBucket]
        \cup [kind: {"experiment"}, version: ExperimentVersions,
              bucket: 0 .. LastBucket]

ASSUME NoJobAssumption == NoJob \notin Keys

InFlight == {"queued", "running"}
Terminal == {"succeeded", "partial", "failed", "canceled"}
Statuses == {"absent", "purged"} \cup InFlight \cup Terminal

FailureKinds == {"retryable", "permanent"}
ErrorCodes == {"none", "stale_running_job_exhausted",
               "stale_running_job_recovered", "scan_job_abandoned",
               "gate_refused", "retryable_provider_failure",
               "partial_symbol_failures", "all_symbols_failed", "exception"}

NotMetered == -1

NoRow == [status |-> "absent", heartbeat |-> "none", retry |-> "none",
          attempts |-> 0, reason |-> "none", abandoned |-> FALSE]
QueuedRow == [NoRow EXCEPT !.status = "queued"]

Idle == [pc |-> "idle", key |-> NoJob, attempt |-> 0, pending |-> {},
         scanned |-> 0, failures |-> {}]

WorkingOn(k) == {w \in Workers : worker[w].key = k}
LiveKeys(v) == {k \in Keys : k.kind = "live" /\ k.version = v}
LiveInFlight(v) == {k \in LiveKeys(v) : job[k].status \in InFlight}

Init ==
    /\ bucket = 0
    /\ active \in SUBSET Versions
    /\ experiments \in SUBSET ExperimentVersions
    /\ planned = {}
    /\ job = [k \in Keys |-> NoRow]
    /\ results = [k \in Keys |-> {}]
    /\ usage = [k \in Keys |-> NotMetered]
    /\ beat = {}
    /\ broker = {}
    /\ worker = [w \in Workers |-> Idle]

----------------------------------------------------------------------------
(* The environment: users and other services switch monitors on and off,    *)
(* and time passes.                                                         *)
ToggleMonitor(v) ==
    /\ \/ active' = active \cup {v}
       \/ active' = active \ {v}
    /\ UNCHANGED <<bucket, experiments, planned, job, results, usage, beat,
                   broker, worker>>

ToggleExperiment(v) ==
    /\ \/ experiments' = experiments \cup {v}
       \/ experiments' = experiments \ {v}
    /\ UNCHANGED <<bucket, active, planned, job, results, usage, beat, broker,
                   worker>>

NextBucket ==
    /\ bucket < LastBucket
    /\ bucket' = bucket + 1
    /\ UNCHANGED <<active, experiments, planned, job, results, usage, beat,
                   broker, worker>>

\* The claim timeout passes without a heartbeat.  Only a slow worker can be
\* alive at that moment.
HeartbeatGoesStale(k) ==
    /\ job[k].heartbeat = "fresh"
    /\ job[k].status = "running"
    /\ SlowWorkers \/ WorkingOn(k) = {}
    /\ job' = [job EXCEPT ![k].heartbeat = "stale"]
    /\ UNCHANGED <<bucket, active, experiments, planned, results, usage, beat,
                   broker, worker>>

RetryFallsDue(k) ==
    /\ job[k].retry = "later"
    /\ job' = [job EXCEPT ![k].retry = "due"]
    /\ UNCHANGED <<bucket, active, experiments, planned, results, usage, beat,
                   broker, worker>>

\* created_at falls behind the abandonment window.
GrowsOld(k) ==
    /\ job[k].status \in InFlight /\ ~job[k].abandoned
    /\ job' = [job EXCEPT ![k].abandoned = TRUE]
    /\ UNCHANGED <<bucket, active, experiments, planned, results, usage, beat,
                   broker, worker>>

\* The row the window was made for: queued, and no message, retry time or
\* worker will ever move it.
Unattended(k) ==
    /\ job[k].status = "queued" /\ job[k].retry = "none"
    /\ k \notin beat \cup broker /\ WorkingOn(k) = {}

\* The code looks at created_at alone.  That a row which something can still
\* move has left the queue by then is an assumption about the deployment,
\* which Backlog drops.
AgesOut(k) == (Backlog \/ Unattended(k)) /\ GrowsOld(k)

----------------------------------------------------------------------------
(* Beat tasks.                                                              *)

\* Mutant: the in-flight rule looks at running jobs only.
Free_ForgetsQueued(v) == \A k \in LiveKeys(v) : job[k].status # "running"

Free(v) == \A k \in LiveKeys(v) : job[k].status \notin InFlight

\* schedule_due, up to its insert: the monitor is active, nothing of it is
\* in flight and this bucket has no row yet.
FindDue(v) ==
    LET k == [kind |-> "live", version |-> v, bucket |-> bucket] IN
    /\ v \in active
    /\ Free(v)
    /\ job[k].status = "absent"
    /\ Cardinality(planned) < Schedulers
    /\ planned' = planned \cup {k}
    /\ UNCHANGED <<bucket, active, experiments, job, results, usage, beat,
                   broker, worker>>

\* The insert and commit; the unique key makes a second insert a no-op.
InsertPlanned(k) ==
    /\ k \in planned
    /\ planned' = planned \ {k}
    /\ IF job[k].status = "absent"
       THEN /\ job' = [job EXCEPT ![k] = QueuedRow]
            /\ beat' = beat \cup {k}
       ELSE UNCHANGED <<job, beat>>
    /\ UNCHANGED <<bucket, active, experiments, results, usage, broker, worker>>

\* schedule_due_experiments has no in-flight rule: one job per bucket.
ScheduleExperiment(v) ==
    LET k == [kind |-> "experiment", version |-> v, bucket |-> bucket] IN
    /\ v \in experiments
    /\ job[k].status = "absent"
    /\ job' = [job EXCEPT ![k] = QueuedRow]
    /\ beat' = beat \cup {k}
    /\ UNCHANGED <<bucket, active, experiments, planned, results, usage, broker,
                   worker>>

\* Mutant: the error code goes into the status column.
Failed_CodeAsStatus(row, why) == [row EXCEPT !.status = why]

Failed(row, why) == [row EXCEPT !.status = "failed", !.reason = why]

\* Mutant: one recovery too many.
Exhausted_OffByOne(k) == job[k].attempts > MaxAttempts

Exhausted(k) == job[k].attempts >= MaxAttempts

\* Mutant: the recovered row gets no retry time.
Recovered_NoRetryTime(row) ==
    [row EXCEPT !.status = "queued", !.heartbeat = "none"]

Recovered(row) ==
    [row EXCEPT !.status = "queued", !.heartbeat = "none", !.retry = "due",
                !.reason = "stale_running_job_recovered"]

\* recover_stale_or_retryable: a row whose worker stopped reporting.
RecoverStale(k) ==
    /\ job[k].status = "running" /\ job[k].heartbeat = "stale"
    /\ \/ /\ Exhausted(k)
          /\ job' = [job EXCEPT ![k] =
                        Failed(@, "stale_running_job_exhausted")]
          /\ UNCHANGED beat
       \/ /\ ~Exhausted(k)
          /\ job' = [job EXCEPT ![k] = Recovered(@)]
          /\ beat' = beat \cup {k}
    /\ UNCHANGED <<bucket, active, experiments, planned, results, usage, broker,
                   worker>>

\* recover_stale_or_retryable: a queued row whose retry time has passed.
RecoverRetry(k) ==
    /\ job[k].status = "queued" /\ job[k].retry = "due"
    /\ beat' = beat \cup {k}
    /\ UNCHANGED <<bucket, active, experiments, planned, job, results, usage,
                   broker, worker>>

\* Mutant: only the rows some worker claimed.
Abandoned_ClaimedOnly(k) == job[k].status = "running" /\ job[k].abandoned

Abandoned(k) == job[k].status \in InFlight /\ job[k].abandoned

\* ScanRetentionService.expire_abandoned.
ExpireAbandoned(k) ==
    /\ Abandoned(k)
    /\ job' = [job EXCEPT ![k] = Failed(@, "scan_job_abandoned")]
    /\ UNCHANGED <<bucket, active, experiments, planned, results, usage, beat,
                   broker, worker>>

\* ScanRetentionService.purge_expired: the row goes, its results cascade.  The
\* retention window (at least a day) is no shorter than a candle and far longer
\* than the hard time limit of a task.
PurgeExpired(k) ==
    /\ job[k].status \in Terminal
    /\ k.bucket < bucket
    /\ WorkingOn(k) = {}
    /\ job' = [job EXCEPT ![k].status = "purged"]
    /\ results' = [results EXCEPT ![k] = {}]
    /\ UNCHANGED <<bucket, active, experiments, planned, usage, beat, broker,
                   worker>>

\* The .delay(...) calls that follow a beat task's commit.
Publish(k) ==
    /\ k \in beat
    /\ beat' = beat \ {k}
    /\ broker' = broker \cup {k}
    /\ UNCHANGED <<bucket, active, experiments, planned, job, results, usage,
                   worker>>

\* A beat task dies: what it has not committed or not published is gone.
BeatCrash ==
    /\ beat # {} \/ planned # {}
    /\ beat' = {}
    /\ planned' = {}
    /\ UNCHANGED <<bucket, active, experiments, job, results, usage, broker,
                   worker>>

----------------------------------------------------------------------------
(* Workers.                                                                 *)

\* Mutants: the claim takes a running row, or takes any row that is not running.
Claimable_Running(k) == job[k].status \in InFlight /\ job[k].retry # "later"
Claimable_NotRunning(k) == job[k].status # "running" /\ job[k].retry # "later"

Claimable(k) == job[k].status = "queued" /\ job[k].retry # "later"

\* A delivery takes the message, unless the broker holds another copy.
TakeMessage(k) == broker' \in {broker, broker \ {k}}

Claimed(row) ==
    [row EXCEPT !.status = "running", !.heartbeat = "fresh", !.attempts = @ + 1]

Started(k) == [pc |-> "claimed", key |-> k, attempt |-> job[k].attempts + 1,
               pending |-> {}, scanned |-> 0, failures |-> {}]

\* run_job's claim: the row lock, the status and retry checks, the commit.
Claim(w, k) ==
    /\ worker[w].pc = "idle"
    /\ k \in broker
    /\ Claimable(k)
    /\ TakeMessage(k)
    /\ job' = [job EXCEPT ![k] = Claimed(@)]
    /\ worker' = [worker EXCEPT ![w] = Started(k)]
    /\ UNCHANGED <<bucket, active, experiments, planned, results, usage, beat>>

\* A delivery that claims nothing and is acknowledged: the row is not
\* claimable, its lock is held by another session, or scanning is disabled in
\* the worker that received it.
DropDelivery(k) ==
    /\ k \in broker
    /\ broker' = broker \ {k}
    /\ UNCHANGED <<bucket, active, experiments, planned, job, results, usage,
                   beat, worker>>

GateOpen(k) ==
    \/ k.kind = "live" /\ k.version \in active
    \/ k.kind = "experiment" /\ k.version \in experiments

\* _cancel_job.
Canceled(row) == [row EXCEPT !.status = "canceled", !.retry = "none",
                             !.reason = "gate_refused"]

\* The gates of _run_claimed_job refuse a monitor that is no longer active.
CancelAtGate(w) ==
    LET k == worker[w].key IN
    /\ worker[w].pc = "claimed"
    /\ ~GateOpen(k)
    /\ job' = [job EXCEPT ![k] = Canceled(@)]
    /\ worker' = [worker EXCEPT ![w] = Idle]
    /\ UNCHANGED <<bucket, active, experiments, planned, results, usage, beat,
                   broker>>

\* _degrade_strategy: an active monitor fails approval, capability,
\* entitlement, provider or compliance checks; it is paused with its job.
DegradeAtGate(w) ==
    LET k == worker[w].key IN
    /\ worker[w].pc = "claimed"
    /\ GateOpen(k)
    /\ active' = active \ {k.version}
    /\ job' = [job EXCEPT ![k] = Canceled(@)]
    /\ worker' = [worker EXCEPT ![w] = Idle]
    /\ UNCHANGED <<bucket, experiments, planned, results, usage, beat, broker>>

\* Mutant: a resumed attempt counts from zero.
AlreadyScanned_Zero(k) == 0

AlreadyScanned(k) == Cardinality(results[k])

Resumed(me) ==
    [me EXCEPT !.pc = "scanning", !.pending = Symbols \ results[me.key],
               !.scanned = AlreadyScanned(me.key)]

\* The gates pass; symbols an earlier attempt already answered are skipped.
PassGate(w) ==
    LET k == worker[w].key IN
    /\ worker[w].pc = "claimed"
    /\ GateOpen(k)
    /\ worker' = [worker EXCEPT ![w] = Resumed(@)]
    /\ UNCHANGED <<bucket, active, experiments, planned, job, results, usage,
                   beat, broker>>

Heartbeat(row) == [row EXCEPT !.heartbeat = "fresh"]

WithResult(me, s) == [me EXCEPT !.pending = @ \ {s}, !.scanned = @ + 1]

\* One symbol evaluated and persisted.
ScanSymbol(w, s) ==
    LET k == worker[w].key IN
    /\ worker[w].pc = "scanning"
    /\ s \in worker[w].pending
    /\ s \notin results[k]
    /\ results' = [results EXCEPT ![k] = @ \cup {s}]
    /\ job' = [job EXCEPT ![k] = Heartbeat(@)]
    /\ worker' = [worker EXCEPT ![w] = WithResult(@, s)]
    /\ UNCHANGED <<bucket, active, experiments, planned, usage, beat, broker>>

\* Mutant: the counter is raised before the row is persisted.
WithFailure_Counted(me, s, kind) ==
    [me EXCEPT !.pending = @ \ {s}, !.scanned = @ + 1,
               !.failures = @ \cup {kind}]

WithFailure(me, s, kind) ==
    [me EXCEPT !.pending = @ \ {s}, !.failures = @ \cup {kind}]

\* One symbol failed: the provider did, retryably or not, or the unique key
\* uq_scan_result_market refused a row another worker had already written.
FailSymbol(w, s) ==
    /\ worker[w].pc = "scanning"
    /\ s \in worker[w].pending
    /\ \E kind \in FailureKinds :
          worker' = [worker EXCEPT ![w] = WithFailure(@, s, kind)]
    /\ job' = [job EXCEPT ![worker[w].key] = Heartbeat(@)]
    /\ UNCHANGED <<bucket, active, experiments, planned, results, usage, beat,
                   broker>>

Requeues(me) ==
    me.failures = {"retryable"} /\ me.scanned = 0 /\ me.attempt < MaxAttempts

\* Mutant: a check that scanned anything is a success.
Verdict_Lenient(me) ==
    IF me.failures = {} \/ me.scanned > 0
    THEN [status |-> "succeeded", reason |-> "none"]
    ELSE [status |-> "failed", reason |-> "all_symbols_failed"]

Verdict(me) ==
    CASE me.failures = {} -> [status |-> "succeeded", reason |-> "none"]
      [] me.failures # {} /\ me.scanned > 0 ->
            [status |-> "partial", reason |-> "partial_symbol_failures"]
      [] OTHER -> [status |-> "failed", reason |-> "all_symbols_failed"]

Requeued(row) ==
    [row EXCEPT !.status = "queued", !.heartbeat = "none", !.retry = "later",
                !.reason = "retryable_provider_failure"]
Finished(row, me) ==
    [row EXCEPT !.status = Verdict(me).status, !.reason = Verdict(me).reason,
                !.retry = IF me.failures = {} THEN "none" ELSE @]

\* UsageService.record under the key scan:<job id>:symbols: the first wins.
Metered(k, quantity) ==
    [usage EXCEPT ![k] = IF @ = NotMetered THEN quantity ELSE @]

\* The end of _run_claimed_job.  Nothing checks that the row is still this
\* worker's: the attempt count compared is the one it claimed with.
FinishScan(w) ==
    LET k == worker[w].key
        me == worker[w] IN
    /\ me.pc = "scanning" /\ me.pending = {}
    /\ job' = [job EXCEPT ![k] = IF Requeues(me) THEN Requeued(@)
                                 ELSE Finished(@, me)]
    /\ usage' = IF Requeues(me) THEN usage ELSE Metered(k, me.scanned)
    /\ worker' = [worker EXCEPT ![w] = Idle]
    /\ UNCHANGED <<bucket, active, experiments, planned, results, beat, broker>>

\* _fail_claimed_job: an exception outside the per-symbol handler.
FailClaimed(w) ==
    LET k == worker[w].key IN
    /\ worker[w].pc # "idle"
    /\ job' = [job EXCEPT ![k] = [Failed(@, "exception") EXCEPT !.retry = "none"]]
    /\ worker' = [worker EXCEPT ![w] = Idle]
    /\ UNCHANGED <<bucket, active, experiments, planned, results, usage, beat,
                   broker>>

\* The process is killed (memory, hard time limit, deployment).  Late
\* acknowledgement may hand its message to another worker.
WorkerCrash(w) ==
    /\ worker[w].pc # "idle"
    /\ worker' = [worker EXCEPT ![w] = Idle]
    /\ broker' \in {broker, broker \cup {worker[w].key}}
    /\ UNCHANGED <<bucket, active, experiments, planned, job, results, usage,
                   beat>>

----------------------------------------------------------------------------
Environment ==
    \/ \E v \in Versions : ToggleMonitor(v)
    \/ \E v \in ExperimentVersions : ToggleExperiment(v)
    \/ NextBucket
    \/ \E k \in Keys : HeartbeatGoesStale(k) \/ RetryFallsDue(k) \/ AgesOut(k)

BeatTask ==
    \/ \E v \in Versions : FindDue(v)
    \/ \E v \in ExperimentVersions : ScheduleExperiment(v)
    \/ \E k \in Keys :
          \/ InsertPlanned(k) \/ RecoverStale(k) \/ RecoverRetry(k)
          \/ ExpireAbandoned(k) \/ PurgeExpired(k) \/ Publish(k)
    \/ BeatCrash

WorkerStep(w) ==
    \/ \E k \in Keys : Claim(w, k)
    \/ CancelAtGate(w) \/ DegradeAtGate(w) \/ PassGate(w)
    \/ \E s \in Symbols : ScanSymbol(w, s) \/ FailSymbol(w, s)
    \/ FinishScan(w) \/ FailClaimed(w) \/ WorkerCrash(w)

Next ==
    \/ Environment
    \/ BeatTask
    \/ \E k \in Keys : DropDelivery(k)
    \/ \E w \in Workers : WorkerStep(w)

Spec == Init /\ [][Next]_vars

----------------------------------------------------------------------------
(* Properties.                                                              *)

Rows == [status : Statuses, heartbeat : {"none", "fresh", "stale"},
         retry : {"none", "later", "due"}, attempts : Nat,
         reason : ErrorCodes, abandoned : BOOLEAN]
Executions == [pc : {"idle", "claimed", "scanning"}, key : Keys \cup {NoJob},
               attempt : Nat, pending : SUBSET Symbols, scanned : Nat,
               failures : SUBSET FailureKinds]

(* The type invariant: rows, messages and workers have their shapes, and a   *)
(* worker has a job exactly when it is not idle.                             *)
TypeOK ==
    /\ bucket \in 0 .. LastBucket
    /\ active \subseteq Versions
    /\ experiments \subseteq ExperimentVersions
    /\ planned \subseteq Keys
    /\ job \in [Keys -> Rows]
    /\ results \in [Keys -> SUBSET Symbols]
    /\ usage \in [Keys -> Nat \cup {NotMetered}]
    /\ beat \subseteq Keys
    /\ broker \subseteq Keys
    /\ worker \in [Workers -> Executions]
    /\ \A w \in Workers : worker[w].pc = "idle" <=> worker[w].key = NoJob

(* What holds however workers and beat tasks overlap.                       *)

(* A job reported succeeded has a result for every symbol of its universe,   *)
(* whichever workers, attempts and overlaps wrote them.                      *)
SucceededIsComplete ==
    \A k \in Keys : job[k].status = "succeeded" => results[k] = Symbols

(* A user is never metered for more symbols than have a persisted result.    *)
UsageIsBacked ==
    \A k \in Keys :
        job[k].status # "purged" => usage[k] <= Cardinality(results[k])

(* The recovery pass can see every job that was ever claimed and is still in *)
(* flight: a running row has a heartbeat to go stale, a requeued row has a   *)
(* retry time.  Only a first dispatch depends on its message.                *)
RecoveryCanSeeIt ==
    \A k \in Keys :
        /\ job[k].status = "running" => job[k].heartbeat # "none"
        /\ job[k].status = "queued" /\ job[k].attempts > 0
              => job[k].retry # "none"

(* Overlapping workers can push a job past max_attempts, because each one    *)
(* compares the count it claimed with; they cannot push it past twice that.  *)
AttemptsBounded ==
    \A k \in Keys : job[k].attempts <= 2 * MaxAttempts - 1

(* What the claim protocol is for: it holds when no worker outlives its      *)
(* claim timeout.  TerminalIsFinal and the lifecycle also need that no row   *)
(* waits out the abandonment window.                                         *)

(* One worker at a time runs a job.                                          *)
SingleExecution ==
    \A v, w \in Workers :
        worker[v].pc # "idle" /\ worker[v].key = worker[w].key => v = w

(* At most one live check of a monitor is queued or running.                 *)
OneLiveInFlight == \A v \in Versions : Cardinality(LiveInFlight(v)) <= 1

(* The symbol counts agree: a finished check was metered for exactly the     *)
(* results it left, and one that reports that all symbols failed left none.  *)
CountsAgree ==
    \A k \in Keys :
        /\ job[k].status \in {"succeeded", "partial"}
              => usage[k] = Cardinality(results[k])
        /\ job[k].status = "failed" /\ job[k].reason = "all_symbols_failed"
              => results[k] = {}

(* A terminal row is never written again: it can only be purged.             *)
TerminalIsFinal ==
    [][\A k \in Keys :
          job[k].status \in Terminal =>
              \/ job'[k] = job[k]
              \/ job'[k] = [job[k] EXCEPT !.status = "purged"]]_vars

(* The expiry never fails a row that a worker is running, as its docstring   *)
(* says; the code does not keep this in a backlog.                           *)
ExpiryOnlyHitsLostJobs ==
    [][\A k \in Keys :
          /\ job[k].reason # "scan_job_abandoned"
          /\ job'[k].reason = "scan_job_abandoned"
          => WorkingOn(k) = {}]_vars

(* The queue as its users see it: ScanJobLifecycle, with the status column   *)
(* read as a phase.                                                          *)
PhaseOf(status) ==
    CASE status = "absent" -> "none"
      [] status = "queued" -> "waiting"
      [] status = "running" -> "running"
      [] status \in Terminal -> "settled"
      [] status = "purged" -> "forgotten"

Lifecycle ==
    INSTANCE ScanJobLifecycle WITH
        Jobs <- Keys,
        Exclusive <- {LiveKeys(v) : v \in Versions},
        phase <- [k \in Keys |-> PhaseOf(job[k].status)],
        tries <- [k \in Keys |-> job[k].attempts]

(* The queue implements the abstract lifecycle.                              *)
ImplementsLifecycle == Lifecycle!Spec

(* Every job in flight eventually leaves the queue, whatever was lost.       *)
Settles ==
    \A k \in Keys :
        job[k].status \in InFlight ~> job[k].status \notin InFlight

----------------------------------------------------------------------------
(* The scheduling the deployment provides: time passes, beat runs its tasks  *)
(* and does not die in every one of them, the broker delivers what it holds, *)
(* and a worker that is not killed keeps working.                            *)
Fairness ==
    /\ \A k \in Keys :
          /\ WF_vars(HeartbeatGoesStale(k)) /\ WF_vars(RetryFallsDue(k))
          /\ WF_vars(AgesOut(k))
          /\ WF_vars(RecoverStale(k)) /\ WF_vars(RecoverRetry(k))
          /\ WF_vars(ExpireAbandoned(k))
          /\ SF_vars(Publish(k))
          /\ SF_vars(\E w \in Workers : Claim(w, k))
    /\ \A w \in Workers :
          /\ WF_vars(CancelAtGate(w) \/ DegradeAtGate(w) \/ PassGate(w))
          /\ WF_vars(\E s \in Symbols : ScanSymbol(w, s) \/ FailSymbol(w, s))
          /\ WF_vars(FinishScan(w))

FairSpec == Spec /\ Fairness
=============================================================================
