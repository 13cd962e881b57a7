----------------------- MODULE ScanJobsOrderlyProofs -----------------------
(***************************************************************************)
(* Theorems about what the claim protocol of ScanJobs is for: one worker at *)
(* a time, one live check of a monitor, counts that agree, rows that stay   *)
(* settled, and that the queue implements ScanJobLifecycle.  All of them    *)
(* are about workers that do not outlive their claims and rows that do not  *)
(* wait out the abandonment window; each theorem names what it needs.       *)
(***************************************************************************)
EXTENDS ScanJobsProofs

----------------------------------------------------------------------------
(* What each rewrite of a row leaves in the columns the proofs look at.      *)
LEMMA WrittenRows ==
    ASSUME NEW row \in Rows
    PROVE  /\ \A why : /\ Failed(row, why).status = "failed"
                       /\ Failed(row, why).reason = why
                       /\ Failed(row, why).attempts = row.attempts
                       /\ Failed(row, why).retry = row.retry
                       /\ Failed(row, why).heartbeat = row.heartbeat
                       /\ Failed(row, why).abandoned = row.abandoned
           /\ Recovered(row).status = "queued" /\ Recovered(row).retry = "due"
           /\ Recovered(row).attempts = row.attempts
           /\ Recovered(row).reason = "stale_running_job_recovered"
           /\ Recovered(row).abandoned = row.abandoned
           /\ Claimed(row).status = "running" /\ Claimed(row).heartbeat = "fresh"
           /\ Claimed(row).attempts = row.attempts + 1
           /\ Claimed(row).retry = row.retry /\ Claimed(row).reason = row.reason
           /\ Claimed(row).abandoned = row.abandoned
           /\ Canceled(row).status = "canceled" /\ Canceled(row).retry = "none"
           /\ Canceled(row).attempts = row.attempts
           /\ Canceled(row).reason = "gate_refused"
           /\ Canceled(row).abandoned = row.abandoned
           /\ Heartbeat(row).status = row.status /\ Heartbeat(row).retry = row.retry
           /\ Heartbeat(row).attempts = row.attempts
           /\ Heartbeat(row).reason = row.reason /\ Heartbeat(row).heartbeat = "fresh"
           /\ Heartbeat(row).abandoned = row.abandoned
           /\ Requeued(row).status = "queued" /\ Requeued(row).retry = "later"
           /\ Requeued(row).attempts = row.attempts
           /\ Requeued(row).reason = "retryable_provider_failure"
           /\ Requeued(row).abandoned = row.abandoned
<1> USE DEF Rows
<1>1. \A why : /\ Failed(row, why).status = "failed"
               /\ Failed(row, why).reason = why
               /\ Failed(row, why).attempts = row.attempts
               /\ Failed(row, why).retry = row.retry
               /\ Failed(row, why).heartbeat = row.heartbeat
               /\ Failed(row, why).abandoned = row.abandoned
  BY DEF Failed
<1>2. /\ Recovered(row).status = "queued" /\ Recovered(row).retry = "due"
      /\ Recovered(row).attempts = row.attempts
      /\ Recovered(row).reason = "stale_running_job_recovered"
      /\ Recovered(row).abandoned = row.abandoned
  BY DEF Recovered
<1>3. /\ Claimed(row).status = "running" /\ Claimed(row).heartbeat = "fresh"
      /\ Claimed(row).attempts = row.attempts + 1
      /\ Claimed(row).retry = row.retry /\ Claimed(row).reason = row.reason
      /\ Claimed(row).abandoned = row.abandoned
  BY DEF Claimed
<1>4. /\ Canceled(row).status = "canceled" /\ Canceled(row).retry = "none"
      /\ Canceled(row).attempts = row.attempts
      /\ Canceled(row).reason = "gate_refused"
      /\ Canceled(row).abandoned = row.abandoned
  BY DEF Canceled
<1>5. /\ Heartbeat(row).status = row.status /\ Heartbeat(row).retry = row.retry
      /\ Heartbeat(row).attempts = row.attempts
      /\ Heartbeat(row).reason = row.reason /\ Heartbeat(row).heartbeat = "fresh"
      /\ Heartbeat(row).abandoned = row.abandoned
  BY DEF Heartbeat
<1>6. /\ Requeued(row).status = "queued" /\ Requeued(row).retry = "later"
      /\ Requeued(row).attempts = row.attempts
      /\ Requeued(row).reason = "retryable_provider_failure"
      /\ Requeued(row).abandoned = row.abandoned
  BY DEF Requeued
<1> QED BY <1>1, <1>2, <1>3, <1>4, <1>5, <1>6

\* The row of an attempt that ended with an exception.
Excepted(row) == [Failed(row, "exception") EXCEPT !.retry = "none"]

LEMMA VerdictRows ==
    ASSUME NEW row \in Rows, NEW me \in Executions
    PROVE  /\ Finished(row, me).status = Verdict(me).status
           /\ Finished(row, me).reason = Verdict(me).reason
           /\ Finished(row, me).attempts = row.attempts
           /\ Finished(row, me).retry \in {"none", row.retry}
           /\ Finished(row, me).abandoned = row.abandoned
           /\ Verdict(me).status \in {"succeeded", "partial", "failed"}
           /\ Verdict(me).reason \in {"none", "partial_symbol_failures", "all_symbols_failed"}
           /\ Verdict(me).status = "failed" => me.scanned = 0
           /\ Excepted(row).status = "failed" /\ Excepted(row).reason = "exception"
           /\ Excepted(row).attempts = row.attempts /\ Excepted(row).retry = "none"
           /\ Excepted(row).abandoned = row.abandoned
<1>1. /\ Verdict(me).status \in {"succeeded", "partial", "failed"}
      /\ Verdict(me).reason \in {"none", "partial_symbol_failures", "all_symbols_failed"}
      /\ Verdict(me).status = "failed" => me.scanned = 0
  BY DEF Verdict, Executions
<1>2. /\ Finished(row, me).status = Verdict(me).status
      /\ Finished(row, me).reason = Verdict(me).reason
      /\ Finished(row, me).attempts = row.attempts
      /\ Finished(row, me).retry \in {"none", row.retry}
      /\ Finished(row, me).abandoned = row.abandoned
  BY DEF Finished, Rows
<1>3. /\ Excepted(row).status = "failed" /\ Excepted(row).reason = "exception"
      /\ Excepted(row).attempts = row.attempts /\ Excepted(row).retry = "none"
      /\ Excepted(row).abandoned = row.abandoned
  BY DEF Excepted, Failed, Rows
<1> QED BY <1>1, <1>2, <1>3

LEMMA FreshRow ==
    /\ QueuedRow \in Rows /\ QueuedRow.status = "queued" /\ QueuedRow.attempts = 0
    /\ QueuedRow.retry = "none" /\ ~ QueuedRow.abandoned /\ QueuedRow.reason = "none"
BY DEF QueuedRow, NoRow, Rows, Statuses, InFlight, ErrorCodes

----------------------------------------------------------------------------
(* Workers.                                                                  *)

\* The rows a busy worker may leave of its job.
MayLeave(row, me) ==
    {row, Canceled(row), Heartbeat(row), Requeued(row), Finished(row, me), Excepted(row)}

\* Every step of a busy worker is on the one row of its job.
WorkStep(w, k) ==
    /\ worker[w].pc # "idle" /\ worker[w].key = k
    /\ \E row \in MayLeave(job[k], worker[w]) : job' = [job EXCEPT ![k] = row]
    /\ \A v \in Workers \ {w} : worker'[v] = worker[v]
    /\ worker'[w].key \in {k, NoJob}
    /\ UNCHANGED beat /\ broker' \subseteq broker \cup {k}

LEMMA WorkerSteps ==
    ASSUME TypeOK, NEW w \in Workers, WorkerStep(w)
    PROVE  (\E k \in Keys : Claim(w, k)) \/ (\E k \in Keys : WorkStep(w, k))
<1>0. Idle.key = NoJob
  BY DEF Idle
<1>1. ASSUME worker[w].pc # "idle", NEW row \in MayLeave(job[worker[w].key], worker[w]),
             NEW me,
             job' = [job EXCEPT ![worker[w].key] = row],
             worker' = [worker EXCEPT ![w] = me], me.key \in {worker[w].key, NoJob},
             UNCHANGED beat, broker' \subseteq broker \cup {worker[w].key}
      PROVE  \E k \in Keys : WorkStep(w, k)
  <2>1. worker[w].key \in Keys
    BY <1>1, BusyHasKey
  <2>2. WorkStep(w, worker[w].key)
    BY <1>1 DEF WorkStep, TypeOK
  <2> QED BY <2>1, <2>2
<1> DEFINE k == worker[w].key
<1>2. CASE CancelAtGate(w) \/ DegradeAtGate(w)
  BY <1>0, <1>1, <1>2 DEF CancelAtGate, DegradeAtGate, MayLeave
<1>3. CASE FinishScan(w)
  <2>1. /\ worker[w].pc # "idle" /\ worker' = [worker EXCEPT ![w] = Idle]
        /\ UNCHANGED <<beat, broker>>
        /\ job' = [job EXCEPT ![k] = IF Requeues(worker[w]) THEN Requeued(job[k])
                                     ELSE Finished(job[k], worker[w])]
    BY <1>3, BusyHasKey DEF FinishScan, TypeOK
  <2>2. (IF Requeues(worker[w]) THEN Requeued(job[k]) ELSE Finished(job[k], worker[w]))
           \in MayLeave(job[k], worker[w])
    BY DEF MayLeave
  <2> QED BY <1>0, <1>1, <2>1, <2>2
<1>4. CASE FailClaimed(w)
  <2>1. /\ worker[w].pc # "idle" /\ worker' = [worker EXCEPT ![w] = Idle]
        /\ UNCHANGED <<beat, broker>>
        /\ job' = [job EXCEPT ![k] = Excepted(job[k])]
    BY <1>4 DEF FailClaimed, Excepted
  <2>2. Excepted(job[k]) \in MayLeave(job[k], worker[w])
    BY DEF MayLeave
  <2> QED BY <1>0, <1>1, <2>1, <2>2
<1>5. ASSUME NEW s \in Symbols, ScanSymbol(w, s) \/ FailSymbol(w, s)
      PROVE  \E j \in Keys : WorkStep(w, j)
  <2>1. worker[w].pc # "idle" /\ job' = [job EXCEPT ![k] = Heartbeat(job[k])]
        /\ UNCHANGED <<beat, broker>>
    BY <1>5 DEF ScanSymbol, FailSymbol
  <2>2. \E me : me.key = k /\ worker' = [worker EXCEPT ![w] = me]
    <3>1. worker[w] \in Executions
      BY DEF TypeOK
    <3>2. WithResult(worker[w], s).key = k
          /\ \A kind : WithFailure(worker[w], s, kind).key = k
      BY <3>1 DEF WithResult, WithFailure, Executions
    <3> QED BY <1>5, <3>2 DEF ScanSymbol, FailSymbol
  <2>3. Heartbeat(job[k]) \in MayLeave(job[k], worker[w])
    BY DEF MayLeave
  <2> QED BY <1>1, <2>1, <2>2, <2>3
<1>6. CASE PassGate(w) \/ WorkerCrash(w)
  <2>1. /\ worker[w].pc # "idle" /\ UNCHANGED <<job, beat>>
        /\ broker' \subseteq broker \cup {k}
    BY <1>6 DEF PassGate, WorkerCrash
  <2>2. \E me : me.key \in {k, NoJob} /\ worker' = [worker EXCEPT ![w] = me]
    <3>1. worker[w] \in Executions
      BY DEF TypeOK
    <3>2. Resumed(worker[w]).key = k
      BY <3>1 DEF Resumed, Executions
    <3> QED BY <1>0, <1>6, <3>2 DEF PassGate, WorkerCrash
  <2>3. job' = [job EXCEPT ![k] = job[k]] /\ job[k] \in MayLeave(job[k], worker[w])
    BY <2>1 DEF TypeOK, MayLeave
  <2> QED BY <1>1, <2>1, <2>2, <2>3
<1> QED BY <1>2, <1>3, <1>4, <1>5, <1>6 DEF WorkerStep

----------------------------------------------------------------------------
(* Recovery.  Whoever writes a row leaves it visible to the recovery pass.   *)
Visible(row) ==
    /\ row.status = "running" => row.heartbeat # "none"
    /\ row.status = "queued" /\ row.attempts > 0 => row.retry # "none"

\* The rows that a step may leave in place of the row of a key, the one of an
\* abandoned job apart.
MayBecome(row) ==
    {row, [row EXCEPT !.heartbeat = "stale"], [row EXCEPT !.retry = "due"],
     [row EXCEPT !.abandoned = TRUE], [row EXCEPT !.status = "purged"]}
    \cup {QueuedRow, Recovered(row), Claimed(row), Canceled(row), Heartbeat(row),
          Requeued(row), Excepted(row), Failed(row, "stale_running_job_exhausted")}
    \cup {Finished(row, me) : me \in Executions}

LEMMA RowsMayBecome ==
    ASSUME TypeOK, [Next]_vars, NEW k \in Keys
    PROVE  \/ job'[k] \in MayBecome(job[k])
           \/ job[k].abandoned /\ job'[k] = Failed(job[k], "scan_job_abandoned")
<1>0. \A row : row \in MayBecome(row)
  BY DEF MayBecome
<1>1. CASE UNCHANGED job
  BY <1>0, <1>1
<1>2. ASSUME NEW j \in Keys, NEW row, job' = [job EXCEPT ![j] = row],
             row \in MayBecome(job[j])
      PROVE  job'[k] \in MayBecome(job[k])
  BY <1>0, <1>2 DEF TypeOK
<1>3. CASE Environment
  <2>1. ASSUME NEW j \in Keys, HeartbeatGoesStale(j) \/ RetryFallsDue(j) \/ AgesOut(j)
        PROVE  job'[k] \in MayBecome(job[k])
    <3>1. \E row \in MayBecome(job[j]) : job' = [job EXCEPT ![j] = row]
      BY <2>1 DEF HeartbeatGoesStale, RetryFallsDue, AgesOut, GrowsOld, MayBecome
    <3> QED BY <3>1, <1>2
  <2> QED BY <1>1, <1>3, <2>1 DEF Environment, ToggleMonitor, ToggleExperiment, NextBucket
<1>4. CASE BeatTask
  <2>1. ASSUME NEW v \in ExperimentVersions, ScheduleExperiment(v)
        PROVE  job'[k] \in MayBecome(job[k])
    <3>1. PICK j \in Keys : job' = [job EXCEPT ![j] = QueuedRow]
      BY <2>1 DEF ScheduleExperiment, Keys, TypeOK
    <3>2. QueuedRow \in MayBecome(job[j])
      BY DEF MayBecome
    <3> QED BY <1>2, <3>1, <3>2
  <2>2. ASSUME NEW j \in Keys, InsertPlanned(j) \/ RecoverStale(j) \/ PurgeExpired(j)
        PROVE  job'[k] \in MayBecome(job[k])
    <3>1. UNCHANGED job \/ \E row \in MayBecome(job[j]) : job' = [job EXCEPT ![j] = row]
      BY <2>2 DEF InsertPlanned, RecoverStale, PurgeExpired, MayBecome
    <3> QED BY <3>1, <1>0, <1>1, <1>2
  <2>3. ASSUME NEW j \in Keys, ExpireAbandoned(j)
        PROVE  \/ job'[k] \in MayBecome(job[k])
               \/ job[k].abandoned /\ job'[k] = Failed(job[k], "scan_job_abandoned")
    BY <1>0, <2>3 DEF ExpireAbandoned, Abandoned, TypeOK
  <2> QED BY <1>0, <1>1, <1>4, <2>1, <2>2, <2>3 DEF BeatTask, FindDue, RecoverRetry, Publish, BeatCrash
<1>5. ASSUME NEW w \in Workers, WorkerStep(w) PROVE job'[k] \in MayBecome(job[k])
  <2>1. ASSUME NEW j \in Keys, Claim(w, j) PROVE job'[k] \in MayBecome(job[k])
    <3>1. Claimed(job[j]) \in MayBecome(job[j])
      BY DEF MayBecome
    <3> QED BY <1>2, <2>1, <3>1 DEF Claim
  <2>2. ASSUME NEW j \in Keys, WorkStep(w, j) PROVE job'[k] \in MayBecome(job[k])
    <3>1. worker[w] \in Executions
      BY DEF TypeOK
    <3>2. MayLeave(job[j], worker[w]) \subseteq MayBecome(job[j])
      BY <3>1 DEF MayLeave, MayBecome
    <3> QED BY <1>2, <2>2, <3>2 DEF WorkStep
  <2> QED BY <1>5, <2>1, <2>2, WorkerSteps
<1>6. CASE (\E j \in Keys : DropDelivery(j)) \/ UNCHANGED vars
  <2>1. UNCHANGED job
    BY <1>6 DEF DropDelivery, vars
  <2> QED BY <1>1, <2>1
<1> QED BY <1>3, <1>4, <1>5, <1>6 DEF Next

LEMMA VisibleStays ==
    ASSUME NEW row \in Rows, Visible(row),
           NEW new \in MayBecome(row) \cup {Failed(row, "scan_job_abandoned")}
    PROVE  Visible(new)
<1>1. CASE new \in {row, [row EXCEPT !.heartbeat = "stale"], [row EXCEPT !.retry = "due"],
                    [row EXCEPT !.abandoned = TRUE], [row EXCEPT !.status = "purged"]}
  BY <1>1 DEF Visible, Rows
<1>2. CASE new \in {QueuedRow, Recovered(row), Claimed(row), Canceled(row), Heartbeat(row),
                    Requeued(row), Excepted(row),
                    Failed(row, "stale_running_job_exhausted")}
  <2>1. CASE new = Excepted(row)
    BY <2>1 DEF Visible, Excepted, Failed, Rows
  <2> QED BY <1>2, <2>1, WrittenRows, FreshRow DEF Visible
<1>3. CASE new = Failed(row, "scan_job_abandoned")
  BY <1>3, WrittenRows DEF Visible
<1>4. CASE new \in {Finished(row, me) : me \in Executions}
  BY <1>4, VerdictRows DEF Visible
<1> QED BY <1>1, <1>2, <1>3, <1>4 DEF MayBecome

(* The recovery pass can see every job that was ever claimed and is still in *)
(* flight, however workers and beat tasks overlap.                           *)
THEOREM RecoveryCanSeeItCorrect == Spec => []RecoveryCanSeeIt
<1> DEFINE Seen == \A k \in Keys : Visible(job[k])
<1>1. Init => Seen
  BY DEF Init, NoRow, Visible
<1>2. TypeOK /\ Seen /\ [Next]_vars => Seen'
  <2> SUFFICES ASSUME TypeOK, Seen, [Next]_vars, NEW k \in Keys PROVE Visible(job'[k])
    OBVIOUS
  <2>1. /\ job[k] \in Rows /\ Visible(job[k])
        /\ job'[k] \in MayBecome(job[k]) \cup {Failed(job[k], "scan_job_abandoned")}
    BY RowsMayBecome DEF TypeOK
  <2> QED BY <2>1, VisibleStays
<1>3. Seen => RecoveryCanSeeIt
  BY DEF Visible, RecoveryCanSeeIt
<1> QED BY <1>1, <1>2, <1>3, TypeCorrect, PTL DEF Spec

----------------------------------------------------------------------------
(* Abandonment.  Without a backlog, a row grows old only when it is lost.    *)
Unclaimed(k) == WorkingOn(k) = {} /\ k \notin beat \cup broker

Lost(k) ==
    /\ Unclaimed(k)
    /\ job[k].status \in InFlight => job[k].status = "queued" /\ job[k].retry = "none"

OldMeansLost == \A k \in Keys : job[k].abandoned => Lost(k)

\* A step that rewrites the row of one key, and dispatches no other.
LEMMA OldStep ==
    ASSUME TypeOK, OldMeansLost, NEW k \in Keys, NEW row,
           job' = [job EXCEPT ![k] = row],
           \A j \in Keys \ {k} :
              /\ j \in beat' \cup broker' => j \in beat \cup broker
              /\ \A w \in Workers : worker'[w].key = j => worker[w].key = j,
           row.abandoned => Lost(k)'
    PROVE  OldMeansLost'
<1> SUFFICES ASSUME NEW j \in Keys, job'[j].abandoned PROVE Lost(j)'
  BY DEF OldMeansLost
<1>1. CASE j = k
  BY <1>1 DEF TypeOK
<1>2. CASE j # k
  <2>1. job'[j] = job[j] /\ Lost(j)
    BY <1>2 DEF OldMeansLost, TypeOK
  <2>2. Unclaimed(j)'
    BY <1>2, <2>1 DEF Lost, Unclaimed, WorkingOn
  <2> QED BY <2>1, <2>2 DEF Lost
<1> QED BY <1>1, <1>2

\* A step that rewrites no row, and dispatches none that is old.
LEMMA OldRests ==
    ASSUME OldMeansLost, UNCHANGED job,
           \A k \in Keys : job[k].abandoned =>
              /\ k \notin beat' \cup broker'
              /\ \A w \in Workers : worker'[w].key = k => worker[w].key = k
    PROVE  OldMeansLost'
<1> SUFFICES ASSUME NEW k \in Keys, job'[k].abandoned PROVE Lost(k)'
  BY DEF OldMeansLost
<1>1. Lost(k) /\ job'[k] = job[k] /\ job[k].abandoned
  BY DEF OldMeansLost
<1>2. Unclaimed(k)'
  BY <1>1 DEF Lost, Unclaimed, WorkingOn
<1> QED BY <1>1, <1>2 DEF Lost

LEMMA OldWork ==
    ASSUME TypeOK, OldMeansLost, NEW w \in Workers, worker[w].pc # "idle"
    PROVE  worker[w].key \in Keys /\ ~ job[worker[w].key].abandoned
<1>1. worker[w].key \in Keys
  BY BusyHasKey
<1>2. w \in WorkingOn(worker[w].key)
  BY DEF WorkingOn
<1> QED BY <1>1, <1>2 DEF OldMeansLost, Lost, Unclaimed

LEMMA OldWorker ==
    ASSUME TypeOK, OldMeansLost, NEW w \in Workers, WorkerStep(w)
    PROVE  OldMeansLost'
<1>0. \A k \in Keys : job[k] \in Rows /\ job[k].abandoned \in BOOLEAN
  BY DEF TypeOK, Rows
<1>1. ASSUME NEW k \in Keys, Claim(w, k) PROVE OldMeansLost'
  <2>1. ~ job[k].abandoned
    BY <1>1 DEF Claim, OldMeansLost, Lost, Unclaimed
  <2>2. ~ Claimed(job[k]).abandoned
    BY <1>0, <2>1, WrittenRows
  <2>3. /\ job' = [job EXCEPT ![k] = Claimed(job[k])] /\ UNCHANGED beat
        /\ broker' \subseteq broker
        /\ \A v \in Workers : worker'[v].key \in {worker[v].key, k}
    BY <1>1 DEF Claim, TakeMessage, Started, TypeOK
  <2> QED BY <2>2, <2>3, OldStep
<1>2. ASSUME NEW k \in Keys, WorkStep(w, k) PROVE OldMeansLost'
  <2>1. ~ job[k].abandoned
    BY <1>2, OldWork DEF WorkStep
  <2>2. worker[w] \in Executions /\ job[k] \in Rows
    BY DEF TypeOK
  <2>3. \A row \in MayLeave(job[k], worker[w]) : ~ row.abandoned
    BY <2>1, <2>2, VerdictRows, WrittenRows DEF MayLeave
  <2>4. PICK row \in MayLeave(job[k], worker[w]) : job' = [job EXCEPT ![k] = row]
    BY <1>2 DEF WorkStep
  <2>5. \A j \in Keys \ {k} :
           /\ j \in beat' \cup broker' => j \in beat \cup broker
           /\ \A v \in Workers : worker'[v].key = j => worker[v].key = j
    BY <1>2, NoJobAssumption DEF WorkStep
  <2> QED BY <2>3, <2>4, <2>5, OldStep
<1> QED BY <1>1, <1>2, WorkerSteps

LEMMA OldEnvironment ==
    ASSUME TypeOK, OldMeansLost, ~ Backlog, Environment
    PROVE  OldMeansLost'
<1>0. \A k \in Keys : job[k] \in Rows
  BY DEF TypeOK
<1>1. ASSUME NEW k \in Keys, NEW row, job' = [job EXCEPT ![k] = row],
             UNCHANGED <<beat, broker, worker>>, row.abandoned => Lost(k)'
      PROVE  OldMeansLost'
  BY <1>1, OldStep
<1>2. ASSUME NEW k \in Keys, HeartbeatGoesStale(k) PROVE OldMeansLost'
  <2>1. ~ job[k].abandoned
    BY <1>2 DEF HeartbeatGoesStale, OldMeansLost, Lost, InFlight
  <2>2. ~ [job[k] EXCEPT !.heartbeat = "stale"].abandoned
    BY <1>0, <2>1 DEF Rows
  <2> QED BY <1>1, <1>2, <2>2 DEF HeartbeatGoesStale
<1>3. ASSUME NEW k \in Keys, RetryFallsDue(k) PROVE OldMeansLost'
  <2> DEFINE row == [job[k] EXCEPT !.retry = "due"]
  <2>1. row.abandoned = job[k].abandoned /\ row.status = job[k].status
    BY <1>0 DEF Rows
  <2>2. /\ job' = [job EXCEPT ![k] = row] /\ UNCHANGED <<beat, broker, worker>>
        /\ job[k].retry = "later"
    BY <1>3 DEF RetryFallsDue
  <2>3. job[k].abandoned => Unclaimed(k) /\ job[k].status \notin InFlight
    BY <2>2 DEF OldMeansLost, Lost
  <2>4. job[k].abandoned => Unclaimed(k)'
    BY <2>2, <2>3 DEF Unclaimed, WorkingOn
  <2>5. job'[k].status = job[k].status
    BY <2>1, <2>2 DEF TypeOK
  <2>6. row.abandoned => Lost(k)'
    BY <2>1, <2>3, <2>4, <2>5 DEF Lost
  <2> QED BY <1>1, <2>2, <2>6
<1>4. ASSUME NEW k \in Keys, AgesOut(k) PROVE OldMeansLost'
  <2> DEFINE row == [job[k] EXCEPT !.abandoned = TRUE]
  <2>1. row.retry = job[k].retry /\ row.status = job[k].status
    BY <1>0 DEF Rows
  <2>2. /\ job' = [job EXCEPT ![k] = row] /\ UNCHANGED <<beat, broker, worker>>
        /\ job[k].status = "queued" /\ job[k].retry = "none" /\ Unclaimed(k)
    BY <1>4 DEF AgesOut, GrowsOld, Unattended, Unclaimed
  <2>3. Unclaimed(k)'
    BY <2>2 DEF Unclaimed, WorkingOn
  <2>4. job'[k] = row
    BY <2>2 DEF TypeOK
  <2>5. Lost(k)'
    BY <2>1, <2>2, <2>3, <2>4 DEF Lost
  <2> QED BY <1>1, <2>2, <2>5
<1>5. ASSUME UNCHANGED <<job, beat, broker, worker>> PROVE OldMeansLost'
  BY <1>5, OldRests DEF OldMeansLost, Lost, Unclaimed
<1> QED BY <1>2, <1>3, <1>4, <1>5 DEF Environment, ToggleMonitor, ToggleExperiment, NextBucket

LEMMA OldBeatTask ==
    ASSUME TypeOK, OldMeansLost, BeatTask
    PROVE  OldMeansLost'
<1>0. \A k \in Keys : job[k] \in Rows /\ job[k].abandoned \in BOOLEAN
  BY DEF TypeOK, Rows
<1>1. ASSUME NEW k \in Keys, NEW row, job' = [job EXCEPT ![k] = row], ~ row.abandoned,
             UNCHANGED <<broker, worker>>, beat' \subseteq beat \cup {k}
      PROVE  OldMeansLost'
  BY <1>1, OldStep
<1>2. ASSUME UNCHANGED <<job, worker>>, beat' \cup broker' \subseteq beat \cup broker
      PROVE  OldMeansLost'
  BY <1>2, OldRests DEF OldMeansLost, Lost, Unclaimed
<1>3. ASSUME NEW v \in ExperimentVersions, ScheduleExperiment(v) PROVE OldMeansLost'
  <2>1. PICK k \in Keys : /\ job' = [job EXCEPT ![k] = QueuedRow]
                          /\ beat' = beat \cup {k} /\ UNCHANGED <<broker, worker>>
    BY <1>3 DEF ScheduleExperiment, Keys, TypeOK
  <2> QED BY <1>1, <2>1, FreshRow
<1>4. ASSUME NEW k \in Keys, InsertPlanned(k) PROVE OldMeansLost'
  <2>1. CASE job[k].status = "absent"
    BY <1>1, <1>4, <2>1, FreshRow DEF InsertPlanned
  <2>2. CASE job[k].status # "absent"
    BY <1>2, <1>4, <2>2 DEF InsertPlanned
  <2> QED BY <2>1, <2>2
<1>5. ASSUME NEW k \in Keys, RecoverStale(k) PROVE OldMeansLost'
  <2>1. ~ job[k].abandoned
    BY <1>5 DEF RecoverStale, OldMeansLost, Lost, InFlight
  <2>2. /\ ~ Failed(job[k], "stale_running_job_exhausted").abandoned
        /\ ~ Recovered(job[k]).abandoned
    BY <1>0, <2>1, WrittenRows
  <2> QED BY <1>1, <1>5, <2>2 DEF RecoverStale
<1>6. ASSUME NEW k \in Keys, RecoverRetry(k) PROVE OldMeansLost'
  <2>1. ~ job[k].abandoned
    BY <1>6 DEF RecoverRetry, OldMeansLost, Lost, InFlight
  <2>2. /\ UNCHANGED <<job, broker, worker>> /\ beat' = beat \cup {k}
    BY <1>6 DEF RecoverRetry
  <2>3. \A j \in Keys : job[j].abandoned => j \notin beat' \cup broker'
    BY <2>1, <2>2 DEF OldMeansLost, Lost, Unclaimed
  <2> QED BY <2>2, <2>3, OldRests
<1>7. ASSUME NEW k \in Keys, ExpireAbandoned(k) \/ PurgeExpired(k) PROVE OldMeansLost'
  <2>1. PICK row : /\ job' = [job EXCEPT ![k] = row]
                   /\ row.status \notin InFlight /\ row.abandoned = job[k].abandoned
                   /\ UNCHANGED <<beat, broker, worker>>
    <3>1. Failed(job[k], "scan_job_abandoned").status \notin InFlight
          /\ Failed(job[k], "scan_job_abandoned").abandoned = job[k].abandoned
      BY <1>0, WrittenRows DEF InFlight
    <3>2. [job[k] EXCEPT !.status = "purged"].status \notin InFlight
          /\ [job[k] EXCEPT !.status = "purged"].abandoned = job[k].abandoned
      BY <1>0 DEF InFlight, Rows
    <3> QED BY <1>7, <3>1, <3>2 DEF ExpireAbandoned, PurgeExpired
  <2>2. row.abandoned => Unclaimed(k)'
    BY <2>1 DEF OldMeansLost, Lost, Unclaimed, WorkingOn
  <2>3. job'[k].status \notin InFlight
    BY <2>1 DEF TypeOK
  <2>4. row.abandoned => Lost(k)'
    BY <2>2, <2>3 DEF Lost
  <2> QED BY <2>1, <2>4, OldStep
<1>8. ASSUME NEW k \in Keys, Publish(k) PROVE OldMeansLost'
  BY <1>2, <1>8 DEF Publish
<1>9. ASSUME (\E v \in Versions : FindDue(v)) \/ BeatCrash PROVE OldMeansLost'
  BY <1>2, <1>9 DEF FindDue, BeatCrash
<1> QED BY <1>3, <1>4, <1>5, <1>6, <1>7, <1>8, <1>9 DEF BeatTask

LEMMA OldNext ==
    ASSUME TypeOK, OldMeansLost, ~ Backlog, [Next]_vars
    PROVE  OldMeansLost'
<1>1. ASSUME UNCHANGED <<job, worker, beat>>, broker' \subseteq broker
      PROVE  OldMeansLost'
  BY <1>1, OldRests DEF OldMeansLost, Lost, Unclaimed
<1>2. CASE (\E k \in Keys : DropDelivery(k)) \/ UNCHANGED vars
  BY <1>1, <1>2 DEF DropDelivery, vars
<1> QED BY <1>2, OldEnvironment, OldBeatTask, OldWorker DEF Next

LEMMA OldCorrect ==
    ASSUME ~ Backlog PROVE Spec => []OldMeansLost
<1>1. Init => OldMeansLost
  BY DEF Init, OldMeansLost, NoRow
<1>2. TypeOK /\ OldMeansLost /\ [Next]_vars => OldMeansLost'
  BY OldNext
<1> QED BY <1>1, <1>2, TypeCorrect, PTL DEF Spec

----------------------------------------------------------------------------
(* Order.  A worker that does not outlive its claim owns the row of its job: *)
(* it is alone, and what it remembers of the job is what the database says.  *)
(* Only the expiry, in a backlog, can end the job under it.                  *)
Alone(k) ==
    \A v, w \in Workers : worker[v].key = k /\ worker[w].key = k => v = w

Held(row) ==
    \/ row.status = "running"
    \/ Backlog /\ row.status = "failed" /\ row.reason = "scan_job_abandoned"

Owned(k) ==
    \A w \in Workers :
        worker[w].key = k =>
            /\ Held(job[k]) /\ job[k].heartbeat = "fresh" /\ usage[k] = NotMetered
            /\ job[k].attempts = worker[w].attempt
            /\ worker[w].pc = "scanning" => worker[w].scanned = Cardinality(results[k])

RowInOrder(k) ==
    /\ Backlog \/ (job[k].retry = "later" => job[k].status = "queued")
    /\ job[k].status = "queued" => job[k].attempts < MaxAttempts
    /\ job[k].status \in {"absent"} \cup InFlight => usage[k] = NotMetered

Counted(k) ==
    /\ job[k].status \in {"succeeded", "partial"} => usage[k] = Cardinality(results[k])
    /\ job[k].status = "failed" /\ job[k].reason = "all_symbols_failed"
          => results[k] = {}

InOrder(k) == Alone(k) /\ Owned(k) /\ RowInOrder(k) /\ Counted(k)

Order == \A k \in Keys : InOrder(k)

\* A step that leaves a job alone.
Untouched(k) ==
    /\ job'[k] = job[k] /\ results'[k] = results[k] /\ usage'[k] = usage[k]
    /\ \A w \in Workers : worker'[w].key = k => worker'[w] = worker[w]

LEMMA OrderElsewhere ==
    ASSUME Order, NEW k \in Keys, Untouched(k)
    PROVE  InOrder(k)'
<1>0. InOrder(k)
  BY DEF Order
<1>1. Alone(k)'
  BY <1>0 DEF InOrder, Alone, Untouched
<1>2. Owned(k)'
  BY <1>0 DEF InOrder, Owned, Untouched
<1>3. RowInOrder(k)' /\ Counted(k)'
  BY <1>0 DEF InOrder, RowInOrder, Counted, Untouched
<1> QED BY <1>1, <1>2, <1>3 DEF InOrder

\* A step on one job that nobody runs, neither before it nor after it.
LEMMA OrderUnowned ==
    ASSUME TypeOK, Order, NEW k \in Keys, NEW row,
           job' = [job EXCEPT ![k] = row], UNCHANGED <<usage, worker>>,
           \A j \in Keys \ {k} : results'[j] = results[j],
           WorkingOn(k) = {}, RowInOrder(k)', Counted(k)'
    PROVE  Order'
<1>1. \A j \in Keys \ {k} : Untouched(j)
  BY DEF Untouched, TypeOK
<1>2. Alone(k)' /\ Owned(k)'
  BY DEF Alone, Owned, WorkingOn
<1>3. InOrder(k)'
  BY <1>2 DEF InOrder
<1> QED BY <1>1, <1>3, OrderElsewhere DEF Order

\* A step of the one worker that runs a job.
LEMMA OrderWork ==
    ASSUME TypeOK, Order, NEW w \in Workers, worker[w].pc # "idle",
           NEW k \in Keys, k = worker[w].key, NEW row, NEW me,
           job' = [job EXCEPT ![k] = row], worker' = [worker EXCEPT ![w] = me],
           me.key \in {k, NoJob},
           \A j \in Keys \ {k} : results'[j] = results[j] /\ usage'[j] = usage[j],
           me.key = k =>
              /\ Held(row) /\ row.heartbeat = "fresh" /\ usage'[k] = NotMetered
              /\ row.attempts = me.attempt
              /\ me.pc = "scanning" => me.scanned = Cardinality(results'[k]),
           RowInOrder(k)', Counted(k)'
    PROVE  Order'
<1>0. Alone(k) /\ job'[k] = row /\ worker'[w] = me
      /\ \A v \in Workers \ {w} : worker'[v] = worker[v]
  BY DEF Order, InOrder, TypeOK
<1>1. \A j \in Keys \ {k} : Untouched(j)
  <2>1. ASSUME NEW j \in Keys \ {k}, NEW v \in Workers, worker'[v].key = j
        PROVE  worker'[v] = worker[v]
    BY <1>0, <2>1, NoJobAssumption
  <2> QED BY <2>1 DEF Untouched, TypeOK
<1>2. \A v \in Workers : worker'[v].key = k => v = w
  BY <1>0 DEF Alone
<1>3. Alone(k)' /\ Owned(k)'
  BY <1>0, <1>2 DEF Alone, Owned
<1>4. InOrder(k)'
  BY <1>3 DEF InOrder
<1> QED BY <1>1, <1>4, OrderElsewhere DEF Order

\* A step that touches neither rows, results, usage nor workers.
LEMMA OrderRests ==
    ASSUME Order, UNCHANGED <<job, results, usage, worker>>
    PROVE  Order'
<1>1. \A k \in Keys : Untouched(k)
  BY DEF Untouched
<1> QED BY <1>1, OrderElsewhere DEF Order

LEMMA OrderEnvironment ==
    ASSUME TypeOK, Order, ~ SlowWorkers, Environment
    PROVE  Order'
<1>0. \A k \in Keys : job[k] \in Rows /\ RowInOrder(k) /\ Counted(k)
  BY DEF TypeOK, Order, InOrder
<1>1. ASSUME NEW k \in Keys, HeartbeatGoesStale(k) PROVE Order'
  <2> DEFINE row == [job[k] EXCEPT !.heartbeat = "stale"]
  <2>1. /\ job' = [job EXCEPT ![k] = row] /\ UNCHANGED <<results, usage, worker>>
        /\ WorkingOn(k) = {} /\ job'[k] = row
    BY <1>1 DEF HeartbeatGoesStale, TypeOK
  <2>2. row.status = job[k].status /\ row.retry = job[k].retry
        /\ row.attempts = job[k].attempts /\ row.reason = job[k].reason
    BY <1>0 DEF Rows
  <2>3. RowInOrder(k)' /\ Counted(k)'
    BY <1>0, <2>1, <2>2 DEF RowInOrder, Counted
  <2> QED BY <2>1, <2>3, OrderUnowned
<1>2. ASSUME NEW k \in Keys, RetryFallsDue(k) \/ AgesOut(k) PROVE Order'
  <2>1. PICK row : /\ job' = [job EXCEPT ![k] = row] /\ row.retry \in {job[k].retry, "due"}
                   /\ row.status = job[k].status /\ row.attempts = job[k].attempts
                   /\ row.reason = job[k].reason /\ row.heartbeat = job[k].heartbeat
    <3>1. \A new \in {[job[k] EXCEPT !.retry = "due"], [job[k] EXCEPT !.abandoned = TRUE]} :
             /\ new.retry \in {job[k].retry, "due"}
             /\ new.status = job[k].status /\ new.attempts = job[k].attempts
             /\ new.reason = job[k].reason /\ new.heartbeat = job[k].heartbeat
      BY <1>0 DEF Rows
    <3> QED BY <1>2, <3>1 DEF RetryFallsDue, AgesOut, GrowsOld
  <2>2. job'[k] = row /\ UNCHANGED <<results, usage, worker>>
        /\ \A j \in Keys \ {k} : job'[j] = job[j]
    BY <1>2, <2>1 DEF RetryFallsDue, AgesOut, GrowsOld, TypeOK
  <2>3. InOrder(k)'
    <3>1. InOrder(k)
      BY DEF Order
    <3>2. Alone(k)' /\ Owned(k)'
      BY <2>1, <2>2, <3>1 DEF InOrder, Alone, Owned, Held
    <3>3. RowInOrder(k)' /\ Counted(k)'
      BY <2>1, <2>2, <3>1 DEF InOrder, RowInOrder, Counted
    <3> QED BY <3>2, <3>3 DEF InOrder
  <2>4. \A j \in Keys \ {k} : Untouched(j)
    BY <2>2 DEF Untouched
  <2> QED BY <2>3, <2>4, OrderElsewhere DEF Order
<1> QED BY <1>1, <1>2, OrderRests
        DEF Environment, ToggleMonitor, ToggleExperiment, NextBucket

\* An absent row is a new one in every column the proofs look at.
LEMMA OrderQueued ==
    ASSUME TypeOK, Order, NEW k \in Keys, job[k].status = "absent",
           job' = [job EXCEPT ![k] = QueuedRow], UNCHANGED <<results, usage, worker>>
    PROVE  Order'
<1>1. WorkingOn(k) = {} /\ usage[k] = NotMetered /\ job'[k] = QueuedRow
  BY DEF Order, InOrder, Owned, Held, RowInOrder, WorkingOn, TypeOK
<1>2. RowInOrder(k)' /\ Counted(k)'
  BY <1>1, FreshRow, ConstantsAssumption DEF RowInOrder, Counted
<1> QED BY <1>1, <1>2, OrderUnowned

LEMMA OrderBeatTask ==
    ASSUME TypeOK, Backlog \/ OldMeansLost, Order, BeatTask
    PROVE  Order'
<1>0. \A k \in Keys : job[k] \in Rows /\ RowInOrder(k) /\ Counted(k) /\ Owned(k)
  BY DEF TypeOK, Order, InOrder
<1>1. ASSUME NEW v \in ExperimentVersions, ScheduleExperiment(v) PROVE Order'
  <2>1. PICK k \in Keys : /\ job[k].status = "absent"
                          /\ job' = [job EXCEPT ![k] = QueuedRow]
                          /\ UNCHANGED <<results, usage, worker>>
    BY <1>1 DEF ScheduleExperiment, Keys, TypeOK
  <2> QED BY <2>1, OrderQueued
<1>2. ASSUME NEW k \in Keys, InsertPlanned(k) PROVE Order'
  <2>1. CASE job[k].status = "absent"
    BY <1>2, <2>1, OrderQueued DEF InsertPlanned
  <2>2. CASE job[k].status # "absent"
    BY <1>2, <2>2, OrderRests DEF InsertPlanned
  <2> QED BY <2>1, <2>2
<1>3. ASSUME NEW k \in Keys, RecoverStale(k) PROVE Order'
  <2>1. /\ job[k].status = "running" /\ job[k].heartbeat # "fresh"
        /\ UNCHANGED <<results, usage, worker>>
    BY <1>3 DEF RecoverStale
  <2>2. WorkingOn(k) = {} /\ (Backlog \/ job[k].retry # "later") /\ usage[k] = NotMetered
    BY <1>0, <2>1 DEF Owned, WorkingOn, RowInOrder, InFlight
  <2>3. CASE Exhausted(k) /\ job' = [job EXCEPT ![k] = Failed(@, "stale_running_job_exhausted")]
    <3>1. job'[k] = Failed(job[k], "stale_running_job_exhausted")
      BY <2>3 DEF TypeOK
    <3>2. RowInOrder(k)' /\ Counted(k)'
      BY <1>0, <2>2, <3>1, WrittenRows DEF RowInOrder, Counted, InFlight
    <3> QED BY <2>1, <2>2, <2>3, <3>2, OrderUnowned
  <2>4. CASE ~ Exhausted(k) /\ job' = [job EXCEPT ![k] = Recovered(@)]
    <3>1. job'[k] = Recovered(job[k]) /\ job[k].attempts < MaxAttempts
      BY <1>0, <2>4, ConstantsAssumption DEF TypeOK, Exhausted, Rows
    <3>2. usage'[k] = NotMetered /\ job'[k].status = "queued" /\ job'[k].retry = "due"
          /\ job'[k].attempts < MaxAttempts
      BY <1>0, <2>1, <2>2, <3>1, WrittenRows
    <3>3. RowInOrder(k)' /\ Counted(k)'
      BY <3>2 DEF RowInOrder, Counted
    <3> QED BY <2>1, <2>2, <2>4, <3>3, OrderUnowned
  <2> QED BY <1>3, <2>3, <2>4 DEF RecoverStale
<1>4. ASSUME NEW k \in Keys, ExpireAbandoned(k) PROVE Order'
  <2>1. /\ job' = [job EXCEPT ![k] = Failed(@, "scan_job_abandoned")]
        /\ job'[k] = Failed(job[k], "scan_job_abandoned")
        /\ UNCHANGED <<results, usage, worker>>
    BY <1>4 DEF ExpireAbandoned, TypeOK
  <2>2. /\ job'[k].status = "failed" /\ job'[k].reason = "scan_job_abandoned"
        /\ job'[k].retry = job[k].retry /\ job'[k].attempts = job[k].attempts
        /\ job'[k].heartbeat = job[k].heartbeat
    BY <1>0, <2>1, WrittenRows
  <2>3. CASE ~ Backlog
    <3>1. WorkingOn(k) = {} /\ job[k].retry = "none"
      BY <1>4, <2>3 DEF ExpireAbandoned, Abandoned, OldMeansLost, Lost, Unclaimed
    <3>2. RowInOrder(k)' /\ Counted(k)'
      BY <2>2, <3>1 DEF RowInOrder, Counted, InFlight
    <3> QED BY <2>1, <3>1, <3>2, OrderUnowned
  <2>4. CASE Backlog
    <3>1. RowInOrder(k)' /\ Counted(k)'
      BY <2>2, <2>4 DEF RowInOrder, Counted, InFlight
    <3>2. Alone(k)' /\ Owned(k)'
      BY <1>0, <2>1, <2>2, <2>4 DEF Order, InOrder, Alone, Owned, Held
    <3>3. \A j \in Keys \ {k} : Untouched(j)
      BY <2>1 DEF Untouched, TypeOK
    <3>4. InOrder(k)'
      BY <3>1, <3>2 DEF InOrder
    <3> QED BY <3>3, <3>4, OrderElsewhere DEF Order
  <2> QED BY <2>3, <2>4
<1>5. ASSUME NEW k \in Keys, PurgeExpired(k) PROVE Order'
  <2>1. /\ job' = [job EXCEPT ![k] = [@ EXCEPT !.status = "purged"]]
        /\ job'[k] = [job[k] EXCEPT !.status = "purged"]
        /\ job[k].status \in Terminal /\ WorkingOn(k) = {} /\ UNCHANGED <<usage, worker>>
        /\ \A j \in Keys \ {k} : results'[j] = results[j]
    BY <1>5 DEF PurgeExpired, TypeOK
  <2>2. Backlog \/ job[k].retry # "later"
    BY <1>0, <2>1 DEF RowInOrder, Terminal
  <2>3. job'[k].status = "purged" /\ (Backlog \/ job'[k].retry # "later")
    BY <1>0, <2>1, <2>2 DEF Rows
  <2>4. RowInOrder(k)' /\ Counted(k)'
    BY <2>3 DEF RowInOrder, Counted, InFlight
  <2> QED BY <2>1, <2>4, OrderUnowned
<1>6. CASE \/ \E v \in Versions : FindDue(v)
           \/ \E k \in Keys : RecoverRetry(k) \/ Publish(k)
           \/ BeatCrash
  BY <1>6, OrderRests DEF FindDue, RecoverRetry, Publish, BeatCrash
<1> QED BY <1>1, <1>2, <1>3, <1>4, <1>5, <1>6 DEF BeatTask

LEMMA OrderClaim ==
    ASSUME TypeOK, Order, NEW w \in Workers, NEW k \in Keys, Claim(w, k)
    PROVE  Order'
<1>0. job[k] \in Rows /\ RowInOrder(k) /\ Owned(k)
  BY DEF TypeOK, Order, InOrder
<1>1. /\ job[k].status = "queued" /\ job[k].retry # "later"
      /\ job'[k] = Claimed(job[k]) /\ worker'[w] = Started(k)
      /\ \A j \in Keys \ {k} : job'[j] = job[j]
      /\ \A v \in Workers \ {w} : worker'[v] = worker[v]
      /\ UNCHANGED <<results, usage>>
  BY DEF Claim, Claimable, TypeOK
<1>2. Started(k).key = k /\ Started(k).pc = "claimed"
      /\ Started(k).attempt = job[k].attempts + 1
  BY DEF Started
<1>3. \A v \in Workers : worker[v].key # k
  BY <1>0, <1>1 DEF Owned, Held
<1>4. /\ job'[k].status = "running" /\ job'[k].heartbeat = "fresh"
      /\ job'[k].attempts = job[k].attempts + 1 /\ job'[k].retry # "later"
      /\ usage'[k] = NotMetered
  BY <1>0, <1>1, WrittenRows DEF RowInOrder, InFlight
<1>5. Alone(k)' /\ Owned(k)'
  BY <1>1, <1>2, <1>3, <1>4 DEF Alone, Owned, Held
<1>6. RowInOrder(k)' /\ Counted(k)'
  BY <1>4 DEF RowInOrder, Counted
<1>7. InOrder(k)'
  BY <1>5, <1>6 DEF InOrder
<1>8. \A j \in Keys \ {k} : Untouched(j)
  BY <1>1, <1>2 DEF Untouched
<1> QED BY <1>7, <1>8, OrderElsewhere DEF Order

LEMMA OrderWorker ==
    ASSUME TypeOK, Order, NEW w \in Workers, WorkerStep(w), ~ \E j \in Keys : Claim(w, j),
           NEW k \in Keys, k = worker[w].key
    PROVE  Order'
<1> DEFINE me == worker[w]
<1>0. /\ me.pc # "idle" /\ me \in Executions /\ job[k] \in Rows
      /\ Owned(k) /\ RowInOrder(k) /\ Counted(k) /\ NoJob # k
  BY NoJobAssumption DEF TypeOK, Order, InOrder
<1>1. /\ Held(job[k]) /\ job[k].heartbeat = "fresh" /\ job[k].attempts = me.attempt
      /\ usage[k] = NotMetered /\ (Backlog \/ job[k].retry # "later")
      /\ me.pc = "scanning" => me.scanned = Cardinality(results[k])
  BY <1>0 DEF Owned, Held, RowInOrder
<1>2. Idle.key = NoJob
  BY DEF Idle
<1>3. CASE CancelAtGate(w) \/ DegradeAtGate(w) \/ FailClaimed(w)
  <2>1. PICK row : /\ row \in {Canceled(job[k]), Excepted(job[k])}
                   /\ job' = [job EXCEPT ![k] = row]
    BY <1>3 DEF CancelAtGate, DegradeAtGate, FailClaimed, Excepted
  <2>2. row.status \in {"canceled", "failed"} /\ row.retry # "later"
        /\ row.reason \in {"gate_refused", "exception"}
    BY <1>0, <2>1, WrittenRows, VerdictRows
  <2>3. worker' = [worker EXCEPT ![w] = Idle] /\ UNCHANGED <<results, usage>>
        /\ job'[k] = row
    BY <1>0, <1>3, <2>1 DEF CancelAtGate, DegradeAtGate, FailClaimed, TypeOK
  <2>4. RowInOrder(k)' /\ Counted(k)'
    BY <2>2, <2>3 DEF RowInOrder, Counted, InFlight
  <2> QED BY <1>0, <1>2, <2>1, <2>3, <2>4, OrderWork
<1>10. /\ Heartbeat(job[k]).status = job[k].status
       /\ Heartbeat(job[k]).reason = job[k].reason
       /\ Heartbeat(job[k]).heartbeat = "fresh"
       /\ Heartbeat(job[k]).attempts = job[k].attempts
       /\ Heartbeat(job[k]).retry = job[k].retry
  BY <1>0, <1>1, WrittenRows
\* The worker goes on, or is gone; its row stays what it was.
<1>6. ASSUME NEW row, row.status = job[k].status, row.reason = job[k].reason,
             row.heartbeat = "fresh", row.attempts = job[k].attempts, row.retry = job[k].retry,
             job' = [job EXCEPT ![k] = row],
             NEW new, worker' = [worker EXCEPT ![w] = new], new.key \in {k, NoJob},
             new.key = k => /\ new.attempt = me.attempt
                            /\ new.pc = "scanning" => new.scanned = Cardinality(results'[k]),
             \A j \in Keys \ {k} : results'[j] = results[j], UNCHANGED usage
      PROVE  Order'
  <2>1. job'[k] = row
    BY <1>0, <1>6 DEF TypeOK
  <2>2. RowInOrder(k)' /\ Counted(k)' /\ Held(row)
    BY <1>0, <1>1, <1>6, <2>1 DEF RowInOrder, Counted, Held
  <2> QED BY <1>0, <1>1, <1>6, <2>2, OrderWork
<1>7. CASE PassGate(w) \/ WorkerCrash(w)
  <2>1. Resumed(me).key = k /\ Resumed(me).attempt = me.attempt
        /\ Resumed(me).scanned = Cardinality(results[k])
    BY <1>0 DEF Resumed, Executions, AlreadyScanned
  <2>2. UNCHANGED <<results, usage>> /\ job' = [job EXCEPT ![k] = job[k]]
    BY <1>7 DEF PassGate, WorkerCrash, TypeOK
  <2>3. \/ worker' = [worker EXCEPT ![w] = Resumed(me)]
        \/ worker' = [worker EXCEPT ![w] = Idle]
    BY <1>7 DEF PassGate, WorkerCrash
  <2>4. CASE worker' = [worker EXCEPT ![w] = Resumed(me)]
    BY <1>1, <1>6, <2>1, <2>2, <2>4
  <2>5. CASE worker' = [worker EXCEPT ![w] = Idle]
    BY <1>0, <1>1, <1>2, <1>6, <2>2, <2>5
  <2> QED BY <2>3, <2>4, <2>5
<1>8. ASSUME NEW s \in Symbols, ScanSymbol(w, s) PROVE Order'
  <2>1. /\ me.pc = "scanning" /\ s \notin results[k]
        /\ job' = [job EXCEPT ![k] = Heartbeat(job[k])]
        /\ worker' = [worker EXCEPT ![w] = WithResult(me, s)]
        /\ results' = [results EXCEPT ![k] = @ \cup {s}] /\ UNCHANGED usage
    BY <1>8 DEF ScanSymbol
  <2>2. Cardinality(results'[k]) = Cardinality(results[k]) + 1
        /\ \A j \in Keys \ {k} : results'[j] = results[j]
    <3>1. IsFiniteSet(results[k]) /\ results'[k] = results[k] \cup {s}
      BY <1>0, <2>1, ResultsFinite DEF TypeOK
    <3> QED BY <2>1, <3>1, FS_AddElement DEF TypeOK
  <2>3. WithResult(me, s).key = k /\ WithResult(me, s).attempt = me.attempt
        /\ WithResult(me, s).scanned = me.scanned + 1
    BY <1>0 DEF WithResult, Executions
  <2>4. WithResult(me, s).scanned = Cardinality(results'[k])
    BY <1>1, <2>1, <2>2, <2>3
  <2> QED BY <1>10, <1>6, <2>1, <2>2, <2>3, <2>4
<1>9. ASSUME NEW s \in Symbols, FailSymbol(w, s) PROVE Order'
  <2>1. PICK kind \in FailureKinds : worker' = [worker EXCEPT ![w] = WithFailure(me, s, kind)]
    BY <1>9 DEF FailSymbol
  <2>2. /\ me.pc = "scanning" /\ job' = [job EXCEPT ![k] = Heartbeat(job[k])]
        /\ UNCHANGED <<results, usage>>
    BY <1>9 DEF FailSymbol
  <2>3. WithFailure(me, s, kind).key = k /\ WithFailure(me, s, kind).attempt = me.attempt
        /\ WithFailure(me, s, kind).scanned = me.scanned
    BY <1>0 DEF WithFailure, Executions
  <2>4. WithFailure(me, s, kind).scanned = Cardinality(results'[k])
    BY <1>1, <2>2, <2>3
  <2> QED BY <1>10, <1>6, <2>1, <2>2, <2>3, <2>4
<1>11. CASE FinishScan(w)
  <2>1. /\ me.pc = "scanning" /\ worker' = [worker EXCEPT ![w] = Idle] /\ UNCHANGED results
        /\ job' = [job EXCEPT ![k] = IF Requeues(me) THEN Requeued(@) ELSE Finished(@, me)]
        /\ usage' = IF Requeues(me) THEN usage ELSE Metered(k, me.scanned)
    BY <1>11 DEF FinishScan
  <2>2. CASE Requeues(me)
    <3>1. job'[k] = Requeued(job[k]) /\ UNCHANGED usage
          /\ job' = [job EXCEPT ![k] = Requeued(job[k])]
      BY <1>0, <2>1, <2>2 DEF TypeOK
    <3>2. job[k].attempts < MaxAttempts
      BY <1>1, <2>2 DEF Requeues
    <3>3. RowInOrder(k)' /\ Counted(k)'
      BY <1>0, <1>1, <3>1, <3>2, WrittenRows DEF RowInOrder, Counted
    <3> QED BY <1>0, <1>2, <2>1, <3>1, <3>3, OrderWork
  <2>3. CASE ~ Requeues(me)
    <3>1. /\ job' = [job EXCEPT ![k] = Finished(job[k], me)] /\ job'[k] = Finished(job[k], me)
          /\ usage'[k] = Cardinality(results'[k])
          /\ \A j \in Keys \ {k} : usage'[j] = usage[j]
      BY <1>0, <1>1, <2>1, <2>3 DEF TypeOK, Metered
    <3>2. /\ job'[k].status \in {"succeeded", "partial", "failed"}
          /\ Backlog \/ job'[k].retry # "later"
          /\ job'[k].status = "failed" => Cardinality(results'[k]) = 0
      BY <1>0, <1>1, <2>1, <3>1, VerdictRows
    <3>3. Cardinality(results'[k]) = 0 => results'[k] = {}
      BY <1>0, <2>1, ResultsFinite, FS_EmptySet
    <3>4. RowInOrder(k)' /\ Counted(k)'
      BY <3>1, <3>2, <3>3 DEF RowInOrder, Counted, InFlight
    <3>5. \A j \in Keys \ {k} : results'[j] = results[j] /\ usage'[j] = usage[j]
      BY <2>1, <3>1
    <3> QED BY <1>0, <1>2, <2>1, <3>1, <3>4, <3>5, OrderWork
  <2> QED BY <2>2, <2>3
<1> QED BY <1>3, <1>7, <1>8, <1>9, <1>11 DEF WorkerStep

LEMMA OrderNext ==
    ASSUME TypeOK, Backlog \/ OldMeansLost, Order, ~ SlowWorkers, [Next]_vars
    PROVE  Order'
<1>1. CASE (\E k \in Keys : DropDelivery(k)) \/ UNCHANGED vars
  BY <1>1, OrderRests DEF DropDelivery, vars
<1>2. ASSUME NEW w \in Workers, WorkerStep(w), ~ \E k \in Keys : Claim(w, k)
      PROVE  Order'
  <2>1. \E k \in Keys : k = worker[w].key
    BY <1>2, WorkerSteps DEF WorkStep
  <2> QED BY <1>2, <2>1, OrderWorker
<1> QED BY <1>1, <1>2, OrderEnvironment, OrderBeatTask, OrderClaim DEF Next

LEMMA OrderCorrect ==
    ASSUME ~ SlowWorkers PROVE Spec => []Order
<1>1. Init => Order
  <2> SUFFICES ASSUME Init, NEW k \in Keys PROVE InOrder(k)
    BY DEF Order
  <2>1. \A w \in Workers : worker[w].key # k
    BY NoJobAssumption DEF Init, Idle
  <2>2. job[k].status = "absent" /\ job[k].retry = "none" /\ usage[k] = NotMetered
    BY DEF Init, NoRow
  <2> QED BY <2>1, <2>2 DEF InOrder, Alone, Owned, RowInOrder, Counted
<1>2. TypeOK /\ (Backlog \/ OldMeansLost) /\ Order /\ [Next]_vars => Order'
  BY OrderNext
<1>3. CASE Backlog
  <2>1. TypeOK /\ Order /\ [Next]_vars => Order'
    BY <1>2, <1>3
  <2> QED BY <1>1, <2>1, TypeCorrect, PTL DEF Spec
<1>4. CASE ~ Backlog
  <2>1. Spec => []OldMeansLost
    BY <1>4, OldCorrect
  <2>2. TypeOK /\ OldMeansLost /\ Order /\ [Next]_vars => Order'
    BY <1>2
  <2> QED BY <1>1, <2>1, <2>2, TypeCorrect, PTL DEF Spec
<1> QED BY <1>3, <1>4

(* With workers that do not outlive their claims, backlog or not, one worker *)
(* at a time runs a job.                                                     *)
THEOREM SingleExecutionCorrect ==
    ASSUME ~ SlowWorkers PROVE Spec => []SingleExecution
<1>1. TypeOK /\ Order => SingleExecution
  BY BusyHasKey DEF Order, InOrder, Alone, SingleExecution
<1> QED BY <1>1, TypeCorrect, OrderCorrect, PTL

(* Under the same assumption, a finished check was metered for exactly the   *)
(* results it left, and one that reports no symbol scanned left none.        *)
THEOREM CountsAgreeCorrect ==
    ASSUME ~ SlowWorkers PROVE Spec => []CountsAgree
<1>1. Order => CountsAgree
  BY DEF Order, InOrder, Counted, CountsAgree
<1> QED BY <1>1, OrderCorrect, PTL

----------------------------------------------------------------------------
(* Moves.  In this order, and without a backlog, every step moves at most    *)
(* one row, along the life of a job.                                         *)
RowStays(k) ==
    /\ job'[k].status = job[k].status /\ job'[k].attempts = job[k].attempts
    /\ job[k].status \in Terminal => job'[k] = job[k]

RowEnqueued(k) ==
    /\ job[k].status = "absent" /\ job'[k].status = "queued"
    /\ job'[k].attempts = job[k].attempts
    /\ k.kind = "live" => k \in planned /\ planned' = planned \ {k}

RowStarted(k) ==
    /\ job[k].status = "queued" /\ job'[k].status = "running"
    /\ job[k].attempts < MaxAttempts /\ job'[k].attempts = job[k].attempts + 1

RowYields(k) ==
    /\ job[k].status = "running" /\ job'[k].status = "queued"
    /\ job[k].attempts < MaxAttempts /\ job'[k].attempts = job[k].attempts

RowSettles(k) ==
    /\ job[k].status \in InFlight /\ job'[k].status \in Terminal
    /\ job'[k].attempts = job[k].attempts

RowForgotten(k) ==
    /\ job[k].status \in Terminal
    /\ job'[k] = [job[k] EXCEPT !.status = "purged"]

RowMove(k) ==
    \/ RowStays(k) \/ RowEnqueued(k) \/ RowStarted(k)
    \/ RowYields(k) \/ RowSettles(k) \/ RowForgotten(k)

OnlyRow(k) == \A j \in Keys \ {k} : job'[j] = job[j]

LEMMA MoveEnvironment ==
    ASSUME TypeOK, Order, ~ Backlog, Environment
    PROVE  UNCHANGED job \/ \E k \in Keys : OnlyRow(k) /\ RowMove(k)
<1>1. ASSUME NEW k \in Keys, HeartbeatGoesStale(k) \/ RetryFallsDue(k) \/ AgesOut(k)
      PROVE  OnlyRow(k) /\ RowMove(k)
  <2>1. job[k].status \in InFlight
    <3>1. job[k].retry = "later" => job[k].status = "queued"
      BY DEF Order, InOrder, RowInOrder
    <3> QED BY <1>1, <3>1 DEF HeartbeatGoesStale, RetryFallsDue, AgesOut, GrowsOld, InFlight
  <2>2. OnlyRow(k) /\ job'[k].status = job[k].status /\ job'[k].attempts = job[k].attempts
    BY <1>1 DEF HeartbeatGoesStale, RetryFallsDue, AgesOut, GrowsOld, OnlyRow, TypeOK, Rows
  <2>3. RowStays(k)
    BY <2>1, <2>2 DEF RowStays, InFlight, Terminal
  <2> QED BY <2>2, <2>3 DEF RowMove
<1> QED BY <1>1 DEF Environment, ToggleMonitor, ToggleExperiment, NextBucket

LEMMA MoveBeatTask ==
    ASSUME TypeOK, AttemptInv, BeatTask
    PROVE  UNCHANGED job \/ \E k \in Keys : OnlyRow(k) /\ RowMove(k)
<1>0. \A k \in Keys : job[k] \in Rows
  BY DEF TypeOK
<1>1. ASSUME NEW k \in Keys, job[k].status = "absent", job' = [job EXCEPT ![k] = QueuedRow],
             k.kind = "live" => k \in planned /\ planned' = planned \ {k}
      PROVE  OnlyRow(k) /\ RowMove(k)
  <2>1. job[k].attempts = 0
    BY <1>1 DEF AttemptInv
  <2>2. OnlyRow(k) /\ job'[k] = QueuedRow
    BY <1>1 DEF OnlyRow, TypeOK
  <2>3. RowEnqueued(k)
    BY <1>1, <2>1, <2>2, FreshRow DEF RowEnqueued
  <2> QED BY <2>2, <2>3 DEF RowMove
<1>2. ASSUME NEW v \in ExperimentVersions, ScheduleExperiment(v)
      PROVE  \E k \in Keys : OnlyRow(k) /\ RowMove(k)
  <2> DEFINE k == [kind |-> "experiment", version |-> v, bucket |-> bucket]
  <2>1. k \in Keys /\ k.kind # "live"
    BY DEF Keys, TypeOK
  <2>2. job[k].status = "absent" /\ job' = [job EXCEPT ![k] = QueuedRow]
    BY <1>2 DEF ScheduleExperiment
  <2> QED BY <1>1, <2>1, <2>2
<1>3. ASSUME NEW k \in Keys, InsertPlanned(k)
      PROVE  UNCHANGED job \/ (OnlyRow(k) /\ RowMove(k))
  BY <1>1, <1>3 DEF InsertPlanned
<1>4. ASSUME NEW k \in Keys, RecoverStale(k)
      PROVE  OnlyRow(k) /\ RowMove(k)
  <2>1. job[k].status = "running" /\ OnlyRow(k)
    BY <1>4 DEF RecoverStale, OnlyRow, TypeOK
  <2>2. CASE job' = [job EXCEPT ![k] = Failed(@, "stale_running_job_exhausted")]
    <3>1. RowSettles(k)
      BY <1>0, <2>1, <2>2, WrittenRows DEF RowSettles, InFlight, Terminal, TypeOK
    <3> QED BY <2>1, <3>1 DEF RowMove
  <2>3. CASE ~ Exhausted(k) /\ job' = [job EXCEPT ![k] = Recovered(@)]
    <3>1. job[k].attempts < MaxAttempts
      BY <1>0, <2>3, ConstantsAssumption DEF Exhausted, Rows
    <3>2. RowYields(k)
      BY <1>0, <2>1, <2>3, <3>1, WrittenRows DEF RowYields, TypeOK
    <3> QED BY <2>1, <3>2 DEF RowMove
  <2> QED BY <1>4, <2>2, <2>3 DEF RecoverStale
<1>5. ASSUME NEW k \in Keys, ExpireAbandoned(k)
      PROVE  OnlyRow(k) /\ RowMove(k)
  <2>1. RowSettles(k) /\ OnlyRow(k)
    BY <1>0, <1>5, WrittenRows
       DEF ExpireAbandoned, Abandoned, RowSettles, OnlyRow, Terminal, TypeOK
  <2> QED BY <2>1 DEF RowMove
<1>6. ASSUME NEW k \in Keys, PurgeExpired(k)
      PROVE  OnlyRow(k) /\ RowMove(k)
  <2>1. RowForgotten(k) /\ OnlyRow(k)
    BY <1>6 DEF PurgeExpired, RowForgotten, OnlyRow, TypeOK
  <2> QED BY <2>1 DEF RowMove
<1> QED BY <1>2, <1>3, <1>4, <1>5, <1>6
        DEF BeatTask, FindDue, RecoverRetry, Publish, BeatCrash

LEMMA MoveWorker ==
    ASSUME TypeOK, Order, ~ Backlog, NEW w \in Workers, WorkerStep(w)
    PROVE  \E k \in Keys : OnlyRow(k) /\ RowMove(k)
<1>0. \A k \in Keys : job[k] \in Rows /\ RowInOrder(k) /\ Owned(k)
  BY DEF TypeOK, Order, InOrder
<1>1. ASSUME NEW k \in Keys, Claim(w, k)
      PROVE  OnlyRow(k) /\ RowMove(k)
  <2>1. job[k].status = "queued" /\ job'[k] = Claimed(job[k]) /\ OnlyRow(k)
    BY <1>1 DEF Claim, Claimable, OnlyRow, TypeOK
  <2>2. RowStarted(k)
    BY <1>0, <2>1, WrittenRows DEF RowStarted, RowInOrder
  <2> QED BY <2>1, <2>2 DEF RowMove
<1>2. ASSUME NEW k \in Keys, k = worker[w].key, worker[w].pc # "idle",
             ~ \E j \in Keys : Claim(w, j)
      PROVE  OnlyRow(k) /\ RowMove(k)
  <2>0. /\ worker[w] \in Executions /\ job[k].status = "running"
        /\ job[k].attempts = worker[w].attempt
    BY <1>0, <1>2 DEF TypeOK, Owned, Held
  <2>1. ASSUME NEW row \in Rows, job' = [job EXCEPT ![k] = row],
               row.attempts = job[k].attempts,
               \/ row.status \in {"running"} \cup Terminal
               \/ row.status = "queued" /\ job[k].attempts < MaxAttempts
        PROVE  OnlyRow(k) /\ RowMove(k)
    <3>1. OnlyRow(k) /\ job'[k] = row
      BY <2>1 DEF OnlyRow, TypeOK
    <3>2. RowStays(k) \/ RowSettles(k) \/ RowYields(k)
      BY <2>0, <2>1, <3>1 DEF RowStays, RowSettles, RowYields, InFlight, Terminal
    <3> QED BY <3>1, <3>2 DEF RowMove
  <2>2. CASE CancelAtGate(w) \/ DegradeAtGate(w) \/ FailClaimed(w)
    <3>1. PICK row \in {Canceled(job[k]), Excepted(job[k])} : job' = [job EXCEPT ![k] = row]
      BY <1>2, <2>2 DEF CancelAtGate, DegradeAtGate, FailClaimed, Excepted
    <3>2. row \in Rows
      BY <1>0, <3>1, RowWrites DEF Excepted
    <3>3. row.status \in Terminal /\ row.attempts = job[k].attempts
      BY <1>0, <2>0, <3>1, WrittenRows, VerdictRows DEF Terminal
    <3> QED BY <2>1, <3>1, <3>2, <3>3
  <2>3. CASE PassGate(w) \/ WorkerCrash(w)
    <3>1. job' = [job EXCEPT ![k] = job[k]]
      BY <2>3 DEF PassGate, WorkerCrash, TypeOK
    <3> QED BY <1>0, <2>0, <2>1, <3>1
  <2>4. ASSUME NEW s \in Symbols, ScanSymbol(w, s) \/ FailSymbol(w, s)
        PROVE  OnlyRow(k) /\ RowMove(k)
    <3>1. job' = [job EXCEPT ![k] = Heartbeat(job[k])]
      BY <1>2, <2>4 DEF ScanSymbol, FailSymbol
    <3>2. /\ Heartbeat(job[k]) \in Rows /\ Heartbeat(job[k]).status = "running"
          /\ Heartbeat(job[k]).attempts = job[k].attempts
      BY <1>0, <2>0, WrittenRows, RowWrites
    <3> QED BY <2>1, <3>1, <3>2
  <2>5. CASE FinishScan(w)
    <3>1. CASE Requeues(worker[w])
      <4>1. job' = [job EXCEPT ![k] = Requeued(job[k])] /\ job[k].attempts < MaxAttempts
        BY <1>2, <2>0, <2>5, <3>1 DEF FinishScan, Requeues
      <4>2. /\ Requeued(job[k]) \in Rows /\ Requeued(job[k]).status = "queued"
            /\ Requeued(job[k]).attempts = job[k].attempts
        BY <1>0, WrittenRows, RowWrites
      <4> QED BY <2>1, <4>1, <4>2
    <3>2. CASE ~ Requeues(worker[w])
      <4>1. PICK row : row = Finished(job[k], worker[w]) /\ job' = [job EXCEPT ![k] = row]
        BY <1>2, <2>5, <3>2 DEF FinishScan
      <4>2. row \in Rows
        BY <1>0, <2>0, <4>1, RowWrites
      <4>3. row.status \in Terminal /\ row.attempts = job[k].attempts
        BY <1>0, <2>0, <4>1, VerdictRows DEF Terminal
      <4> QED BY <2>1, <4>1, <4>2, <4>3
    <3> QED BY <3>1, <3>2
  <2> QED BY <1>2, <2>2, <2>3, <2>4, <2>5, <1>1 DEF WorkerStep
<1> QED BY <1>1, <1>2, WorkerSteps DEF WorkStep

LEMMA MoveNext ==
    ASSUME TypeOK, AttemptInv, Order, ~ Backlog, [Next]_vars
    PROVE  UNCHANGED job \/ \E k \in Keys : OnlyRow(k) /\ RowMove(k)
<1>1. CASE (\E k \in Keys : DropDelivery(k)) \/ UNCHANGED vars
  BY <1>1 DEF DropDelivery, vars
<1> QED BY <1>1, MoveEnvironment, MoveBeatTask, MoveWorker DEF Next

LEMMA AttemptInvCorrect == Spec => []AttemptInv
<1>1. TypeOK /\ AttemptInv /\ [Next]_vars => (TypeOK' => AttemptInv')
  BY NextAttempts
<1> QED BY <1>1, InitAttempts, TypeCorrect, PTL DEF Spec

(* With workers that do not outlive their claims and no backlog, a settled   *)
(* row is never written again: it can only be purged.                        *)
THEOREM TerminalIsFinalCorrect ==
    ASSUME ~ SlowWorkers, ~ Backlog PROVE Spec => TerminalIsFinal
<1> DEFINE Final(k) == job[k].status \in Terminal =>
                          \/ job'[k] = job[k]
                          \/ job'[k] = [job[k] EXCEPT !.status = "purged"]
<1>1. TypeOK /\ AttemptInv /\ Order /\ [Next]_vars => \A k \in Keys : Final(k)
  <2> SUFFICES ASSUME TypeOK, AttemptInv, Order, [Next]_vars, NEW k \in Keys
               PROVE  Final(k)
    OBVIOUS
  <2>1. CASE job'[k] = job[k]
    BY <2>1
  <2>2. CASE RowMove(k)
    BY <2>2 DEF RowMove, RowStays, RowEnqueued, RowStarted, RowYields, RowSettles,
                RowForgotten, Terminal, InFlight
  <2> QED BY <2>1, <2>2, MoveNext DEF OnlyRow
<1> QED BY <1>1, TypeCorrect, AttemptInvCorrect, OrderCorrect, PTL DEF Spec, TerminalIsFinal

----------------------------------------------------------------------------
(* Plans.  When schedule_due passes do not overlap, what one found due is    *)
(* still free when it is inserted: nothing else starts a live check.         *)
OnePlan ==
    /\ \A j, k \in planned : j = k
    /\ \A k \in planned : k.kind = "live" /\ Free(k.version)
    /\ \A v \in Versions : \A j, k \in LiveInFlight(v) : j = k

LEMMA PlannedSteps ==
    ASSUME TypeOK, [Next]_vars
    PROVE  planned' \subseteq planned \/ \E v \in Versions : FindDue(v)
<1>1. CASE Environment
  BY <1>1 DEF Environment, ToggleMonitor, ToggleExperiment, NextBucket,
              HeartbeatGoesStale, RetryFallsDue, AgesOut, GrowsOld
<1>2. CASE BeatTask
  BY <1>2 DEF BeatTask, ScheduleExperiment, InsertPlanned, RecoverStale, RecoverRetry,
              ExpireAbandoned, PurgeExpired, Publish, BeatCrash
<1>3. ASSUME NEW w \in Workers, WorkerStep(w) PROVE planned' \subseteq planned
  BY <1>3 DEF WorkerStep, Claim, CancelAtGate, DegradeAtGate, PassGate, ScanSymbol,
              FailSymbol, FinishScan, FailClaimed, WorkerCrash
<1>4. CASE (\E k \in Keys : DropDelivery(k)) \/ UNCHANGED vars
  BY <1>4 DEF DropDelivery, vars
<1> QED BY <1>1, <1>2, <1>3, <1>4 DEF Next

\* A set whose members are all equal has at most one.
LEMMA AtMostOne ==
    ASSUME NEW S, \A x, y \in S : x = y
    PROVE  Cardinality(S) \in {0, 1} /\ (Cardinality(S) = 0 => S = {})
<1>1. CASE S = {}
  BY <1>1, FS_EmptySet
<1>2. ASSUME NEW x \in S
      PROVE  Cardinality(S) = 1
  <2>1. S = {x}
    BY <1>2
  <2>2. Cardinality({x}) = 1
    BY FS_Singleton
  <2> QED BY <2>1, <2>2
<1> QED BY <1>1, <1>2

LEMMA PlanNext ==
    ASSUME TypeOK, AttemptInv, Order, OnePlan, ~ Backlog, Schedulers = 1, [Next]_vars
    PROVE  OnePlan'
\* Nothing new is in flight, and nothing new is planned.
<1>1. ASSUME planned' \subseteq planned,
             \A k \in Keys : /\ k.kind = "live" /\ job'[k].status \in InFlight
                             => job[k].status \in InFlight
      PROVE  OnePlan'
  <2>1. \A v \in Versions : LiveInFlight(v)' \subseteq LiveInFlight(v)
    BY <1>1 DEF LiveInFlight, LiveKeys
  <2>2. \A v : Free(v) => Free(v)'
    BY <1>1 DEF Free, LiveKeys
  <2>3. \A k \in planned' : k.kind = "live" /\ Free(k.version)'
    BY <1>1, <2>2 DEF OnePlan
  <2> QED BY <1>1, <2>1, <2>3 DEF OnePlan
<1>2. ASSUME NEW v \in Versions, FindDue(v) PROVE OnePlan'
  <2> DEFINE k == [kind |-> "live", version |-> v, bucket |-> bucket]
  <2>1. Free(v) /\ Cardinality(planned) < 1 /\ planned' = planned \cup {k} /\ UNCHANGED job
    BY <1>2 DEF FindDue
  <2>2. planned = {}
    BY <2>1, AtMostOne DEF OnePlan
  <2>3. \A i \in planned' : i.kind = "live" /\ i.version = v
    BY <2>1, <2>2
  <2>4. Free(v)'
    BY <2>1 DEF Free
  <2>5. \A i \in planned' : i.kind = "live" /\ Free(i.version)'
    BY <2>3, <2>4
  <2>6. \A u \in Versions : LiveInFlight(u)' = LiveInFlight(u)
    BY <2>1 DEF LiveInFlight
  <2>7. \A i, j \in planned' : i = j
    BY <2>1, <2>2
  <2> QED BY <2>5, <2>6, <2>7 DEF OnePlan
<1>3. ASSUME planned' \subseteq planned, NEW k \in Keys, OnlyRow(k), RowEnqueued(k),
             k.kind = "live"
      PROVE  OnePlan'
  <2>1. planned' = {} /\ Free(k.version)
    BY <1>3 DEF RowEnqueued, OnePlan
  <2>2. LiveInFlight(k.version)' \subseteq {k}
    BY <1>3, <2>1 DEF Free, LiveInFlight, LiveKeys, OnlyRow
  <2>3. ASSUME NEW v \in Versions, v # k.version
        PROVE  LiveInFlight(v)' \subseteq LiveInFlight(v)
    BY <1>3, <2>3 DEF LiveInFlight, LiveKeys, OnlyRow
  <2> QED BY <2>1, <2>2, <2>3 DEF OnePlan
<1>4. CASE planned' \subseteq planned
  <2>1. CASE UNCHANGED job
    BY <1>1, <1>4, <2>1
  <2>2. ASSUME NEW k \in Keys, OnlyRow(k), RowMove(k) PROVE OnePlan'
    <3>1. CASE RowEnqueued(k) /\ k.kind = "live"
      BY <1>3, <1>4, <2>2, <3>1
    <3>2. CASE RowEnqueued(k) /\ k.kind # "live"
      BY <1>1, <1>4, <2>2, <3>2 DEF OnlyRow
    <3>3. CASE ~ RowEnqueued(k)
      <4>1. job'[k].status \in InFlight => job[k].status \in InFlight
        <5>1. CASE RowForgotten(k)
          <6>1. job'[k].status = "purged"
            BY <5>1 DEF RowForgotten, TypeOK, Rows
          <6> QED BY <6>1 DEF InFlight
        <5> QED BY <2>2, <3>3, <5>1 DEF RowMove, RowStays, RowStarted, RowYields,
                RowSettles, InFlight, Terminal
      <4> QED BY <1>1, <1>4, <2>2, <4>1 DEF OnlyRow
    <3> QED BY <3>1, <3>2, <3>3
  <2> QED BY <2>1, <2>2, MoveNext
<1> QED BY <1>2, <1>4, PlannedSteps

LEMMA PlanCorrect ==
    ASSUME ~ SlowWorkers, ~ Backlog, Schedulers = 1 PROVE Spec => []OnePlan
<1>1. Init => OnePlan
  <2> SUFFICES ASSUME Init PROVE OnePlan
    OBVIOUS
  <2>1. planned = {} /\ \A v \in Versions : LiveInFlight(v) = {}
    BY DEF Init, LiveInFlight, LiveKeys, NoRow, InFlight
  <2> QED BY <2>1 DEF OnePlan
<1>2. TypeOK /\ AttemptInv /\ Order /\ OnePlan /\ [Next]_vars => OnePlan'
  BY PlanNext
<1> QED BY <1>1, <1>2, TypeCorrect, AttemptInvCorrect, OrderCorrect, PTL DEF Spec

(* When, besides, schedule_due passes do not overlap, at most one live check *)
(* of a monitor is queued or running.                                        *)
THEOREM OneLiveInFlightCorrect ==
    ASSUME ~ SlowWorkers, ~ Backlog, Schedulers = 1 PROVE Spec => []OneLiveInFlight
<1>1. OnePlan => OneLiveInFlight
  <2> SUFFICES ASSUME OnePlan, NEW v \in Versions
               PROVE  Cardinality(LiveInFlight(v)) <= 1
    BY DEF OneLiveInFlight
  <2>1. Cardinality(LiveInFlight(v)) \in {0, 1}
    BY AtMostOne DEF OnePlan
  <2> QED BY <2>1
<1> QED BY <1>1, PlanCorrect, PTL

----------------------------------------------------------------------------
(* Refinement: each move of a row is a step of the lifecycle, or none.       *)
LEMMA PhaseCases ==
    /\ PhaseOf("absent") = "none" /\ PhaseOf("queued") = "waiting"
    /\ PhaseOf("running") = "running" /\ PhaseOf("purged") = "forgotten"
    /\ \A status \in Terminal : PhaseOf(status) = "settled"
    /\ \A status \in Statuses :
          PhaseOf(status) \in Lifecycle!Unsettled <=> status \in InFlight
<1>1. /\ PhaseOf("absent") = "none" /\ PhaseOf("queued") = "waiting"
      /\ PhaseOf("running") = "running" /\ PhaseOf("purged") = "forgotten"
      /\ \A status \in Terminal : PhaseOf(status) = "settled"
  BY DEF PhaseOf, Terminal
<1>2. \A status \in Statuses :
         PhaseOf(status) \in Lifecycle!Unsettled <=> status \in InFlight
  BY DEF PhaseOf, Lifecycle!Unsettled, Statuses, InFlight, Terminal
<1> QED BY <1>1, <1>2

LEMMA InitLifecycle == Init => Lifecycle!Init
BY PhaseCases DEF Init, Lifecycle!Init, NoRow

LEMMA StepLifecycle ==
    ASSUME TypeOK, TypeOK', AttemptInv, Order, OnePlan, ~ Backlog, [Next]_vars
    PROVE  [Lifecycle!Next]_(Lifecycle!lifecycleVars)
<1> DEFINE phase == [k \in Keys |-> PhaseOf(job[k].status)]
           tries == [k \in Keys |-> job[k].attempts]
<1>0. \A k \in Keys : job[k] \in Rows /\ job'[k] \in Rows
  BY DEF TypeOK
<1>1. CASE UNCHANGED job
  BY <1>1 DEF Lifecycle!lifecycleVars
<1>2. ASSUME NEW k \in Keys, OnlyRow(k), RowMove(k)
      PROVE  [Lifecycle!Next]_(Lifecycle!lifecycleVars)
  <2>1. ASSUME job'[k].attempts = job[k].attempts
        PROVE  tries' = tries
    BY <1>2, <2>1 DEF OnlyRow
  <2>2. phase' = [phase EXCEPT ![k] = PhaseOf(job'[k].status)]
    BY <1>2 DEF OnlyRow
  <2>3. CASE RowStays(k)
    <3>1. phase' = phase
      BY <2>2, <2>3 DEF RowStays
    <3> QED BY <2>1, <2>3, <3>1 DEF RowStays, Lifecycle!lifecycleVars
  <2>4. CASE RowEnqueued(k)
    <3>1. phase[k] = "none" /\ phase' = [phase EXCEPT ![k] = "waiting"] /\ tries' = tries
      BY <2>1, <2>2, <2>4, PhaseCases DEF RowEnqueued
    <3>2. ASSUME NEW v \in Versions, k \in LiveKeys(v), NEW other \in LiveKeys(v)
          PROVE  phase[other] \notin Lifecycle!Unsettled
      <4>1. Free(v) /\ other \in Keys
        BY <2>4, <3>2 DEF LiveKeys, RowEnqueued, OnePlan
      <4>2. job[other].status \in Statuses \ InFlight
        BY <1>0, <3>2, <4>1 DEF Free, Rows
      <4> QED BY <4>1, <4>2, PhaseCases
    <3>3. Lifecycle!Enqueue(k)
      BY <3>1, <3>2 DEF Lifecycle!Enqueue
    <3> QED BY <3>3 DEF Lifecycle!Next
  <2>5. CASE RowStarted(k)
    <3>1. phase[k] = "waiting" /\ phase' = [phase EXCEPT ![k] = "running"]
      BY <2>2, <2>5, PhaseCases DEF RowStarted
    <3>2. tries[k] < MaxAttempts /\ tries' = [tries EXCEPT ![k] = @ + 1]
      BY <1>2, <2>5 DEF RowStarted, OnlyRow
    <3>3. Lifecycle!Start(k)
      BY <3>1, <3>2 DEF Lifecycle!Start
    <3> QED BY <3>3 DEF Lifecycle!Next
  <2>6. CASE RowYields(k)
    <3>1. phase[k] = "running" /\ phase' = [phase EXCEPT ![k] = "waiting"]
          /\ tries[k] < MaxAttempts /\ tries' = tries
      BY <2>1, <2>2, <2>6, PhaseCases DEF RowYields
    <3>2. Lifecycle!Yield(k)
      BY <3>1 DEF Lifecycle!Yield
    <3> QED BY <3>2 DEF Lifecycle!Next
  <2>7. CASE RowSettles(k)
    <3>1. phase[k] \in Lifecycle!Unsettled /\ phase' = [phase EXCEPT ![k] = "settled"]
          /\ tries' = tries
      <4>1. job[k].status \in Statuses
        BY <1>0 DEF Rows
      <4> QED BY <2>1, <2>2, <2>7, <4>1, PhaseCases DEF RowSettles
    <3>2. Lifecycle!Settle(k)
      BY <3>1 DEF Lifecycle!Settle
    <3> QED BY <3>2 DEF Lifecycle!Next
  <2>8. CASE RowForgotten(k)
    <3>1. job'[k].status = "purged" /\ job'[k].attempts = job[k].attempts
      BY <1>0, <2>8 DEF RowForgotten, Rows
    <3>2. phase[k] = "settled" /\ phase' = [phase EXCEPT ![k] = "forgotten"]
          /\ tries' = tries
      BY <2>1, <2>2, <2>8, <3>1, PhaseCases DEF RowForgotten
    <3>3. Lifecycle!Forget(k)
      BY <3>2 DEF Lifecycle!Forget
    <3> QED BY <3>3 DEF Lifecycle!Next
  <2> QED BY <1>2, <2>3, <2>4, <2>5, <2>6, <2>7, <2>8 DEF RowMove
<1> QED BY <1>1, <1>2, MoveNext

(* The queue implements ScanJobLifecycle when workers do not outlive their   *)
(* claims, no row waits out the abandonment window, and schedule_due passes  *)
(* do not overlap.                                                           *)
THEOREM ImplementsLifecycleCorrect ==
    ASSUME ~ SlowWorkers, ~ Backlog, Schedulers = 1 PROVE Spec => ImplementsLifecycle
<1>1. TypeOK /\ TypeOK' /\ AttemptInv /\ Order /\ OnePlan /\ [Next]_vars
         => [Lifecycle!Next]_(Lifecycle!lifecycleVars)
  BY StepLifecycle
<1> QED BY <1>1, InitLifecycle, TypeCorrect, AttemptInvCorrect, OrderCorrect, PlanCorrect,
           PTL DEF Spec, ImplementsLifecycle, Lifecycle!Spec
=============================================================================
