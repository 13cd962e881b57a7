-------------------------- MODULE ScanJobsProofs --------------------------
(***************************************************************************)
(* Theorems about ScanJobs, for every number of monitors, symbols, workers, *)
(* attempts and overlapping beat passes.                                    *)
(***************************************************************************)
EXTENDS ScanJobs, FiniteSetTheorems, TLAPS

(* A job's results are finitely many.                                        *)
LEMMA ResultsFinite ==
    ASSUME TypeOK, NEW k \in Keys
    PROVE  IsFiniteSet(results[k]) /\ Cardinality(results[k]) \in Nat
<1>1. results[k] \subseteq Symbols /\ IsFiniteSet(Symbols)
  BY ConstantsAssumption DEF TypeOK
<1> QED BY <1>1, FS_Subset, FS_CardinalityType

(* A worker that is not idle works on a job that has a key.                  *)
LEMMA BusyHasKey ==
    ASSUME TypeOK, NEW w \in Workers, worker[w].pc # "idle"
    PROVE  worker[w].key \in Keys
BY DEF TypeOK, Executions

(* The initial state is well typed.                                          *)
LEMMA InitTypeOK == Init => TypeOK
BY ConstantsAssumption, NoJobAssumption
   DEF Init, TypeOK, Rows, Executions, NoRow, Idle, Statuses, ErrorCodes,
       NotMetered

(* Every way the code rewrites a row yields a row.                           *)
LEMMA RowWrites ==
    ASSUME NEW row \in Rows
    PROVE  /\ \A why \in ErrorCodes : Failed(row, why) \in Rows
           /\ Recovered(row) \in Rows
           /\ Claimed(row) \in Rows
           /\ Canceled(row) \in Rows
           /\ Heartbeat(row) \in Rows
           /\ Requeued(row) \in Rows
           /\ \A me \in Executions : Finished(row, me) \in Rows
           /\ [row EXCEPT !.status = "purged"] \in Rows
           /\ [Failed(row, "exception") EXCEPT !.retry = "none"] \in Rows
<1> USE DEF Rows, Statuses, InFlight, Terminal, ErrorCodes
<1>1. \A why \in ErrorCodes : Failed(row, why) \in Rows
  BY DEF Failed
<1>2. Recovered(row) \in Rows
  BY DEF Recovered
<1>3. Claimed(row) \in Rows
  <2>1. row.attempts + 1 \in Nat
    OBVIOUS
  <2> QED BY <2>1 DEF Claimed
<1>4. Canceled(row) \in Rows
  BY DEF Canceled
<1>5. Heartbeat(row) \in Rows
  BY DEF Heartbeat
<1>6. Requeued(row) \in Rows
  BY DEF Requeued
<1>7. ASSUME NEW me \in Executions PROVE Finished(row, me) \in Rows
  <2>1. Verdict(me).status \in Statuses /\ Verdict(me).reason \in ErrorCodes
    BY DEF Verdict
  <2> QED BY <2>1 DEF Finished
<1>8. [row EXCEPT !.status = "purged"] \in Rows
  OBVIOUS
<1>9. [Failed(row, "exception") EXCEPT !.retry = "none"] \in Rows
  BY DEF Failed
<1> QED BY <1>1, <1>2, <1>3, <1>4, <1>5, <1>6, <1>7, <1>8, <1>9

(* Every way a worker changes its memory leaves it well formed, and busy.    *)
LEMMA ExecutionWrites ==
    ASSUME TypeOK, NEW w \in Workers, worker[w].pc # "idle"
    PROVE  /\ Resumed(worker[w]) \in Executions
           /\ Resumed(worker[w]).key \in Keys /\ Resumed(worker[w]).pc # "idle"
           /\ \A s \in Symbols :
                 /\ WithResult(worker[w], s) \in Executions
                 /\ WithResult(worker[w], s).key = worker[w].key
                 /\ WithResult(worker[w], s).pc = worker[w].pc
           /\ \A s \in Symbols, kind \in FailureKinds :
                 /\ WithFailure(worker[w], s, kind) \in Executions
                 /\ WithFailure(worker[w], s, kind).key = worker[w].key
                 /\ WithFailure(worker[w], s, kind).pc = worker[w].pc
<1> DEFINE me == worker[w]
<1>1. me \in Executions /\ me.key \in Keys
  BY BusyHasKey DEF TypeOK
<1>2. AlreadyScanned(me.key) \in Nat
  BY <1>1, ResultsFinite DEF AlreadyScanned
<1>3. Resumed(me) \in Executions /\ Resumed(me).key = me.key
      /\ Resumed(me).pc = "scanning"
  BY <1>1, <1>2 DEF Resumed, Executions
<1>4. ASSUME NEW s \in Symbols
      PROVE  /\ WithResult(me, s) \in Executions
             /\ WithResult(me, s).key = me.key /\ WithResult(me, s).pc = me.pc
  <2>1. me.scanned + 1 \in Nat
    BY <1>1 DEF Executions
  <2> QED BY <1>1, <2>1 DEF WithResult, Executions
<1>5. ASSUME NEW s \in Symbols, NEW kind \in FailureKinds
      PROVE  /\ WithFailure(me, s, kind) \in Executions
             /\ WithFailure(me, s, kind).key = me.key
             /\ WithFailure(me, s, kind).pc = me.pc
  BY <1>1 DEF WithFailure, Executions
<1> QED BY <1>1, <1>3, <1>4, <1>5

(* Steps of the environment and of beat tasks preserve the types: none       *)
(* touches a worker.                                                         *)
LEMMA EnvironmentTypeOK == TypeOK /\ Environment => TypeOK'
<1> SUFFICES ASSUME TypeOK, Environment PROVE TypeOK'
  OBVIOUS
<1> USE ConstantsAssumption DEF TypeOK
<1>1. ASSUME NEW v \in Versions, ToggleMonitor(v) PROVE TypeOK'
  BY <1>1 DEF ToggleMonitor
<1>2. ASSUME NEW v \in ExperimentVersions, ToggleExperiment(v) PROVE TypeOK'
  BY <1>2 DEF ToggleExperiment
<1>3. CASE NextBucket
  BY <1>3 DEF NextBucket
<1>4. ASSUME NEW k \in Keys, HeartbeatGoesStale(k) PROVE TypeOK'
  BY <1>4 DEF HeartbeatGoesStale, Rows
<1>5. ASSUME NEW k \in Keys, RetryFallsDue(k) PROVE TypeOK'
  BY <1>5 DEF RetryFallsDue, Rows
<1>6. ASSUME NEW k \in Keys, AgesOut(k) PROVE TypeOK'
  BY <1>6 DEF AgesOut, GrowsOld, Rows
<1> QED BY <1>1, <1>2, <1>3, <1>4, <1>5, <1>6 DEF Environment

(* The scheduled tasks keep the shapes.                                      *)
LEMMA BeatTaskTypeOK == TypeOK /\ BeatTask => TypeOK'
<1> SUFFICES ASSUME TypeOK, BeatTask PROVE TypeOK'
  OBVIOUS
<1>a. QueuedRow \in Rows
  BY DEF QueuedRow, NoRow, Rows, Statuses, InFlight, ErrorCodes
<1>b. \A k \in Keys : job[k] \in Rows
  BY DEF TypeOK
<1>1. ASSUME NEW v \in Versions, FindDue(v) PROVE TypeOK'
  BY <1>1 DEF FindDue, Keys, TypeOK
<1>2. ASSUME NEW v \in ExperimentVersions, ScheduleExperiment(v) PROVE TypeOK'
  <2>1. [kind |-> "experiment", version |-> v, bucket |-> bucket] \in Keys
    BY DEF Keys, TypeOK
  <2> QED BY <1>2, <1>a, <2>1 DEF ScheduleExperiment, TypeOK
<1>3. ASSUME NEW k \in Keys, InsertPlanned(k) PROVE TypeOK'
  BY <1>3, <1>a DEF InsertPlanned, TypeOK
<1>4. ASSUME NEW k \in Keys, RecoverStale(k) PROVE TypeOK'
  <2>1. Failed(job[k], "stale_running_job_exhausted") \in Rows
        /\ Recovered(job[k]) \in Rows
    BY <1>b, RowWrites DEF ErrorCodes
  <2> QED BY <1>4, <2>1 DEF RecoverStale, TypeOK
<1>5. ASSUME NEW k \in Keys, RecoverRetry(k) PROVE TypeOK'
  BY <1>5 DEF RecoverRetry, TypeOK
<1>6. ASSUME NEW k \in Keys, ExpireAbandoned(k) PROVE TypeOK'
  <2>1. Failed(job[k], "scan_job_abandoned") \in Rows
    BY <1>b, RowWrites DEF ErrorCodes
  <2> QED BY <1>6, <2>1 DEF ExpireAbandoned, TypeOK
<1>7. ASSUME NEW k \in Keys, PurgeExpired(k) PROVE TypeOK'
  <2>1. [job[k] EXCEPT !.status = "purged"] \in Rows
    BY <1>b, RowWrites
  <2> QED BY <1>7, <2>1 DEF PurgeExpired, TypeOK
<1>8. ASSUME NEW k \in Keys, Publish(k) PROVE TypeOK'
  BY <1>8 DEF Publish, TypeOK
<1>9. CASE BeatCrash
  BY <1>9 DEF BeatCrash, TypeOK
<1> QED BY <1>1, <1>2, <1>3, <1>4, <1>5, <1>6, <1>7, <1>8, <1>9 DEF BeatTask

(* A worker step changes one worker and the row of the job it holds.         *)
LEMMA WorkerStepTypeOK ==
    ASSUME TypeOK, NEW w \in Workers, WorkerStep(w)
    PROVE  TypeOK'
<1> DEFINE me == worker[w]
           key == me.key
<1>a. \A k \in Keys : job[k] \in Rows
  BY DEF TypeOK
<1>b. me.pc # "idle" => key \in Keys
  BY BusyHasKey
<1>c. Idle \in Executions /\ Idle.pc = "idle" /\ Idle.key = NoJob
  BY DEF Idle, Executions
<1>1. ASSUME NEW k \in Keys, Claim(w, k) PROVE TypeOK'
  <2>1. Claimed(job[k]) \in Rows
    BY <1>a, RowWrites
  <2>2. Started(k) \in Executions /\ Started(k).pc # "idle"
        /\ Started(k).key # NoJob
    <3>1. job[k].attempts + 1 \in Nat
      BY <1>a DEF Rows
    <3> QED BY <3>1, NoJobAssumption DEF Started, Executions
  <2> QED BY <1>1, <2>1, <2>2 DEF Claim, TakeMessage, TypeOK
<1>2. CASE CancelAtGate(w) \/ DegradeAtGate(w)
  <2>1. me.pc # "idle" /\ key \in Keys
    BY <1>2, <1>b DEF CancelAtGate, DegradeAtGate
  <2>2. Canceled(job[key]) \in Rows
    BY <2>1, <1>a, RowWrites
  <2> QED BY <1>2, <2>1, <2>2, <1>c DEF CancelAtGate, DegradeAtGate, TypeOK
<1>3. CASE PassGate(w)
  <2>1. me.pc # "idle"
    BY <1>3 DEF PassGate
  <2>2. Resumed(me) \in Executions /\ Resumed(me).key # NoJob
        /\ Resumed(me).pc # "idle"
    BY <2>1, ExecutionWrites, NoJobAssumption
  <2> QED BY <1>3, <2>2 DEF PassGate, TypeOK
<1>4. ASSUME NEW s \in Symbols, ScanSymbol(w, s) PROVE TypeOK'
  <2>1. me.pc # "idle" /\ key \in Keys
    BY <1>4, <1>b DEF ScanSymbol
  <2>2. /\ WithResult(me, s) \in Executions
        /\ WithResult(me, s).key = key /\ WithResult(me, s).pc = me.pc
    BY <2>1, ExecutionWrites
  <2>3. Heartbeat(job[key]) \in Rows
    BY <2>1, <1>a, RowWrites
  <2> QED BY <1>4, <2>1, <2>2, <2>3 DEF ScanSymbol, TypeOK
<1>5. ASSUME NEW s \in Symbols, FailSymbol(w, s) PROVE TypeOK'
  <2>1. me.pc # "idle" /\ key \in Keys
    BY <1>5, <1>b DEF FailSymbol
  <2>2. PICK kind \in FailureKinds :
          worker' = [worker EXCEPT ![w] = WithFailure(me, s, kind)]
    BY <1>5 DEF FailSymbol, TypeOK
  <2>3. /\ WithFailure(me, s, kind) \in Executions
        /\ WithFailure(me, s, kind).key = key
        /\ WithFailure(me, s, kind).pc = me.pc
    BY <2>1, ExecutionWrites
  <2>4. Heartbeat(job[key]) \in Rows
    BY <2>1, <1>a, RowWrites
  <2> QED BY <1>5, <2>1, <2>2, <2>3, <2>4 DEF FailSymbol, TypeOK
<1>6. CASE FinishScan(w)
  <2>1. me.pc # "idle" /\ key \in Keys /\ me \in Executions
    BY <1>6, <1>b DEF FinishScan, TypeOK
  <2>2. Requeued(job[key]) \in Rows /\ Finished(job[key], me) \in Rows
    BY <2>1, <1>a, RowWrites
  <2>3. usage' \in [Keys -> Nat \cup {NotMetered}]
    BY <1>6, <2>1 DEF FinishScan, Metered, TypeOK, Executions
  <2> QED BY <1>6, <2>1, <2>2, <2>3, <1>c DEF FinishScan, TypeOK
<1>7. CASE FailClaimed(w)
  <2>1. me.pc # "idle" /\ key \in Keys
    BY <1>7, <1>b DEF FailClaimed
  <2>2. [Failed(job[key], "exception") EXCEPT !.retry = "none"] \in Rows
    BY <2>1, <1>a, RowWrites
  <2> QED BY <1>7, <2>1, <2>2, <1>c DEF FailClaimed, TypeOK
<1>8. CASE WorkerCrash(w)
  BY <1>8, <1>b, <1>c DEF WorkerCrash, TypeOK
<1> QED BY <1>1, <1>2, <1>3, <1>4, <1>5, <1>6, <1>7, <1>8 DEF WorkerStep

(* Every step keeps the shapes.                                              *)
LEMMA NextTypeOK == TypeOK /\ [Next]_vars => TypeOK'
<1> SUFFICES ASSUME TypeOK, [Next]_vars PROVE TypeOK'
  OBVIOUS
<1>1. CASE Environment
  BY <1>1, EnvironmentTypeOK
<1>2. CASE BeatTask
  BY <1>2, BeatTaskTypeOK
<1>3. ASSUME NEW k \in Keys, DropDelivery(k) PROVE TypeOK'
  BY <1>3 DEF DropDelivery, TypeOK
<1>4. ASSUME NEW w \in Workers, WorkerStep(w) PROVE TypeOK'
  BY <1>4, WorkerStepTypeOK
<1>5. CASE UNCHANGED vars
  BY <1>5 DEF vars, TypeOK
<1> QED BY <1>1, <1>2, <1>3, <1>4, <1>5 DEF Next

(* Rows, messages and workers keep their shapes, whatever overlaps, crashes  *)
(* or is lost.                                                               *)
THEOREM TypeCorrect == Spec => []TypeOK
BY InitTypeOK, NextTypeOK, PTL DEF Spec

----------------------------------------------------------------------------
(* Attempts.  Each attempt number of a job is taken by one claim, so at most *)
(* MaxAttempts - 1 workers hold an attempt number that still lets them put    *)
(* the job back; once the budget is used up every further claim is paid for  *)
(* by one of them.                                                           *)
Early(k) == {w \in Workers : worker[w].key = k /\ worker[w].attempt < MaxAttempts}
Waiting(k) == IF job[k].status = "queued" THEN 1 ELSE 0

AttemptInv ==
    /\ \A k \in Keys : job[k].status = "absent" => job[k].attempts = 0
    /\ \A k \in Keys, w \in Workers :
          worker[w].key = k => worker[w].attempt \in 1 .. job[k].attempts
    /\ \A k \in Keys, v, w \in Workers :
          /\ worker[v].key = k /\ worker[w].key = k
          /\ worker[v].attempt = worker[w].attempt
          => v = w
    /\ \A k \in Keys :
          job[k].attempts >= MaxAttempts =>
              job[k].attempts + Cardinality(Early(k)) + Waiting(k)
                  <= 2 * MaxAttempts - 1

\* A step that claims nothing and lets no late worker put a job back.
QuietStep ==
    /\ \A w \in Workers :
          \/ worker'[w].key = NoJob
          \/ /\ worker'[w].key = worker[w].key
             /\ worker'[w].attempt = worker[w].attempt
    /\ \A k \in Keys :
          /\ job'[k].attempts = job[k].attempts
          /\ job'[k].status = "absent" => job[k].status = "absent"
          /\ job'[k].status = "queued" =>
                job[k].status = "queued" \/ job[k].attempts < MaxAttempts

(* The workers that claimed below the budget can be counted.                 *)
LEMMA EarlyFinite ==
    ASSUME NEW k
    PROVE  IsFiniteSet(Early(k)) /\ Cardinality(Early(k)) \in Nat
BY ConstantsAssumption, FS_Subset, FS_CardinalityType DEF Early

(* A quiet step keeps the accounting.                                        *)
LEMMA QuietStepAttempts ==
    TypeOK /\ TypeOK' /\ AttemptInv /\ QuietStep => AttemptInv'
<1> SUFFICES ASSUME TypeOK, TypeOK', AttemptInv, QuietStep PROVE AttemptInv'
  OBVIOUS
<1>1. ASSUME NEW k \in Keys, job'[k].status = "absent"
      PROVE  job'[k].attempts = 0
  BY <1>1 DEF AttemptInv, QuietStep
<1>2. ASSUME NEW k \in Keys, NEW w \in Workers, worker'[w].key = k
      PROVE  worker'[w].attempt \in 1 .. job'[k].attempts
  BY <1>2, NoJobAssumption DEF AttemptInv, QuietStep
<1>3. ASSUME NEW k \in Keys, NEW v \in Workers, NEW w \in Workers,
             worker'[v].key = k, worker'[w].key = k,
             worker'[v].attempt = worker'[w].attempt
      PROVE  v = w
  BY <1>3, NoJobAssumption DEF AttemptInv, QuietStep
<1>4. ASSUME NEW k \in Keys, job'[k].attempts >= MaxAttempts
      PROVE  job'[k].attempts + Cardinality(Early(k)') + Waiting(k)'
                <= 2 * MaxAttempts - 1
  <2>1. Early(k)' \subseteq Early(k)
    BY NoJobAssumption DEF Early, QuietStep
  <2>2. Cardinality(Early(k)') <= Cardinality(Early(k))
        /\ Cardinality(Early(k)') \in Nat /\ Cardinality(Early(k)) \in Nat
    BY <2>1, EarlyFinite, FS_Subset, FS_CardinalityType
  <2>3. job'[k].attempts = job[k].attempts /\ job[k].attempts \in Nat
    BY DEF QuietStep, TypeOK, Rows
  <2>4. Waiting(k)' <= Waiting(k) /\ Waiting(k) \in Nat /\ Waiting(k)' \in Nat
    BY <1>4, <2>3, ConstantsAssumption DEF Waiting, QuietStep
  <2>5. job[k].attempts + Cardinality(Early(k)) + Waiting(k)
            <= 2 * MaxAttempts - 1
    BY <1>4, <2>3 DEF AttemptInv
  <2> QED BY <2>2, <2>3, <2>4, <2>5, ConstantsAssumption
<1> QED BY <1>1, <1>2, <1>3, <1>4 DEF AttemptInv

(* A claim takes the next attempt number; the claim that reaches the budget  *)
(* leaves at most MaxAttempts - 1 workers below it.                          *)
LEMMA ClaimAttempts ==
    ASSUME TypeOK, TypeOK', AttemptInv,
           NEW w \in Workers, NEW k \in Keys, Claim(w, k)
    PROVE  AttemptInv'
<1> DEFINE n == job[k].attempts
<1>a. /\ worker' = [worker EXCEPT ![w] = Started(k)]
      /\ job' = [job EXCEPT ![k] = Claimed(@)]
      /\ worker[w].key = NoJob /\ job[k].status = "queued"
  BY DEF Claim, Claimable, TypeOK
<1>b. /\ n \in Nat /\ job'[k].attempts = n + 1
      /\ job'[k].status = "running"
      /\ worker'[w].key = k /\ worker'[w].attempt = n + 1
  BY <1>a DEF TypeOK, Rows, Claimed, Started
<1>c. /\ \A other \in Keys : other # k => job'[other] = job[other]
      /\ \A v \in Workers : v # w => worker'[v] = worker[v]
  BY <1>a DEF TypeOK
<1>d. \A v \in Workers : worker[v].key = k => worker[v].attempt \in 1 .. n
  BY DEF AttemptInv
<1>1. ASSUME NEW j \in Keys, job'[j].status = "absent"
      PROVE  job'[j].attempts = 0
  BY <1>1, <1>b, <1>c DEF AttemptInv
<1>2. ASSUME NEW j \in Keys, NEW v \in Workers, worker'[v].key = j
      PROVE  worker'[v].attempt \in 1 .. job'[j].attempts
  <2>1. CASE v = w
    BY <2>1, <1>2, <1>b
  <2>2. CASE v # w
    <3>1. worker[v].key = j /\ worker[v].attempt = worker'[v].attempt
      BY <2>2, <1>2, <1>c
    <3>2. worker[v].attempt \in 1 .. job[j].attempts
      BY <3>1 DEF AttemptInv
    <3>3. job'[j].attempts = job[j].attempts \/ (j = k /\ job[j].attempts = n)
      BY <1>c
    <3> QED BY <3>1, <3>2, <3>3, <1>b
  <2> QED BY <2>1, <2>2
<1>3. ASSUME NEW j \in Keys, NEW u \in Workers, NEW v \in Workers,
             worker'[u].key = j, worker'[v].key = j,
             worker'[u].attempt = worker'[v].attempt
      PROVE  u = v
  <2>1. CASE u # w /\ v # w
    BY <2>1, <1>3, <1>c DEF AttemptInv
  <2>2. CASE u = w /\ v # w
    <3>1. j = k /\ worker[v].key = k /\ worker[v].attempt = n + 1
      BY <2>2, <1>3, <1>b, <1>c
    <3> QED BY <3>1, <1>b, <1>d
  <2>3. CASE v = w /\ u # w
    <3>1. j = k /\ worker[u].key = k /\ worker[u].attempt = n + 1
      BY <2>3, <1>3, <1>b, <1>c
    <3> QED BY <3>1, <1>b, <1>d
  <2> QED BY <2>1, <2>2, <2>3
<1>4. ASSUME NEW j \in Keys, job'[j].attempts >= MaxAttempts
      PROVE  job'[j].attempts + Cardinality(Early(j)') + Waiting(j)'
                <= 2 * MaxAttempts - 1
  <2>1. CASE j # k
    <3>1. Early(j)' = Early(j)
      BY <2>1, <1>a, <1>b, <1>c, NoJobAssumption DEF Early
    <3>2. job'[j] = job[j] /\ Waiting(j)' = Waiting(j)
      BY <2>1, <1>c DEF Waiting
    <3> QED BY <3>1, <3>2, <1>4 DEF AttemptInv
  <2>2. CASE j = k /\ n >= MaxAttempts
    <3>1. Early(k)' = Early(k)
      BY <2>2, <1>a, <1>b, <1>c, NoJobAssumption, ConstantsAssumption DEF Early
    <3>2. Waiting(k)' = 0 /\ Waiting(k) = 1
      BY <1>a, <1>b DEF Waiting
    <3>3. n + Cardinality(Early(k)) + 1 <= 2 * MaxAttempts - 1
      BY <2>2, <3>2 DEF AttemptInv
    <3>4. Cardinality(Early(k)) \in Nat
      BY EarlyFinite
    <3> QED BY <2>2, <3>1, <3>2, <3>3, <3>4, <1>b, ConstantsAssumption
  <2>3. CASE j = k /\ n < MaxAttempts
    <3>1. n + 1 = MaxAttempts
      BY <2>3, <1>4, <1>b, ConstantsAssumption
    <3> DEFINE E == Early(k)'
               number == [v \in E |-> worker'[v].attempt]
    <3>2. E = Early(k)' /\ \A v \in E : v \in Workers /\ v # w
      BY <1>b, <3>1 DEF Early
    <3>3. \A v \in E : worker'[v] = worker[v] /\ worker[v].key = k
      BY <3>2, <1>c DEF Early
    <3>4. \A v \in E : worker'[v].attempt \in 1 .. MaxAttempts - 1
      BY <3>1, <3>2, <3>3, <1>b, <1>d, ConstantsAssumption
    <3>5. \A u, v \in E : number[u] = number[v] => u = v
      BY <3>2, <3>3 DEF AttemptInv
    <3>6. number \in Injection(E, 1 .. MaxAttempts - 1)
      BY <3>4, <3>5 DEF Injection, IsInjective
    <3>7. /\ IsFiniteSet(1 .. MaxAttempts - 1)
          /\ Cardinality(1 .. MaxAttempts - 1) = MaxAttempts - 1
      BY FS_Interval, ConstantsAssumption
    <3>8. Cardinality(E) <= MaxAttempts - 1 /\ IsFiniteSet(E)
      BY <3>6, <3>7, FS_Injection
    <3>9. Cardinality(E) \in Nat
      BY <3>8, FS_CardinalityType
    <3>10. Waiting(k)' = 0
      BY <1>b DEF Waiting
    <3> QED BY <2>3, <3>1, <3>8, <3>9, <3>10, <1>b, ConstantsAssumption
  <2> QED BY <2>1, <2>2, <2>3, <1>b, ConstantsAssumption
<1> QED BY <1>1, <1>2, <1>3, <1>4 DEF AttemptInv

(* A worker that puts its job back was early, and is idle afterwards.        *)
LEMMA RequeueAttempts ==
    ASSUME TypeOK, TypeOK', AttemptInv,
           NEW w \in Workers, FinishScan(w), Requeues(worker[w])
    PROVE  AttemptInv'
<1>a. worker[w].pc # "idle"
  BY DEF FinishScan
<1>b. PICK k \in Keys : k = worker[w].key
  BY <1>a, BusyHasKey
<1>c. /\ worker' = [worker EXCEPT ![w] = Idle]
      /\ job' = [job EXCEPT ![k] = Requeued(@)]
  BY <1>b DEF FinishScan, TypeOK
<1>d. /\ worker'[w].key = NoJob
      /\ \A v \in Workers : v # w => worker'[v] = worker[v]
  BY <1>c DEF TypeOK, Idle
<1>e. /\ \A j \in Keys : job'[j].attempts = job[j].attempts
      /\ \A j \in Keys : j # k => job'[j] = job[j]
      /\ job'[k].status = "queued"
      /\ \A j \in Keys : job[j].attempts \in Nat
  BY <1>b, <1>c DEF TypeOK, Rows, Requeued
<1>f. w \in Early(k)
  BY <1>b DEF Early, Requeues
<1>1. ASSUME NEW j \in Keys, job'[j].status = "absent"
      PROVE  job'[j].attempts = 0
  BY <1>1, <1>e DEF AttemptInv
<1>2. ASSUME NEW j \in Keys, NEW v \in Workers, worker'[v].key = j
      PROVE  worker'[v].attempt \in 1 .. job'[j].attempts
  <2>1. v # w /\ worker[v] = worker'[v]
    BY <1>2, <1>d, NoJobAssumption
  <2> QED BY <2>1, <1>2, <1>e DEF AttemptInv
<1>3. ASSUME NEW j \in Keys, NEW u \in Workers, NEW v \in Workers,
             worker'[u].key = j, worker'[v].key = j,
             worker'[u].attempt = worker'[v].attempt
      PROVE  u = v
  <2>1. u # w /\ v # w
    BY <1>3, <1>d, NoJobAssumption
  <2>2. worker[u] = worker'[u] /\ worker[v] = worker'[v]
    BY <2>1, <1>d
  <2> QED BY <2>2, <1>3 DEF AttemptInv
<1>4. ASSUME NEW j \in Keys, job'[j].attempts >= MaxAttempts
      PROVE  job'[j].attempts + Cardinality(Early(j)') + Waiting(j)'
                <= 2 * MaxAttempts - 1
  <2>1. CASE j # k
    <3>1. Early(j)' = Early(j)
      BY <2>1, <1>b, <1>d, NoJobAssumption DEF Early
    <3>2. job'[j] = job[j] /\ Waiting(j)' = Waiting(j)
      BY <2>1, <1>e DEF Waiting
    <3> QED BY <3>1, <3>2, <1>4 DEF AttemptInv
  <2>2. CASE j = k
    <3>1. Early(k)' = Early(k) \ {w}
      BY <1>b, <1>d, NoJobAssumption DEF Early
    <3>2. Cardinality(Early(k)') = Cardinality(Early(k)) - 1
      BY <3>1, <1>f, EarlyFinite, FS_RemoveElement
    <3>3. Cardinality(Early(k)) \in Nat
      BY EarlyFinite
    <3>4. Waiting(k)' = 1 /\ Waiting(k) \in {0, 1}
      BY <1>e DEF Waiting
    <3>5. job[k].attempts + Cardinality(Early(k)) + Waiting(k)
              <= 2 * MaxAttempts - 1
      BY <1>b, <1>4, <2>2, <1>e DEF AttemptInv
    <3> QED BY <1>b, <2>2, <3>2, <3>3, <3>4, <3>5, <1>e, ConstantsAssumption
  <2> QED BY <2>1, <2>2
<1> QED BY <1>1, <1>2, <1>3, <1>4 DEF AttemptInv

(* Beat tasks and the environment are quiet: recovery re-queues only a row    *)
(* that has budget left, and a fresh insert starts from no attempts.         *)
LEMMA EnvironmentQuiet == TypeOK /\ Environment => QuietStep
<1> SUFFICES ASSUME TypeOK, Environment PROVE QuietStep
  OBVIOUS
<1> USE DEF QuietStep
<1>1. ASSUME NEW v \in Versions, ToggleMonitor(v) PROVE QuietStep
  BY <1>1 DEF ToggleMonitor
<1>2. ASSUME NEW v \in ExperimentVersions, ToggleExperiment(v) PROVE QuietStep
  BY <1>2 DEF ToggleExperiment
<1>3. CASE NextBucket
  BY <1>3 DEF NextBucket
<1>4. ASSUME NEW k \in Keys, HeartbeatGoesStale(k) PROVE QuietStep
  BY <1>4 DEF HeartbeatGoesStale, TypeOK, Rows
<1>5. ASSUME NEW k \in Keys, RetryFallsDue(k) PROVE QuietStep
  BY <1>5 DEF RetryFallsDue, TypeOK, Rows
<1>6. ASSUME NEW k \in Keys, AgesOut(k) PROVE QuietStep
  BY <1>6 DEF AgesOut, GrowsOld, TypeOK, Rows
<1> QED BY <1>1, <1>2, <1>3, <1>4, <1>5, <1>6 DEF Environment

(* The scheduled tasks are quiet.                                            *)
LEMMA BeatTaskQuiet == TypeOK /\ AttemptInv /\ BeatTask => QuietStep
<1> SUFFICES ASSUME TypeOK, AttemptInv, BeatTask PROVE QuietStep
  OBVIOUS
<1>a. \A k \in Keys : job[k] \in Rows
  BY DEF TypeOK
<1>b. \A k \in Keys : job[k].status = "absent" =>
          job[k].attempts = 0 /\ 0 < MaxAttempts
  BY ConstantsAssumption DEF AttemptInv
<1>c. QueuedRow.attempts = 0 /\ QueuedRow.status = "queued"
  BY DEF QueuedRow, NoRow
<1>1. ASSUME NEW v \in Versions, FindDue(v) PROVE QuietStep
  BY <1>1 DEF FindDue, QuietStep
<1>2. ASSUME NEW v \in ExperimentVersions, ScheduleExperiment(v)
      PROVE  QuietStep
  <2> DEFINE k == [kind |-> "experiment", version |-> v, bucket |-> bucket]
  <2>1. /\ k \in Keys /\ job[k].status = "absent"
        /\ job' = [job EXCEPT ![k] = QueuedRow] /\ worker' = worker
    BY <1>2 DEF ScheduleExperiment, Keys, TypeOK
  <2> HIDE DEF k
  <2> QED BY <2>1, <1>b, <1>c DEF QuietStep, TypeOK
<1>3. ASSUME NEW k \in Keys, InsertPlanned(k) PROVE QuietStep
  BY <1>3, <1>b, <1>c DEF InsertPlanned, QuietStep, TypeOK
<1>4. ASSUME NEW k \in Keys, RecoverStale(k) PROVE QuietStep
  <2>1. CASE Exhausted(k)
    <3>1. /\ job' = [job EXCEPT ![k] =
                          Failed(@, "stale_running_job_exhausted")]
          /\ worker' = worker
      BY <1>4, <2>1 DEF RecoverStale
    <3>2. /\ Failed(job[k], "stale_running_job_exhausted").attempts
                = job[k].attempts
          /\ Failed(job[k], "stale_running_job_exhausted").status = "failed"
      BY <1>a DEF Failed, Rows
    <3> QED BY <3>1, <3>2 DEF QuietStep, TypeOK
  <2>2. CASE ~Exhausted(k)
    <3>1. job[k].attempts < MaxAttempts
      BY <2>2, <1>a, ConstantsAssumption DEF Exhausted, Rows
    <3>2. job' = [job EXCEPT ![k] = Recovered(@)] /\ worker' = worker
      BY <1>4, <2>2 DEF RecoverStale
    <3>3. job[k].attempts = Recovered(job[k]).attempts
          /\ Recovered(job[k]).status = "queued"
      BY <1>a DEF Recovered, Rows
    <3> QED BY <3>1, <3>2, <3>3 DEF QuietStep, TypeOK
  <2> QED BY <2>1, <2>2
<1>5. ASSUME NEW k \in Keys, RecoverRetry(k) PROVE QuietStep
  BY <1>5 DEF RecoverRetry, QuietStep
<1>6. ASSUME NEW k \in Keys, ExpireAbandoned(k) PROVE QuietStep
  BY <1>6, <1>a DEF ExpireAbandoned, Failed, QuietStep, TypeOK, Rows
<1>7. ASSUME NEW k \in Keys, PurgeExpired(k) PROVE QuietStep
  BY <1>7, <1>a DEF PurgeExpired, QuietStep, TypeOK, Rows
<1>8. ASSUME NEW k \in Keys, Publish(k) PROVE QuietStep
  BY <1>8 DEF Publish, QuietStep
<1>9. CASE BeatCrash
  BY <1>9 DEF BeatCrash, QuietStep
<1> QED BY <1>1, <1>2, <1>3, <1>4, <1>5, <1>6, <1>7, <1>8, <1>9 DEF BeatTask

(* The worker steps that are neither a claim nor a requeue are quiet.        *)
LEMMA WorkerQuiet ==
    ASSUME TypeOK, NEW w \in Workers, WorkerStep(w),
           \A k \in Keys : ~Claim(w, k),
           ~(FinishScan(w) /\ Requeues(worker[w]))
    PROVE  QuietStep
<1> DEFINE key == worker[w].key
<1>a. \A k \in Keys : job[k] \in Rows
  BY DEF TypeOK
<1>b. worker[w].pc # "idle" => key \in Keys
  BY BusyHasKey
<1>c. Idle.key = NoJob
  BY DEF Idle
<1>d. worker[w] \in Executions
  BY DEF TypeOK
<1>1. CASE CancelAtGate(w) \/ DegradeAtGate(w)
  <2>1. key \in Keys
    BY <1>1, <1>b DEF CancelAtGate, DegradeAtGate
  <2>2. /\ job' = [job EXCEPT ![key] = Canceled(@)]
        /\ worker' = [worker EXCEPT ![w] = Idle]
    BY <1>1 DEF CancelAtGate, DegradeAtGate
  <2>3. Canceled(job[key]).attempts = job[key].attempts
        /\ Canceled(job[key]).status = "canceled"
    BY <2>1, <1>a DEF Canceled, Rows
  <2> QED BY <2>1, <2>2, <2>3, <1>c DEF QuietStep, TypeOK
<1>2. CASE PassGate(w)
  BY <1>2, <1>d DEF PassGate, Resumed, QuietStep, TypeOK, Executions
<1>3. ASSUME NEW s \in Symbols, ScanSymbol(w, s) PROVE QuietStep
  <2>1. key \in Keys
    BY <1>3, <1>b DEF ScanSymbol
  <2>2. WithResult(worker[w], s).key = key
        /\ WithResult(worker[w], s).attempt = worker[w].attempt
    BY <1>d DEF WithResult, Executions
  <2>3. Heartbeat(job[key]).status = job[key].status
        /\ Heartbeat(job[key]).attempts = job[key].attempts
    BY <2>1, <1>a DEF Heartbeat, Rows
  <2> QED BY <1>3, <2>1, <2>2, <2>3 DEF ScanSymbol, QuietStep, TypeOK
<1>4. ASSUME NEW s \in Symbols, FailSymbol(w, s) PROVE QuietStep
  <2>1. key \in Keys
    BY <1>4, <1>b DEF FailSymbol
  <2>2. PICK kind \in FailureKinds :
          worker' = [worker EXCEPT ![w] = WithFailure(worker[w], s, kind)]
    BY <1>4 DEF FailSymbol, TypeOK
  <2>3. WithFailure(worker[w], s, kind).key = key
        /\ WithFailure(worker[w], s, kind).attempt = worker[w].attempt
    BY <1>d DEF WithFailure, Executions
  <2>4. Heartbeat(job[key]).status = job[key].status
        /\ Heartbeat(job[key]).attempts = job[key].attempts
    BY <2>1, <1>a DEF Heartbeat, Rows
  <2> QED BY <1>4, <2>1, <2>2, <2>3, <2>4 DEF FailSymbol, QuietStep, TypeOK
<1>5. CASE FinishScan(w)
  <2>1. key \in Keys /\ ~Requeues(worker[w])
    BY <1>5, <1>b DEF FinishScan
  <2>2. job' = [job EXCEPT ![key] = Finished(@, worker[w])]
        /\ worker' = [worker EXCEPT ![w] = Idle]
    BY <1>5, <2>1 DEF FinishScan
  <2>3. Verdict(worker[w]).status \in {"succeeded", "partial", "failed"}
    BY DEF Verdict
  <2>4. Finished(job[key], worker[w]).attempts = job[key].attempts
        /\ Finished(job[key], worker[w]).status = Verdict(worker[w]).status
    BY <2>1, <1>a DEF Finished, Rows
  <2> QED BY <2>1, <2>2, <2>3, <2>4, <1>c DEF QuietStep, TypeOK
<1>6. CASE FailClaimed(w)
  <2>1. key \in Keys
    BY <1>6, <1>b DEF FailClaimed
  <2>2. /\ [Failed(job[key], "exception") EXCEPT !.retry = "none"].attempts
              = job[key].attempts
        /\ [Failed(job[key], "exception") EXCEPT !.retry = "none"].status
              = "failed"
    BY <2>1, <1>a DEF Failed, Rows
  <2> QED BY <1>6, <2>1, <2>2, <1>c DEF FailClaimed, QuietStep, TypeOK
<1>7. CASE WorkerCrash(w)
  BY <1>7, <1>c DEF WorkerCrash, QuietStep, TypeOK
<1> QED BY <1>1, <1>2, <1>3, <1>4, <1>5, <1>6, <1>7 DEF WorkerStep

(* Initially no job was attempted.                                           *)
LEMMA InitAttempts == Init => AttemptInv
<1> SUFFICES ASSUME Init PROVE AttemptInv
  OBVIOUS
<1>1. \A k \in Keys : job[k].attempts = 0
  BY DEF Init, NoRow
<1>2. \A w \in Workers : worker[w].key = NoJob
  BY DEF Init, Idle
<1>3. \A k \in Keys : ~(job[k].attempts >= MaxAttempts)
  BY <1>1, ConstantsAssumption
<1> QED BY <1>1, <1>2, <1>3, NoJobAssumption DEF AttemptInv

(* Every step keeps the accounting.                                          *)
LEMMA NextAttempts == TypeOK /\ TypeOK' /\ AttemptInv /\ [Next]_vars => AttemptInv'
<1> SUFFICES ASSUME TypeOK, TypeOK', AttemptInv, [Next]_vars PROVE AttemptInv'
  OBVIOUS
<1>1. CASE Environment
  BY <1>1, EnvironmentQuiet, QuietStepAttempts
<1>2. CASE BeatTask
  BY <1>2, BeatTaskQuiet, QuietStepAttempts
<1>3. ASSUME NEW k \in Keys, DropDelivery(k) PROVE AttemptInv'
  <2>1. QuietStep
    BY <1>3 DEF DropDelivery, QuietStep
  <2> QED BY <2>1, QuietStepAttempts
<1>4. ASSUME NEW w \in Workers, WorkerStep(w) PROVE AttemptInv'
  <2>1. ASSUME NEW k \in Keys, Claim(w, k) PROVE AttemptInv'
    BY <2>1, ClaimAttempts
  <2>2. CASE FinishScan(w) /\ Requeues(worker[w])
    BY <2>2, RequeueAttempts
  <2>3. CASE (\A k \in Keys : ~Claim(w, k))
             /\ ~(FinishScan(w) /\ Requeues(worker[w]))
    BY <2>3, <1>4, WorkerQuiet, QuietStepAttempts
  <2> QED BY <2>1, <2>2, <2>3
<1>5. CASE UNCHANGED vars
  <2>1. QuietStep
    BY <1>5 DEF vars, QuietStep
  <2> QED BY <2>1, QuietStepAttempts
<1> QED BY <1>1, <1>2, <1>3, <1>4, <1>5 DEF Next

(* The bound follows from the accounting.                                    *)
LEMMA AttemptsFollow == TypeOK /\ AttemptInv => AttemptsBounded
<1> SUFFICES ASSUME TypeOK, AttemptInv, NEW k \in Keys
             PROVE  job[k].attempts <= 2 * MaxAttempts - 1
  BY DEF AttemptsBounded
<1>1. job[k].attempts \in Nat /\ MaxAttempts \in Nat /\ MaxAttempts >= 1
  BY ConstantsAssumption DEF TypeOK, Rows
<1>2. CASE job[k].attempts < MaxAttempts
  BY <1>1, <1>2
<1>3. CASE job[k].attempts >= MaxAttempts
  <2>1. job[k].attempts + Cardinality(Early(k)) + Waiting(k)
            <= 2 * MaxAttempts - 1
    BY <1>3 DEF AttemptInv
  <2>2. Cardinality(Early(k)) \in Nat /\ Waiting(k) \in Nat
    BY EarlyFinite DEF Waiting
  <2> QED BY <1>1, <2>1, <2>2
<1> QED BY <1>1, <1>2, <1>3

(* However many workers outlive their claims, a job is attempted at most     *)
(* 2 * MaxAttempts - 1 times.                                                *)
THEOREM AttemptsCorrect == Spec => []AttemptsBounded
<1>1. Spec => []TypeOK
  BY TypeCorrect
<1>2. Spec => []AttemptInv
  BY <1>1, InitAttempts, NextAttempts, PTL DEF Spec
<1> QED BY <1>1, <1>2, AttemptsFollow, PTL

----------------------------------------------------------------------------
(* Completeness and metering.  What a worker remembers of its job is never   *)
(* more than what the table holds: a symbol it does not owe any more has a   *)
(* row unless it failed, and its count is at most the number of rows.  Rows  *)
(* of a job only disappear with the job, and a job that is worked on stays.  *)
OwesTheRest(me) ==
    me.pc = "scanning" =>
        /\ me.failures = {} => Symbols \subseteq me.pending \cup results[me.key]
        /\ me.scanned <= Cardinality(results[me.key])

WorkInv ==
    /\ \A w \in Workers : OwesTheRest(worker[w])
    /\ \A w \in Workers, k \in Keys :
          worker[w].key = k => job[k].status # "purged"
    /\ SucceededIsComplete
    /\ UsageIsBacked

\* A step that takes nothing out of the table and meters nothing: each worker
\* is dropped, left alone or has just claimed.
HarmlessStep ==
    /\ \A w \in Workers :
          \/ worker'[w] = worker[w]
          \/ worker'[w].pc # "scanning"
    /\ \A w \in Workers, k \in Keys :
          worker'[w].key = k => job'[k].status # "purged"
    /\ \A k \in Keys :
          /\ results'[k] = results[k] \/ WorkingOn(k) = {}
          /\ job'[k].status = "succeeded" =>
                job[k].status = "succeeded" /\ results'[k] = results[k]
          /\ job'[k].status # "purged" =>
                /\ job[k].status # "purged"
                /\ results'[k] = results[k]
          /\ usage'[k] = usage[k]

(* A harmless step keeps what workers remember within the table.             *)
LEMMA HarmlessWork == TypeOK /\ TypeOK' /\ WorkInv /\ HarmlessStep => WorkInv'
<1> SUFFICES ASSUME TypeOK, TypeOK', WorkInv, HarmlessStep PROVE WorkInv'
  OBVIOUS
<1>1. ASSUME NEW w \in Workers PROVE OwesTheRest(worker[w])'
  <2>1. CASE worker'[w].pc # "scanning"
    BY <2>1 DEF OwesTheRest
  <2>2. CASE worker'[w] = worker[w] /\ worker[w].pc = "scanning"
    <3>1. worker[w].key \in Keys
      BY <2>2, BusyHasKey
    <3>2. results'[worker[w].key] = results[worker[w].key]
      BY <3>1 DEF HarmlessStep, WorkingOn
    <3> QED BY <2>2, <3>2 DEF OwesTheRest, WorkInv
  <2> QED BY <2>1, <2>2 DEF HarmlessStep
<1>2. SucceededIsComplete'
  BY DEF WorkInv, SucceededIsComplete, HarmlessStep
<1>3. UsageIsBacked'
  BY DEF WorkInv, UsageIsBacked, HarmlessStep
<1> QED BY <1>1, <1>2, <1>3 DEF WorkInv, HarmlessStep

(* Initially nobody remembers anything.                                      *)
LEMMA InitWork == Init => WorkInv
<1> SUFFICES ASSUME Init PROVE WorkInv
  OBVIOUS
<1>1. \A w \in Workers : worker[w].pc = "idle" /\ worker[w].key = NoJob
  BY DEF Init, Idle
<1>2. \A k \in Keys : job[k].status = "absent" /\ results[k] = {}
                      /\ usage[k] = -1
  BY DEF Init, NoRow, NotMetered
<1>3. \A k \in Keys : usage[k] <= Cardinality(results[k])
  BY <1>2, FS_EmptySet
<1> QED BY <1>1, <1>2, <1>3, NoJobAssumption
        DEF WorkInv, OwesTheRest, SucceededIsComplete, UsageIsBacked

(* The owner's switches and the passing of time are harmless.                *)
LEMMA EnvironmentHarmless == TypeOK /\ WorkInv /\ Environment => HarmlessStep
<1> SUFFICES ASSUME TypeOK, WorkInv, Environment PROVE HarmlessStep
  OBVIOUS
<1>1. ASSUME NEW v \in Versions, ToggleMonitor(v) PROVE HarmlessStep
  BY <1>1 DEF ToggleMonitor, HarmlessStep, WorkInv
<1>2. ASSUME NEW v \in ExperimentVersions, ToggleExperiment(v)
      PROVE  HarmlessStep
  BY <1>2 DEF ToggleExperiment, HarmlessStep, WorkInv
<1>3. CASE NextBucket
  BY <1>3 DEF NextBucket, HarmlessStep, WorkInv
<1>4. ASSUME NEW k \in Keys, HeartbeatGoesStale(k) \/ RetryFallsDue(k)
                              \/ AgesOut(k)
      PROVE  HarmlessStep
  <2>1. /\ \A j \in Keys : job'[j].status = job[j].status
        /\ worker' = worker /\ results' = results /\ usage' = usage
    BY <1>4 DEF HeartbeatGoesStale, RetryFallsDue, AgesOut, GrowsOld, TypeOK, Rows
  <2> QED BY <2>1 DEF HarmlessStep, WorkInv
<1> QED BY <1>1, <1>2, <1>3, <1>4 DEF Environment

\* A row rewrite that neither succeeds the job nor purges it.
LEMMA RowRewriteHarmless ==
    ASSUME TypeOK, WorkInv, NEW k \in Keys, NEW row \in Rows,
           job' = [job EXCEPT ![k] = row],
           job[k].status # "purged", row.status \notin {"succeeded", "purged"},
           worker' = worker, results' = results, usage' = usage
    PROVE  HarmlessStep
BY DEF HarmlessStep, WorkInv, TypeOK

(* The scheduled tasks are harmless.                                         *)
LEMMA BeatTaskHarmless == TypeOK /\ WorkInv /\ BeatTask => HarmlessStep
<1> SUFFICES ASSUME TypeOK, WorkInv, BeatTask PROVE HarmlessStep
  OBVIOUS
<1>a. \A k \in Keys : job[k] \in Rows
  BY DEF TypeOK
<1>b. QueuedRow \in Rows /\ QueuedRow.status = "queued"
  BY DEF QueuedRow, NoRow, Rows, Statuses, InFlight, ErrorCodes
<1>1. ASSUME NEW v \in Versions, FindDue(v) PROVE HarmlessStep
  BY <1>1 DEF FindDue, HarmlessStep, WorkInv
<1>2. ASSUME NEW v \in ExperimentVersions, ScheduleExperiment(v)
      PROVE  HarmlessStep
  <2> DEFINE k == [kind |-> "experiment", version |-> v, bucket |-> bucket]
  <2>1. /\ k \in Keys /\ job[k].status = "absent"
        /\ job' = [job EXCEPT ![k] = QueuedRow]
        /\ worker' = worker /\ results' = results /\ usage' = usage
    BY <1>2 DEF ScheduleExperiment, Keys, TypeOK
  <2> HIDE DEF k
  <2> QED BY <2>1, <1>b, RowRewriteHarmless
<1>3. ASSUME NEW k \in Keys, InsertPlanned(k) PROVE HarmlessStep
  <2>1. CASE job[k].status = "absent"
    BY <1>3, <2>1, <1>b, RowRewriteHarmless DEF InsertPlanned
  <2>2. CASE job[k].status # "absent"
    BY <1>3, <2>2 DEF InsertPlanned, HarmlessStep, WorkInv
  <2> QED BY <2>1, <2>2
<1>4. ASSUME NEW k \in Keys, RecoverStale(k) PROVE HarmlessStep
  <2>1. /\ Failed(job[k], "stale_running_job_exhausted") \in Rows
        /\ Failed(job[k], "stale_running_job_exhausted").status = "failed"
        /\ Recovered(job[k]) \in Rows /\ Recovered(job[k]).status = "queued"
    <3>1. /\ Failed(job[k], "stale_running_job_exhausted") \in Rows
          /\ Recovered(job[k]) \in Rows
      BY <1>a, RowWrites DEF ErrorCodes
    <3> QED BY <3>1, <1>a DEF Failed, Recovered, Rows
  <2> QED BY <1>4, <2>1, RowRewriteHarmless DEF RecoverStale
<1>5. ASSUME NEW k \in Keys, RecoverRetry(k) PROVE HarmlessStep
  BY <1>5 DEF RecoverRetry, HarmlessStep, WorkInv
<1>6. ASSUME NEW k \in Keys, ExpireAbandoned(k) PROVE HarmlessStep
  <2>1. Failed(job[k], "scan_job_abandoned") \in Rows
    BY <1>a, RowWrites DEF ErrorCodes
  <2>2. Failed(job[k], "scan_job_abandoned").status = "failed"
    BY <1>a DEF Failed, Rows
  <2> QED BY <1>6, <2>1, <2>2, RowRewriteHarmless
          DEF ExpireAbandoned, Abandoned, InFlight
<1>7. ASSUME NEW k \in Keys, PurgeExpired(k) PROVE HarmlessStep
  <2>1. /\ job'[k].status = "purged" /\ WorkingOn(k) = {}
        /\ \A j \in Keys : j # k => job'[j] = job[j] /\ results'[j] = results[j]
        /\ worker' = worker /\ usage' = usage
    BY <1>7, <1>a DEF PurgeExpired, TypeOK, Rows
  <2> QED BY <2>1 DEF HarmlessStep, WorkInv, WorkingOn
<1>8. ASSUME NEW k \in Keys, Publish(k) PROVE HarmlessStep
  BY <1>8 DEF Publish, HarmlessStep, WorkInv
<1>9. CASE BeatCrash
  BY <1>9 DEF BeatCrash, HarmlessStep, WorkInv
<1> QED BY <1>1, <1>2, <1>3, <1>4, <1>5, <1>6, <1>7, <1>8, <1>9 DEF BeatTask

\* A worker that leaves its job behind, or starts one, with a row rewrite that
\* neither succeeds the job nor purges it.
LEMMA WorkerRewriteHarmless ==
    ASSUME TypeOK, WorkInv, NEW k \in Keys, NEW w \in Workers, NEW me, NEW row,
           job' = [job EXCEPT ![k] = row],
           job[k].status # "purged", row.status \notin {"succeeded", "purged"},
           worker' = [worker EXCEPT ![w] = me], me.pc # "scanning",
           me.key \in {k, NoJob},
           results' = results, usage' = usage
    PROVE  HarmlessStep
BY NoJobAssumption DEF HarmlessStep, WorkInv, TypeOK

(* Passing the gate reads the table: what is owed and what is counted agree   *)
(* with it at that moment.                                                   *)
LEMMA PassGateWork ==
    ASSUME TypeOK, TypeOK', WorkInv, NEW w \in Workers, PassGate(w)
    PROVE  WorkInv'
<1>a. PICK k \in Keys : k = worker[w].key
  BY BusyHasKey DEF PassGate
<1>b. /\ worker' = [worker EXCEPT ![w] = Resumed(worker[w])]
      /\ job' = job /\ results' = results /\ usage' = usage
  BY DEF PassGate, TypeOK
<1>c. /\ Resumed(worker[w]).key = k
      /\ Resumed(worker[w]).pending = Symbols \ results[k]
      /\ Resumed(worker[w]).scanned = Cardinality(results[k])
  BY <1>a DEF Resumed, AlreadyScanned, TypeOK, Executions
<1>d. Cardinality(results[k]) \in Nat
  BY ResultsFinite
<1>1. ASSUME NEW v \in Workers PROVE OwesTheRest(worker[v])'
  <2>1. CASE v = w
    BY <2>1, <1>b, <1>c, <1>d DEF OwesTheRest, TypeOK
  <2>2. CASE v # w
    BY <2>2, <1>b DEF OwesTheRest, WorkInv, TypeOK
  <2> QED BY <2>1, <2>2
<1>2. ASSUME NEW v \in Workers, NEW j \in Keys, worker'[v].key = j
      PROVE  job'[j].status # "purged"
  BY <1>2, <1>a, <1>b, <1>c DEF WorkInv, TypeOK
<1> QED BY <1>1, <1>2, <1>b
        DEF WorkInv, SucceededIsComplete, UsageIsBacked

(* One more result row: the worker that wrote it counts it, and every other   *)
(* worker of the job finds the table only fuller.                            *)
LEMMA ScanSymbolWork ==
    ASSUME TypeOK, TypeOK', WorkInv,
           NEW w \in Workers, NEW s \in Symbols, ScanSymbol(w, s)
    PROVE  WorkInv'
<1>a. PICK k \in Keys : k = worker[w].key
  BY BusyHasKey DEF ScanSymbol
<1>b. /\ worker' = [worker EXCEPT ![w] = WithResult(worker[w], s)]
      /\ job' = [job EXCEPT ![k] = Heartbeat(job[k])]
      /\ results' = [results EXCEPT ![k] = results[k] \cup {s}]
      /\ usage' = usage /\ s \notin results[k]
      /\ worker[w].pc = "scanning"
  BY <1>a DEF ScanSymbol, TypeOK
<1>c. /\ WithResult(worker[w], s).key = k
      /\ WithResult(worker[w], s).pending = worker[w].pending \ {s}
      /\ WithResult(worker[w], s).scanned = worker[w].scanned + 1
      /\ WithResult(worker[w], s).failures = worker[w].failures
      /\ worker[w].scanned \in Nat
  BY <1>a DEF WithResult, TypeOK, Executions
<1>d. /\ results'[k] = results[k] \cup {s}
      /\ \A j \in Keys : j # k => results'[j] = results[j]
      /\ \A j \in Keys : job'[j].status = job[j].status
  BY <1>b DEF Heartbeat, TypeOK, Rows
<1>e. /\ Cardinality(results[k] \cup {s}) = Cardinality(results[k]) + 1
      /\ Cardinality(results[k]) \in Nat
  BY <1>b, ResultsFinite, FS_AddElement
<1>1. ASSUME NEW v \in Workers PROVE OwesTheRest(worker[v])'
  <2>1. CASE v = w
    <3>1. worker'[v] = WithResult(worker[w], s)
      BY <2>1, <1>b DEF TypeOK
    <3>2. /\ worker[w].failures = {} =>
                Symbols \subseteq worker[w].pending \cup results[k]
          /\ worker[w].scanned <= Cardinality(results[k])
      BY <1>a, <1>b DEF WorkInv, OwesTheRest
    <3>3. worker[w].scanned + 1 <= Cardinality(results'[k])
      BY <3>2, <1>c, <1>d, <1>e
    <3>4. worker[w].failures = {} =>
              Symbols \subseteq (worker[w].pending \ {s}) \cup results'[k]
      BY <3>2, <1>d
    <3> QED BY <3>1, <3>3, <3>4, <1>c DEF OwesTheRest
  <2>2. CASE v # w
    <3>1. worker'[v] = worker[v]
      BY <2>2, <1>b DEF TypeOK
    <3>2. CASE worker[v].key = k /\ worker[v].pc = "scanning"
      <4>1. /\ worker[v].failures = {} =>
                  Symbols \subseteq worker[v].pending \cup results[k]
            /\ worker[v].scanned <= Cardinality(results[k])
            /\ worker[v].scanned \in Nat
        BY <3>2 DEF WorkInv, OwesTheRest, TypeOK, Executions
      <4>2. worker[v].scanned <= Cardinality(results'[k])
        BY <4>1, <1>d, <1>e
      <4>3. results[k] \subseteq results'[k]
        BY <1>d
      <4> QED BY <3>1, <3>2, <4>1, <4>2, <4>3 DEF OwesTheRest
    <3>3. CASE worker[v].key # k /\ worker[v].pc = "scanning"
      <4>1. results'[worker[v].key] = results[worker[v].key]
        BY <3>3, <1>d, BusyHasKey
      <4> QED BY <3>1, <4>1 DEF WorkInv, OwesTheRest
    <3>4. CASE worker[v].pc # "scanning"
      BY <3>1, <3>4 DEF OwesTheRest
    <3> QED BY <3>2, <3>3, <3>4
  <2> QED BY <2>1, <2>2
<1>2. ASSUME NEW v \in Workers, NEW j \in Keys, worker'[v].key = j
      PROVE  job'[j].status # "purged"
  BY <1>2, <1>a, <1>b, <1>c, <1>d DEF WorkInv, TypeOK
<1>3. SucceededIsComplete'
  BY <1>d DEF WorkInv, SucceededIsComplete
<1>4. ASSUME NEW j \in Keys, job'[j].status # "purged"
      PROVE  usage'[j] <= Cardinality(results'[j])
  <2>1. usage[j] <= Cardinality(results[j])
    BY <1>4, <1>d DEF WorkInv, UsageIsBacked
  <2>2. usage[j] \in Int
    BY DEF TypeOK, NotMetered
  <2> QED BY <2>1, <2>2, <1>b, <1>d, <1>e
<1> QED BY <1>1, <1>2, <1>3, <1>4 DEF WorkInv, UsageIsBacked

(* A failed symbol is remembered as a failure, never as a result.            *)
LEMMA FailSymbolWork ==
    ASSUME TypeOK, TypeOK', WorkInv,
           NEW w \in Workers, NEW s \in Symbols, FailSymbol(w, s)
    PROVE  WorkInv'
<1>a. PICK k \in Keys : k = worker[w].key
  BY BusyHasKey DEF FailSymbol
<1>b. PICK kind \in FailureKinds :
          worker' = [worker EXCEPT ![w] = WithFailure(worker[w], s, kind)]
  BY DEF FailSymbol, TypeOK
<1>c. /\ job' = [job EXCEPT ![k] = Heartbeat(job[k])]
      /\ results' = results /\ usage' = usage
      /\ worker[w].pc = "scanning"
  BY <1>a DEF FailSymbol, TypeOK
<1>d. /\ WithFailure(worker[w], s, kind).key = k
      /\ WithFailure(worker[w], s, kind).scanned = worker[w].scanned
      /\ WithFailure(worker[w], s, kind).failures # {}
  BY <1>a DEF WithFailure, TypeOK, Executions
<1>e. \A j \in Keys : job'[j].status = job[j].status
  BY <1>c DEF Heartbeat, TypeOK, Rows
<1>1. ASSUME NEW v \in Workers PROVE OwesTheRest(worker[v])'
  <2>1. CASE v = w
    BY <2>1, <1>a, <1>b, <1>c, <1>d DEF OwesTheRest, WorkInv, TypeOK
  <2>2. CASE v # w
    BY <2>2, <1>b, <1>c DEF OwesTheRest, WorkInv, TypeOK
  <2> QED BY <2>1, <2>2
<1>2. ASSUME NEW v \in Workers, NEW j \in Keys, worker'[v].key = j
      PROVE  job'[j].status # "purged"
  BY <1>2, <1>a, <1>b, <1>d, <1>e DEF WorkInv, TypeOK
<1> QED BY <1>1, <1>2, <1>c, <1>e
        DEF WorkInv, SucceededIsComplete, UsageIsBacked

(* A worker that finishes owes nothing: no failure means the table is full,  *)
(* and what it meters is what it counted.                                    *)
LEMMA FinishScanWork ==
    ASSUME TypeOK, TypeOK', WorkInv, NEW w \in Workers, FinishScan(w)
    PROVE  WorkInv'
<1> DEFINE me == worker[w]
<1>a. PICK k \in Keys : k = me.key
  BY BusyHasKey DEF FinishScan
<1>b. /\ me.pc = "scanning" /\ me.pending = {} /\ me.scanned \in Nat
      /\ results' = results
      /\ worker' = [worker EXCEPT ![w] = Idle]
      /\ me \in Executions /\ job[k] \in Rows
  BY DEF FinishScan, TypeOK, Executions
<1>c. /\ me.failures = {} => Symbols \subseteq results[k]
      /\ me.scanned <= Cardinality(results[k])
  BY <1>a, <1>b DEF WorkInv, OwesTheRest
<1>d. job[k].status # "purged"
  BY <1>a DEF WorkInv
<1>e. Idle.key = NoJob /\ Idle.pc = "idle"
  BY DEF Idle
<1>1. CASE Requeues(me)
  <2>1. job' = [job EXCEPT ![k] = Requeued(job[k])] /\ usage' = usage
    BY <1>1, <1>a DEF FinishScan, TypeOK
  <2>2. Requeued(job[k]).status = "queued"
    BY <1>b DEF Requeued, Rows
  <2>3. HarmlessStep
    BY <2>1, <2>2, <1>b, <1>d, <1>e, WorkerRewriteHarmless
  <2> QED BY <2>3, HarmlessWork
<1>2. CASE ~Requeues(me)
  <2>1. job' = [job EXCEPT ![k] = Finished(job[k], me)]
        /\ usage' = Metered(k, me.scanned)
    BY <1>2, <1>a DEF FinishScan, TypeOK
  <2>2. /\ Finished(job[k], me).status = Verdict(me).status
        /\ Verdict(me).status \in {"succeeded", "partial", "failed"}
        /\ Verdict(me).status = "succeeded" => me.failures = {}
    BY <1>b DEF Finished, Verdict, Rows
  <2>3. ASSUME NEW v \in Workers PROVE OwesTheRest(worker[v])'
    BY <1>b, <1>e DEF OwesTheRest, WorkInv, TypeOK
  <2>4. ASSUME NEW v \in Workers, NEW j \in Keys, worker'[v].key = j
        PROVE  job'[j].status # "purged"
    <3>1. v # w /\ worker'[v] = worker[v]
      BY <2>4, <1>b, <1>e, NoJobAssumption DEF TypeOK
    <3> QED BY <3>1, <2>4, <2>1, <2>2 DEF WorkInv, TypeOK
  <2>5. SucceededIsComplete'
    <3>1. SUFFICES ASSUME NEW j \in Keys, job'[j].status = "succeeded"
                   PROVE  results[j] = Symbols
      BY <1>b DEF SucceededIsComplete
    <3>2. CASE j = k
      <4>1. Symbols \subseteq results[k]
        BY <3>1, <3>2, <2>1, <2>2, <1>c DEF TypeOK
      <4> QED BY <3>2, <4>1 DEF TypeOK
    <3>3. CASE j # k
      BY <3>1, <3>3, <2>1 DEF WorkInv, SucceededIsComplete, TypeOK
    <3> QED BY <3>2, <3>3
  <2>6. UsageIsBacked'
    <3>1. SUFFICES ASSUME NEW j \in Keys, job'[j].status # "purged"
                   PROVE  usage'[j] <= Cardinality(results[j])
      BY <1>b DEF UsageIsBacked
    <3>2. job[j].status # "purged"
      BY <3>1, <2>1, <1>d DEF TypeOK
    <3>3. usage[j] <= Cardinality(results[j])
      BY <3>2 DEF WorkInv, UsageIsBacked
    <3>4. usage'[j] = usage[j] \/ (j = k /\ usage'[j] = me.scanned)
      BY <2>1 DEF Metered, TypeOK
    <3> QED BY <3>3, <3>4, <1>c
  <2> QED BY <2>3, <2>4, <2>5, <2>6 DEF WorkInv
<1> QED BY <1>1, <1>2

(* Each step of a worker keeps its memory within the table.                  *)
LEMMA WorkerStepWork ==
    ASSUME TypeOK, TypeOK', WorkInv, NEW w \in Workers, WorkerStep(w)
    PROVE  WorkInv'
<1>a. \A k \in Keys : job[k] \in Rows
  BY DEF TypeOK
<1>b. Idle.key = NoJob /\ Idle.pc = "idle"
  BY DEF Idle
<1>c. worker[w].pc # "idle" =>
          worker[w].key \in Keys /\ job[worker[w].key].status # "purged"
  BY BusyHasKey DEF WorkInv
<1>1. ASSUME NEW k \in Keys, Claim(w, k) PROVE WorkInv'
  <2>1. /\ job' = [job EXCEPT ![k] = Claimed(job[k])]
        /\ worker' = [worker EXCEPT ![w] = Started(k)]
        /\ results' = results /\ usage' = usage
        /\ job[k].status = "queued"
    BY <1>1 DEF Claim, Claimable, TypeOK
  <2>2. Claimed(job[k]).status = "running"
    BY <1>a DEF Claimed, Rows
  <2>3. Started(k).key = k /\ Started(k).pc = "claimed"
    BY DEF Started
  <2>4. HarmlessStep
    BY <2>1, <2>2, <2>3, WorkerRewriteHarmless
  <2> QED BY <2>4, HarmlessWork
<1>2. CASE CancelAtGate(w) \/ DegradeAtGate(w)
  <2>1. PICK k \in Keys : k = worker[w].key
    BY <1>2, <1>c DEF CancelAtGate, DegradeAtGate
  <2>2. /\ job' = [job EXCEPT ![k] = Canceled(job[k])]
        /\ worker' = [worker EXCEPT ![w] = Idle]
        /\ results' = results /\ usage' = usage /\ worker[w].pc = "claimed"
    BY <1>2, <2>1 DEF CancelAtGate, DegradeAtGate, TypeOK
  <2>3. Canceled(job[k]).status = "canceled"
    BY <1>a DEF Canceled, Rows
  <2>4. HarmlessStep
    BY <2>1, <2>2, <2>3, <1>b, <1>c, WorkerRewriteHarmless
  <2> QED BY <2>4, HarmlessWork
<1>3. CASE PassGate(w)
  BY <1>3, PassGateWork
<1>4. ASSUME NEW s \in Symbols, ScanSymbol(w, s) PROVE WorkInv'
  BY <1>4, ScanSymbolWork
<1>5. ASSUME NEW s \in Symbols, FailSymbol(w, s) PROVE WorkInv'
  BY <1>5, FailSymbolWork
<1>6. CASE FinishScan(w)
  BY <1>6, FinishScanWork
<1>7. CASE FailClaimed(w)
  <2>1. PICK k \in Keys : k = worker[w].key
    BY <1>7, <1>c DEF FailClaimed
  <2>2. /\ job' = [job EXCEPT ![k] =
                       [Failed(job[k], "exception") EXCEPT !.retry = "none"]]
        /\ worker' = [worker EXCEPT ![w] = Idle]
        /\ results' = results /\ usage' = usage /\ worker[w].pc # "idle"
    BY <1>7, <2>1 DEF FailClaimed, TypeOK
  <2>3. [Failed(job[k], "exception") EXCEPT !.retry = "none"].status = "failed"
    BY <1>a DEF Failed, Rows
  <2>4. HarmlessStep
    BY <2>1, <2>2, <2>3, <1>b, <1>c, WorkerRewriteHarmless
  <2> QED BY <2>4, HarmlessWork
<1>8. CASE WorkerCrash(w)
  <2>1. /\ worker' = [worker EXCEPT ![w] = Idle]
        /\ job' = job /\ results' = results /\ usage' = usage
    BY <1>8 DEF WorkerCrash
  <2>2. HarmlessStep
    BY <2>1, <1>b, NoJobAssumption DEF HarmlessStep, WorkInv, TypeOK
  <2> QED BY <2>2, HarmlessWork
<1> QED BY <1>1, <1>2, <1>3, <1>4, <1>5, <1>6, <1>7, <1>8 DEF WorkerStep

(* Every step keeps what workers remember within the table.                  *)
LEMMA NextWork == TypeOK /\ TypeOK' /\ WorkInv /\ [Next]_vars => WorkInv'
<1> SUFFICES ASSUME TypeOK, TypeOK', WorkInv, [Next]_vars PROVE WorkInv'
  OBVIOUS
<1>1. CASE Environment
  BY <1>1, EnvironmentHarmless, HarmlessWork
<1>2. CASE BeatTask
  BY <1>2, BeatTaskHarmless, HarmlessWork
<1>3. CASE (\E k \in Keys : DropDelivery(k)) \/ UNCHANGED vars
  <2>1. HarmlessStep
    BY <1>3 DEF DropDelivery, vars, HarmlessStep, WorkInv
  <2> QED BY <2>1, HarmlessWork
<1>4. ASSUME NEW w \in Workers, WorkerStep(w) PROVE WorkInv'
  BY <1>4, WorkerStepWork
<1> QED BY <1>1, <1>2, <1>3, <1>4 DEF Next

(* A job reported succeeded has every symbol's result, for any number of     *)
(* overlapping workers and attempts.                                         *)
THEOREM SucceededIsCompleteCorrect == Spec => []SucceededIsComplete
<1>1. WorkInv => SucceededIsComplete
  BY DEF WorkInv
<1> QED BY <1>1, TypeCorrect, InitWork, NextWork, PTL DEF Spec

(* Nobody is metered for a symbol without a persisted result.                *)
THEOREM UsageIsBackedCorrect == Spec => []UsageIsBacked
<1>1. WorkInv => UsageIsBacked
  BY DEF WorkInv
<1> QED BY <1>1, TypeCorrect, InitWork, NextWork, PTL DEF Spec
=============================================================================
