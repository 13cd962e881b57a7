------------------------ MODULE AlertDeliveryProofs ------------------------
(***************************************************************************)
(* Theorems about AlertDelivery, for every number of alerts, passes,        *)
(* attempts, crashes and link changes, and every batch size.                *)
(***************************************************************************)
EXTENDS AlertDelivery, FiniteSetTheorems, WellFoundedInduction, TLAPS

(* A non-empty set of alerts has an oldest one.                             *)
LEMMA LeastExists ==
    ASSUME NEW S \in SUBSET Nat, S # {}
    PROVE  \E m \in S : \A n \in S : m <= n
<1> DEFINE Less == OpToRel(<, Nat)
<1>1. IsWellFoundedOn(Less, Nat)
  BY NatLessThanWellFounded
<1>2. Less = {ss \in Nat \X Nat : ss[1] < ss[2]}
  BY DEF OpToRel
<1> HIDE DEF Less
<1>3. PICK m \in S : \A n \in S : ~ (<<n, m>> \in Less)
  BY <1>1, WFMin
<1>4. ASSUME NEW n \in S PROVE m <= n
  <2>1. <<n, m>> \notin {ss \in Nat \X Nat : ss[1] < ss[2]}
    BY <1>2, <1>3
  <2> QED BY <2>1
<1> QED BY <1>4

----------------------------------------------------------------------------
(* What a pass that has not ended yet has in its hands: the rows it read     *)
(* are due and have attempts left, those it has not visited are unchanged,   *)
(* what it calls sent was accepted, and what it counted it calls sent.       *)

First(S) == CHOOSE a \in S : \A b \in S : a <= b

Retriable == {"PENDING", "FAILED_RETRYABLE"}
Ready(row) == row.status \in Retriable /\ row.attempts < MaxAttempts

Visited(me, a) ==
    a \notin me.queue \/ (me.at \in {"flush", "count"} /\ a = First(me.queue))

PassOK(me, ch, got) ==
    /\ \A a \in Alerts : me.read[a] = NoRow \/ Ready(me.read[a])
    /\ \A a \in me.queue : Ready(me.read[a])
    /\ \A a \in Alerts : me.read[a] = NoRow => me.write[a] = NoRow
    /\ \A a \in Alerts : Visited(me, a) \/ me.write[a] = me.read[a]
    /\ \A a \in Alerts :
          \/ me.write[a] = me.read[a]
          \/ me.write[a].status \notin Retriable
          \/ /\ me.write[a].attempts # me.read[a].attempts
             /\ me.write[a].attempts < MaxAttempts
    /\ \A a \in Alerts : me.write[a].status = "SENT" => <<a, ch>> \in got
    /\ me.at \in {"flush", "count"} => me.queue # {}
    /\ me.at = "count" =>
          me.write[First(me.queue)].status = "SENT" /\ me.memory # Absent
    /\ \A a \in me.counted : a \notin me.queue /\ me.write[a].status = "SENT"
    /\ me.counted # {} => me.memory # Absent
    /\ me.memory # Absent => me.memory \in Nat

PassesOK == \A p \in Passes : PassOK(pass[p], ChannelOf[p], accepted)

(* A row that is still to be sent has attempts left.                         *)
RowsReady ==
    \A r \in Rows : deliveries[r].status \in Retriable => Ready(deliveries[r])

Base == TypeOK /\ PassesOK /\ RowsReady

(* The pass works on an alert of its queue.                                  *)
LEMMA HeadInQueue ==
    ASSUME TypeOK, NEW p \in Passes, pass[p].queue # {}
    PROVE  /\ Head(p) \in pass[p].queue
           /\ Head(p) \in Alerts
           /\ Head(p) = First(pass[p].queue)
           /\ <<Head(p), ChannelOf[p]>> \in Rows
<1> DEFINE Q == pass[p].queue
<1>1. Q \in SUBSET Alerts
  BY DEF TypeOK, Pass
<1>2. Alerts \subseteq Nat
  BY ConstantsAssumption DEF Alerts
<1> HIDE DEF Q
<1>3. \E m \in Q : \A n \in Q : m <= n
  <2>1. Q # {}
    BY DEF Q
  <2> QED BY <1>1, <1>2, <2>1, LeastExists
<1>4. First(Q) \in Q
  BY <1>3 DEF First
<1>5. Head(p) = First(Q)
  BY DEF Head, First, Q
<1>6. ChannelOf[p] \in Chosen
  BY ConstantsAssumption
<1> QED BY <1>1, <1>4, <1>5, <1>6 DEF Q, Rows

(* No pass is under way: nothing is in hand.                                 *)
LEMMA IdleOK ==
    Idle \in Pass /\ \A ch, got : PassOK(Idle, ch, got)
<1>1. NoRow \in Row
  BY ConstantsAssumption DEF NoRow, Row, Statuses
<1> QED BY <1>1, ConstantsAssumption
        DEF PassOK, Idle, Pass, NoRow, Visited, Retriable

(* Initially no pass is under way and no row exists.                         *)
LEMMA InitBase == Init => Base
<1> SUFFICES ASSUME Init PROVE Base
  OBVIOUS
<1>1. NoRow \in Row
  BY ConstantsAssumption DEF NoRow, Row, Statuses
<1>3. TypeOK
  BY <1>1, IdleOK, ConstantsAssumption DEF Init, TypeOK
<1>5. PassesOK
  BY IdleOK DEF Init, PassesOK
<1>6. RowsReady
  BY DEF Init, RowsReady, NoRow, Retriable
<1> QED BY <1>3, <1>5, <1>6 DEF Base
(* A step of one pass leaves the others as they were.                        *)
LEMMA OthersOK ==
    ASSUME PassesOK, NEW p \in Passes,
           \A q \in Passes \ {p} : pass'[q] = pass[q],
           accepted \subseteq accepted',
           PassOK(pass'[p], ChannelOf[p], accepted')
    PROVE  PassesOK'
<1>1. ASSUME NEW q \in Passes \ {p} PROVE PassOK(pass'[q], ChannelOf[q], accepted')
  <2>1. PassOK(pass[q], ChannelOf[q], accepted) /\ pass'[q] = pass[q]
    BY DEF PassesOK
  <2> QED BY <2>1 DEF PassOK
<1> QED BY <1>1 DEF PassesOK

(* The world outside the passes gives no row an attempt it does not have.    *)
LEMMA OutsideBase ==
    ASSUME Base,
           \/ Raise \/ ChangeLink \/ EndCycle \/ CloseCycle
           \/ RepairRead \/ RepairWrite
           \/ \E r \in Rows : BackoffElapses(r)
    PROVE  Base'
<1> USE DEF Base
<1>1. UNCHANGED <<pass, accepted, tries, faults>>
  BY DEF Raise, ChangeLink, EndCycle, CloseCycle, RepairRead, RepairWrite,
         BackoffElapses, outside
<1>2. PassesOK'
  BY <1>1 DEF PassesOK
<1>3. CASE Raise
  <2>1. [NoRow EXCEPT !.status = "PENDING"] = [status |-> "PENDING", attempts |-> 0]
    BY DEF NoRow
  <2>2. [NoRow EXCEPT !.status = "PENDING"] \in Row
        /\ Ready([NoRow EXCEPT !.status = "PENDING"])
    BY <2>1, ConstantsAssumption DEF Row, Statuses, Ready, Retriable
  <2>3. PICK To : deliveries' = [r \in Rows |->
            IF r \in {raised + 1} \X To THEN [NoRow EXCEPT !.status = "PENDING"]
            ELSE deliveries[r]]
    BY <1>3 DEF Raise
  <2>4. deliveries' \in [Rows -> Row] /\ RowsReady'
    BY <2>2, <2>3 DEF TypeOK, RowsReady
  <2>5. raised' \in 0 .. AlertCount
    BY <1>3, ConstantsAssumption DEF Raise, TypeOK
  <2>6. attribution' \in [Alerts -> {"none", "generated", "qualifying_delivered"}]
    BY <1>3 DEF Raise, TypeOK
  <2> QED BY <1>1, <1>2, <1>3, <2>4, <2>5, <2>6 DEF Raise, TypeOK, world
<1>4. CASE ChangeLink
  BY <1>1, <1>2, <1>4, ConstantsAssumption DEF ChangeLink, TypeOK, RowsReady
<1>5. CASE EndCycle \/ CloseCycle
  BY <1>1, <1>2, <1>5 DEF EndCycle, CloseCycle, TypeOK, RowsReady, world
<1>6. CASE RepairRead \/ RepairWrite
  <2>1. Cardinality(Counted) \in Nat
    <3>1. Counted \subseteq Alerts
      BY DEF Counted
    <3>2. IsFiniteSet(Alerts)
      BY ConstantsAssumption, FS_Interval DEF Alerts
    <3> QED BY <3>1, <3>2, FS_Subset, FS_CardinalityType
  <2>2. repair' \in Nat \cup {Absent}
    BY <1>6, <2>1 DEF RepairRead, RepairWrite
  <2>3. cycle' \in [status : {"active", "expired"}, ended : BOOLEAN, delivered : Nat]
    BY <1>6 DEF RepairRead, RepairWrite, TypeOK
  <2> QED BY <1>1, <1>2, <1>6, <2>2, <2>3
          DEF RepairRead, RepairWrite, TypeOK, RowsReady, world
<1>7. ASSUME NEW r \in Rows, BackoffElapses(r) PROVE Base'
  BY <1>1, <1>2, <1>7 DEF BackoffElapses, TypeOK, RowsReady, world
<1> QED BY <1>3, <1>4, <1>5, <1>6, <1>7

(* A pass that ends without a commit leaves nothing behind.                  *)
LEMMA UndoneBase ==
    ASSUME Base, NEW p \in Passes, Crash(p) \/ Deadlocked(p)
    PROVE  Base'
<1>1. Idle \in Pass /\ PassOK(Idle, ChannelOf[p], accepted)
  BY IdleOK
<1>2. pass' = [pass EXCEPT ![p] = Idle] /\ accepted' = accepted
  BY DEF Crash, Deadlocked, outside
<1>3. PassesOK'
  BY <1>1, <1>2, OthersOK DEF Base, TypeOK
<1>4. faults' \in 0 .. MaxFaults
  BY ConstantsAssumption DEF Crash, Deadlocked, outside, Base, TypeOK
<1> QED BY <1>1, <1>2, <1>3, <1>4
        DEF Crash, Deadlocked, outside, world, Base, TypeOK, RowsReady

(* What a pass begins with: rows that are due, as they are stored.            *)
LEMMA BeginEffect ==
    ASSUME Base, NEW p \in Passes, Begin(p)
    PROVE  LET me == pass'[p]
           IN /\ pass' = [pass EXCEPT ![p] = me] /\ me \in Pass
              /\ me.at = "next" /\ me.write = me.read
              /\ me.memory = Absent /\ me.counted = {}
              /\ \A a \in me.queue : Ready(me.read[a])
              /\ \A a \in Alerts \ me.queue : me.read[a] = NoRow
              /\ \A a \in me.queue : me.read[a] = deliveries[<<a, ChannelOf[p]>>]
<1> DEFINE chosen == Oldest(Due(ChannelOf[p]))
           loaded == [a \in Alerts |->
                         IF a \in chosen THEN deliveries[<<a, ChannelOf[p]>>] ELSE NoRow]
           me == [Idle EXCEPT !.at = "next", !.queue = chosen,
                              !.read = loaded, !.write = loaded]
<1>1. chosen \subseteq Alerts
  BY DEF Oldest, Due
<1>2. \A a \in chosen : /\ <<a, ChannelOf[p]>> \in Rows
                        /\ Ready(deliveries[<<a, ChannelOf[p]>>])
  <2> SUFFICES ASSUME NEW a \in chosen
               PROVE  /\ <<a, ChannelOf[p]>> \in Rows
                      /\ Ready(deliveries[<<a, ChannelOf[p]>>])
    OBVIOUS
  <2>1. <<a, ChannelOf[p]>> \in Rows
    BY <1>1, ConstantsAssumption DEF Rows
  <2>2. deliveries[<<a, ChannelOf[p]>>].status \in Retriable
    BY DEF Oldest, Due, Retriable
  <2> QED BY <2>1, <2>2 DEF Base, RowsReady
<1>3. pass' = [pass EXCEPT ![p] = me]
  BY DEF Begin
<1> HIDE DEF chosen
<1>4. loaded \in [Alerts -> Row]
  <2>1. NoRow \in Row
    BY ConstantsAssumption DEF NoRow, Row, Statuses
  <2> QED BY <1>2, <2>1 DEF Base, TypeOK
<1>5. /\ me.at = "next" /\ me.queue = chosen /\ me.read = loaded
      /\ me.write = loaded /\ me.memory = Absent /\ me.counted = {}
  <2> HIDE DEF loaded
  <2> QED BY DEF Idle
<1>6. me \in Pass
  <2> HIDE DEF loaded
  <2> QED BY <1>1, <1>4, IdleOK DEF Pass
<1>7. /\ \A a \in Alerts \ chosen : loaded[a] = NoRow
      /\ \A a \in chosen : loaded[a] = deliveries[<<a, ChannelOf[p]>>]
  BY <1>1
<1> HIDE DEF loaded, me
<1>8. pass'[p] = me
  BY <1>3 DEF Base, TypeOK
<1> QED BY <1>2, <1>3, <1>5, <1>6, <1>7, <1>8

(* A pass that begins reads rows that are ready and has done nothing yet.    *)
LEMMA BeginBase ==
    ASSUME Base, NEW p \in Passes, Begin(p)
    PROVE  Base'
<1> DEFINE me == pass'[p]
<1>1. /\ pass' = [pass EXCEPT ![p] = me] /\ me \in Pass
      /\ me.at = "next" /\ me.write = me.read
      /\ me.memory = Absent /\ me.counted = {}
      /\ \A a \in me.queue : Ready(me.read[a])
      /\ \A a \in Alerts \ me.queue : me.read[a] = NoRow
  BY BeginEffect
<1>2. accepted' = accepted
  BY DEF Begin, outside
<1> HIDE DEF me
<1>3. PassOK(me, ChannelOf[p], accepted)
  <2>1. \A a \in Alerts : me.read[a].status # "SENT"
    BY <1>1 DEF Ready, Retriable, NoRow
  <2>2. \A a \in Alerts : me.read[a] = NoRow \/ Ready(me.read[a])
    BY <1>1
  <2> QED BY <1>1, <2>1, <2>2 DEF PassOK
<1>4. PassesOK'
  BY <1>1, <1>2, <1>3, OthersOK DEF Base, TypeOK
<1> QED BY <1>1, <1>4 DEF Begin, outside, Base, TypeOK, RowsReady, world

(* The pass decides what becomes of the row it has reached: it changes that   *)
(* row in its memory and goes on to flush it.                                *)
LEMMA MarkBase ==
    ASSUME Base, NEW p \in Passes, NEW row \in Row,
           pass[p].at = "next", pass[p].queue # {},
           pass' = [pass EXCEPT ![p] = Marked(p, row)],
           accepted \subseteq accepted',
           row.status \in Retriable =>
              /\ row.attempts # pass[p].read[Head(p)].attempts
              /\ row.attempts < MaxAttempts,
           row.status = "SENT" => <<Head(p), ChannelOf[p]>> \in accepted'
    PROVE  pass' \in [Passes -> Pass] /\ PassesOK'
<1> DEFINE old == pass[p]
           h == Head(p)
           w == [old.write EXCEPT ![h] = row]
           me == Marked(p, row)
<1>1. old \in Pass /\ h \in Alerts /\ h \in old.queue /\ h = First(old.queue)
  BY HeadInQueue DEF Base, TypeOK
<1>2. PassOK(old, ChannelOf[p], accepted)
  BY DEF Base, PassesOK
<1>3. /\ me.at = "flush" /\ me.queue = old.queue /\ me.read = old.read
      /\ me.write = w /\ me.memory = old.memory /\ me.counted = old.counted
  BY <1>1 DEF Marked, Pass
<1>4. w \in [Alerts -> Row] /\ w[h] = row
      /\ \A a \in Alerts \ {h} : w[a] = old.write[a]
  BY <1>1 DEF Pass
<1>5. me \in Pass
  BY <1>1, <1>4 DEF Marked, Pass
<1> HIDE DEF me
<1>6. PassOK(me, ChannelOf[p], accepted')
  <2> HIDE DEF w
  <2>1. \A a \in Alerts : a = h \/ old.write[a] = old.read[a] \/ a \notin old.queue
    BY <1>1, <1>2 DEF PassOK, Visited
  <2>2. \A a \in Alerts : Visited(me, a) \/ w[a] = me.read[a]
    BY <1>1, <1>2, <1>3, <1>4 DEF PassOK, Visited
  <2>3. old.read[h] # NoRow
    BY <1>1, <1>2 DEF PassOK, Ready, Retriable, NoRow
  <2>4. \A a \in Alerts : w[a].status = "SENT" => <<a, ChannelOf[p]>> \in accepted'
    BY <1>2, <1>4 DEF PassOK
  <2>5. \A a \in Alerts :
           \/ w[a] = old.read[a]
           \/ w[a].status \notin Retriable
           \/ w[a].attempts # old.read[a].attempts /\ w[a].attempts < MaxAttempts
    BY <1>2, <1>4 DEF PassOK
  <2>6. old.counted \subseteq Alerts
    BY <1>1 DEF Pass
  <2> QED BY <1>1, <1>2, <1>4, <2>2, <2>3, <2>4, <2>5, <2>6, <1>3 DEF PassOK
<1>7. PassesOK'
  <2>1. pass'[p] = me /\ \A q \in Passes \ {p} : pass'[q] = pass[q]
    BY DEF me, Base, TypeOK
  <2> QED BY <1>6, <2>1, OthersOK DEF Base, TypeOK
<1>8. pass' = [pass EXCEPT ![p] = me]
  BY DEF me
<1> QED BY <1>5, <1>7, <1>8 DEF Base, TypeOK

(* Canceling a row keeps its attempts.                                       *)
LEMMA CancelBase ==
    ASSUME Base, NEW p \in Passes, Cancel(p)
    PROVE  Base'
<1> DEFINE h == Head(p)
           row == [status |-> "CANCELED", attempts |-> pass[p].write[h].attempts]
<1>1. h \in Alerts /\ pass[p] \in Pass /\ pass[p].write[h] \in Row
  BY HeadInQueue DEF Cancel, Base, TypeOK, Pass
<1>2. row \in Row /\ row.status = "CANCELED"
  BY <1>1 DEF Row, Statuses
<1>3. pass' = [pass EXCEPT ![p] = Marked(p, row)]
  BY DEF Cancel
<1>4. accepted' = accepted
  BY DEF Cancel, outside
<1> HIDE DEF row
<1>5. pass' \in [Passes -> Pass] /\ PassesOK'
  BY <1>2, <1>3, <1>4, MarkBase DEF Cancel, Retriable
<1> QED BY <1>5 DEF Cancel, outside, world, Base, TypeOK, RowsReady

(* Sending uses an attempt up; what is called sent was accepted.             *)
LEMMA SendBase ==
    ASSUME Base, NEW p \in Passes, NEW taken \in BOOLEAN, NEW answer,
           Send(p, taken, answer)
    PROVE  Base'
<1> DEFINE h == Head(p)
           r == <<h, ChannelOf[p]>>
           attempt == pass[p].write[h].attempts + 1
           row == [status |-> StatusAfter(answer, attempt), attempts |-> attempt]
<1>1. pass[p].at = "next" /\ pass[p].queue # {}
  BY DEF Send
<1>2. h \in Alerts /\ r \in Rows /\ pass[p] \in Pass /\ h \in pass[p].queue
  BY <1>1, HeadInQueue DEF Base, TypeOK
<1>3. pass[p].write[h] = pass[p].read[h] /\ Ready(pass[p].read[h])
  BY <1>1, <1>2 DEF Base, PassesOK, PassOK, Visited
<1>4. attempt \in 1 .. MaxAttempts /\ attempt # pass[p].read[h].attempts
  BY <1>2, <1>3, ConstantsAssumption DEF Ready, Pass, Row
<1>5. accepted' \subseteq Rows /\ accepted \subseteq accepted'
      /\ (taken => r \in accepted')
  BY <1>2 DEF Send, Base, TypeOK
<1>6. tries' \in [Observed -> Nat]
  BY DEF Send, Base, TypeOK
<1>7. CASE answer # "uncaught"
  <2>1. answer \in {"SENT", "FAILED_RETRYABLE", "FAILED_PERMANENT"}
        /\ (answer = "SENT" => taken)
    BY <1>7 DEF Send, Answers
  <2>2. row \in Row
    BY <1>4, <2>1 DEF Row, Statuses, StatusAfter
  <2>3. row.status \in Retriable => row.attempts < MaxAttempts
    BY <1>4, <2>1, ConstantsAssumption DEF StatusAfter, Retriable
  <2>4. row.status = "SENT" => r \in accepted'
    BY <1>5, <2>1 DEF StatusAfter
  <2>5. pass' = [pass EXCEPT ![p] = Marked(p, row)] /\ faults' = faults
    BY <1>7 DEF Send
  <2> HIDE DEF row
  <2>6. row.attempts = attempt
    BY DEF row
  <2>7. pass' \in [Passes -> Pass] /\ PassesOK'
    BY <1>1, <1>4, <1>5, <2>2, <2>3, <2>4, <2>5, <2>6, MarkBase
  <2> QED BY <1>5, <1>6, <2>5, <2>7 DEF Send, world, Base, TypeOK, RowsReady
<1>8. CASE answer = "uncaught"
  <2>1. pass' = [pass EXCEPT ![p] = Idle] /\ faults' \in 0 .. MaxFaults
    BY <1>8, ConstantsAssumption DEF Send, Base, TypeOK
  <2>2. Idle \in Pass /\ PassOK(Idle, ChannelOf[p], accepted')
    BY IdleOK
  <2>3. PassesOK'
    BY <1>5, <2>1, <2>2, OthersOK DEF Base, TypeOK
  <2> QED BY <1>5, <1>6, <2>1, <2>2, <2>3 DEF Send, world, Base, TypeOK, RowsReady
<1> QED BY <1>7, <1>8
(* What flushing a row does to the pass: on to the next row, or to counting.  *)
LEMMA FlushEffect ==
    ASSUME Base, NEW p \in Passes, Flush(p),
           NEW counting, counting <=> /\ pass[p].write[Head(p)].status = "SENT"
                                      /\ Qualifies(Head(p))
    PROVE  LET old == pass[p]
               me == pass'[p]
           IN /\ old.at = "flush" /\ old.queue # {}
              /\ me.at = IF counting THEN "count" ELSE "next"
              /\ me.queue = IF counting THEN old.queue ELSE old.queue \ {Head(p)}
              /\ me.memory = old.memory \/ (/\ old.memory = Absent
                                            /\ me.memory = cycle.delivered)
              /\ counting => me.memory # Absent
              /\ me.read = old.read /\ me.write = old.write
              /\ me.counted = old.counted
              /\ \A q \in Passes \ {p} : pass'[q] = pass[q]
<1>1. pass[p] \in Pass /\ pass[p].at = "flush" /\ PassOK(pass[p], ChannelOf[p], accepted)
  BY DEF Flush, Base, TypeOK, PassesOK
<1>2. pass[p].queue # {}
  BY <1>1 DEF PassOK
<1>3. PICK known \in Loaded(p) :
          pass' = [pass EXCEPT ![p].at = IF counting THEN "count" ELSE "next",
                               ![p].queue = IF counting THEN @ ELSE @ \ {Head(p)},
                               ![p].memory = known]
  BY DEF Flush
<1>4. cycle.delivered # Absent
  BY ConstantsAssumption DEF Base, TypeOK
<1>5. /\ known = pass[p].memory \/ (pass[p].memory = Absent /\ known = cycle.delivered)
      /\ counting => known # Absent
  BY <1>4 DEF Loaded, Qualifies
<1> QED BY <1>1, <1>2, <1>3, <1>5 DEF Base, TypeOK, Pass

(* Flushing keeps what the pass has in hand.                                 *)
LEMMA FlushBase ==
    ASSUME Base, NEW p \in Passes, Flush(p)
    PROVE  Base'
<1> DEFINE old == pass[p]
           h == Head(p)
           counting == old.write[h].status = "SENT" /\ Qualifies(h)
           me == pass'[p]
<1>1. /\ old.at = "flush" /\ old.queue # {}
      /\ me.at = IF counting THEN "count" ELSE "next"
      /\ me.queue = IF counting THEN old.queue ELSE old.queue \ {h}
      /\ me.memory = old.memory \/ (old.memory = Absent /\ me.memory = cycle.delivered)
      /\ counting => me.memory # Absent
      /\ me.read = old.read /\ me.write = old.write /\ me.counted = old.counted
      /\ \A q \in Passes \ {p} : pass'[q] = pass[q]
  BY FlushEffect
<1>2. /\ old \in Pass /\ h \in Alerts /\ h = First(old.queue) /\ h \in old.queue
      /\ PassOK(old, ChannelOf[p], accepted)
  BY <1>1, HeadInQueue DEF Base, PassesOK, TypeOK
<1>3. cycle.delivered \in Nat /\ Absent \notin Nat
  BY ConstantsAssumption DEF Base, TypeOK
<1>4. pass' \in [Passes -> Pass]
  <2> DEFINE m == me.memory
             Q == IF counting THEN old.queue ELSE old.queue \ {h}
             next == IF counting THEN "count" ELSE "next"
  <2>1. pass' = [pass EXCEPT ![p].at = next, ![p].queue = Q, ![p].memory = m]
    <3>1. PICK known : pass' = [pass EXCEPT ![p].at = next, ![p].queue = Q,
                                            ![p].memory = known]
      BY DEF Flush
    <3>2. known = m
      BY <3>1, <1>2 DEF Base, TypeOK, Pass
    <3> QED BY <3>1, <3>2
  <2>2. m \in Int \cup {Absent} /\ Q \subseteq Alerts /\ next \in {"count", "next"}
    BY <1>1, <1>2, <1>3 DEF Pass
  <2> HIDE DEF m, Q, next
  <2> QED BY <2>1, <2>2, <1>2 DEF Base, TypeOK, Pass
<1>5. PassOK(me, ChannelOf[p], accepted)
  <2> HIDE DEF me
  <2>1. CASE counting
    BY <1>1, <1>2, <1>3, <2>1 DEF PassOK, Visited
  <2>2. CASE ~counting
    <3>1. me.queue \subseteq old.queue
      BY <1>1, <2>2
    <3>2. \A a \in Alerts : Visited(old, a) => Visited(me, a)
      BY <1>1, <1>2, <2>2 DEF Visited
    <3>3. /\ me.counted # {} => me.memory # Absent
          /\ me.memory # Absent => me.memory \in Nat
      BY <1>1, <1>2, <1>3 DEF PassOK
    <3>4. me.at = "next"
      BY <1>1, <2>2
    <3> HIDE DEF counting, h
    <3> QED BY <1>1, <1>2, <3>1, <3>2, <3>3, <3>4 DEF PassOK
  <2> QED BY <2>1, <2>2
<1>6. accepted' = accepted
  BY DEF Flush, outside
<1>7. PassesOK'
  BY <1>1, <1>5, <1>6, OthersOK DEF Base
<1> QED BY <1>4, <1>7 DEF Flush, outside, world, Base, TypeOK, RowsReady

(* What counting an alert does to the pass.                                  *)
LEMMA CountEffect ==
    ASSUME Base, NEW p \in Passes, Count(p)
    PROVE  LET old == pass[p]
               me == pass'[p]
           IN /\ old.at = "count" /\ old.queue # {} /\ old.memory \in Nat
              /\ me.at = "next" /\ me.queue = old.queue \ {Head(p)}
              /\ me.memory = old.memory + 1
              /\ me.counted = old.counted \cup {Head(p)}
              /\ me.read = old.read /\ me.write = old.write
              /\ \A q \in Passes \ {p} : pass'[q] = pass[q]
<1>1. pass[p] \in Pass /\ pass[p].at = "count" /\ PassOK(pass[p], ChannelOf[p], accepted)
  BY DEF Count, Base, TypeOK, PassesOK
<1>2. pass[p].queue # {} /\ pass[p].memory \in Nat
  BY <1>1 DEF PassOK
<1> QED BY <1>1, <1>2 DEF Count, Base, TypeOK, Pass

(* Counting an alert moves it from the queue to the counted ones.            *)
LEMMA CountBase ==
    ASSUME Base, NEW p \in Passes, Count(p)
    PROVE  Base'
<1> DEFINE old == pass[p]
           h == Head(p)
           me == pass'[p]
<1>1. /\ old.at = "count" /\ old.queue # {} /\ old.memory \in Nat
      /\ me.at = "next" /\ me.queue = old.queue \ {h}
      /\ me.memory = old.memory + 1 /\ me.counted = old.counted \cup {h}
      /\ me.read = old.read /\ me.write = old.write
      /\ \A q \in Passes \ {p} : pass'[q] = pass[q]
  BY CountEffect
<1>2. /\ old \in Pass /\ h \in Alerts /\ h = First(old.queue) /\ h \in old.queue
      /\ PassOK(old, ChannelOf[p], accepted)
  BY <1>1, HeadInQueue DEF Base, PassesOK, TypeOK
<1>3. old.memory + 1 \in Nat /\ Absent \notin Nat
  BY <1>1, ConstantsAssumption
<1>4. pass' \in [Passes -> Pass]
  BY <1>2, <1>3 DEF Count, Base, TypeOK, Pass
<1>5. PassOK(me, ChannelOf[p], accepted)
  <2> HIDE DEF me
  <2>1. me.memory \in Nat /\ me.memory # Absent
    BY <1>1, <1>3
  <2>2. \A a \in Alerts : Visited(old, a) => Visited(me, a)
    BY <1>1, <1>2 DEF Visited
  <2>3. \A a \in me.counted : a \notin me.queue /\ me.write[a].status = "SENT"
    BY <1>1, <1>2 DEF PassOK
  <2> QED BY <1>1, <1>2, <2>1, <2>2, <2>3 DEF PassOK
<1>6. accepted' = accepted
  BY DEF Count, outside
<1>7. PassesOK'
  BY <1>1, <1>5, <1>6, OthersOK DEF Base
<1> QED BY <1>4, <1>7 DEF Count, outside, world, Base, TypeOK, RowsReady

(* What a commit stores: the columns the pass changed, and of the others what *)
(* some pass that overlapped has stored.  A row that is to be sent again has  *)
(* attempts left in any mixture.                                             *)
LEMMA WrittenOK ==
    ASSUME Base, NEW p \in Passes, NEW a \in Alerts,
           pass[p].write[a] # pass[p].read[a]
    PROVE  /\ Written(p, a) \in Row
           /\ Written(p, a).status \in Retriable => Ready(Written(p, a))
           /\ Written(p, a).status = "SENT" =>
                 \/ pass[p].write[a].status = "SENT"
                 \/ deliveries[<<a, ChannelOf[p]>>].status = "SENT"
           /\ pass[p].write[a].status = "SENT" => Written(p, a).status = "SENT"
<1> DEFINE read == pass[p].read[a]
           write == pass[p].write[a]
           stored == deliveries[<<a, ChannelOf[p]>>]
<1>1. <<a, ChannelOf[p]>> \in Rows
  BY ConstantsAssumption DEF Rows
<1>2. read \in Row /\ write \in Row /\ stored \in Row
  BY <1>1 DEF Base, TypeOK, Pass
<1>3. PassOK(pass[p], ChannelOf[p], accepted)
  BY DEF Base, PassesOK
<1>4. Ready(read)
  BY <1>3 DEF PassOK
<1>5. Written(p, a) = [status |-> Column(read.status, write.status, stored.status),
                      attempts |-> Column(read.attempts, write.attempts,
                                          stored.attempts)]
  BY DEF Written
<1>6. \/ write.status \notin Retriable
      \/ write.attempts # read.attempts /\ write.attempts < MaxAttempts
  BY <1>3 DEF PassOK
<1> HIDE DEF read, write, stored
<1>7. Written(p, a) \in Row
  BY <1>2, <1>5 DEF Row, Column
<1>8. Written(p, a).status \in Retriable => Ready(Written(p, a))
  <2>1. CASE write.status \notin Retriable
    <3>1. Written(p, a).status = write.status
      BY <1>4, <1>5, <2>1 DEF Column, Ready
    <3> QED BY <2>1, <3>1
  <2>2. CASE write.attempts # read.attempts /\ write.attempts < MaxAttempts
    BY <1>5, <2>2 DEF Column, Ready
  <2> QED BY <1>6, <2>1, <2>2
<1>9. /\ Written(p, a).status = "SENT" => write.status = "SENT" \/ stored.status = "SENT"
      /\ write.status = "SENT" => Written(p, a).status = "SENT"
  BY <1>4, <1>5 DEF Column, Ready, Retriable
<1> QED BY <1>7, <1>8, <1>9 DEF write, stored

(* A commit stores rows that are well formed.                                *)
LEMMA CommitBase ==
    ASSUME Base, NEW p \in Passes, Commit(p)
    PROVE  Base'
<1> DEFINE Mine == {r \in Rows : r[2] = ChannelOf[p] /\ r[1] \in Dirty(p)}
<1>1. \A a \in Dirty(p) : a \in Alerts /\ pass[p].write[a] # pass[p].read[a]
  BY DEF Dirty
<1>2. deliveries' = [r \in Rows |->
          IF r \in Mine THEN Written(p, r[1]) ELSE deliveries[r]]
  BY DEF Commit
<1>3. deliveries' \in [Rows -> Row] /\ RowsReady'
  <2>1. \A r \in Mine : /\ Written(p, r[1]) \in Row
                        /\ Written(p, r[1]).status \in Retriable
                              => Ready(Written(p, r[1]))
    BY <1>1, WrittenOK
  <2>2. \A r \in Rows : deliveries[r] \in Row
                        /\ (deliveries[r].status \in Retriable => Ready(deliveries[r]))
    BY DEF Base, TypeOK, RowsReady
  <2> HIDE DEF Mine
  <2> QED BY <1>2, <2>1, <2>2 DEF RowsReady
<1>4. waiting' \subseteq Rows
  BY DEF Commit, Base, TypeOK
<1>5. attribution' \in [Alerts -> {"none", "generated", "qualifying_delivered"}]
  BY DEF Commit, Base, TypeOK
<1>6. cycle' \in [status : {"active", "expired"}, ended : BOOLEAN, delivered : Nat]
  <2>1. pass[p].counted # {} => pass[p].memory \in Nat
    BY DEF Base, PassesOK, PassOK
  <2> QED BY <2>1 DEF Commit, Base, TypeOK
<1>7. pass' = [pass EXCEPT ![p] = Idle] /\ accepted' = accepted
  BY DEF Commit, outside
<1>8. PassesOK'
  BY <1>7, IdleOK, OthersOK DEF Base, TypeOK
<1> QED BY <1>3, <1>4, <1>5, <1>6, <1>7, <1>8, IdleOK
        DEF Commit, outside, world, Base, TypeOK

(* Every step keeps the base invariant.                                      *)
LEMMA NextBase == Base /\ [Next]_vars => Base'
<1> SUFFICES ASSUME Base, [Next]_vars PROVE Base'
  OBVIOUS
<1>1. ASSUME NEW p \in Passes, PassStep(p) PROVE Base'
  <2>1. ASSUME NEW taken \in BOOLEAN, NEW answer \in Statuses \cup {"uncaught"},
               Send(p, taken, answer)
        PROVE  Base'
    BY <2>1, SendBase
  <2> QED BY <1>1, <2>1, CancelBase, FlushBase, CountBase, CommitBase DEF PassStep
<1>2. CASE UNCHANGED vars
  BY <1>2 DEF vars, world, outside, Base, TypeOK, PassesOK, RowsReady
<1> QED BY <1>1, <1>2, OutsideBase, BeginBase, UndoneBase DEF Next

(* So the base holds at every moment.                                        *)
LEMMA BaseInvariant == Spec => []Base
<1> QED BY InitBase, NextBase, PTL DEF Spec

(* Rows, passes, attributions and counters keep their shapes: no row is given *)
(* an attempt beyond MaxAttempts, whatever passes write over each other.      *)
THEOREM TypeCorrect == Spec => []TypeOK
<1>1. Base => TypeOK
  BY DEF Base
<1> QED BY <1>1, BaseInvariant, PTL
----------------------------------------------------------------------------
(* What canceling or sending does to the pass: it marks the row it has        *)
(* reached, or an uncaught error ends it.                                    *)
LEMMA MarkEffect ==
    ASSUME Base, NEW p \in Passes,
           \/ Cancel(p)
           \/ \E taken \in BOOLEAN, answer \in Statuses \cup {"uncaught"} :
                  Send(p, taken, answer)
    PROVE  LET old == pass[p]
               me == pass'[p]
           IN /\ accepted \subseteq accepted'
              /\ UNCHANGED <<raised, deliveries, attribution, cycle, repair>>
              /\ \A q \in Passes \ {p} : pass'[q] = pass[q]
              /\ \/ me = Idle
                 \/ /\ old.at = "next" /\ old.queue # {}
                    /\ me.at = "flush" /\ me.queue = old.queue
                    /\ me.read = old.read /\ me.memory = old.memory
                    /\ me.counted = old.counted
                    /\ \A a \in Alerts \ {Head(p)} : me.write[a] = old.write[a]
<1> USE DEF Base, TypeOK
<1>1. accepted \subseteq accepted'
      /\ UNCHANGED <<raised, deliveries, attribution, cycle, repair>>
  BY DEF Cancel, Send, world, outside
<1>2. \/ pass' = [pass EXCEPT ![p] = Idle]
      \/ /\ pass[p].at = "next" /\ pass[p].queue # {}
         /\ \E row : pass' = [pass EXCEPT ![p] = Marked(p, row)]
  BY DEF Cancel, Send
<1>3. pass[p] \in Pass
  OBVIOUS
<1>4. ASSUME NEW row
      PROVE  LET me == Marked(p, row) old == pass[p]
             IN /\ me.at = "flush" /\ me.queue = old.queue
                /\ me.read = old.read /\ me.memory = old.memory
                /\ me.counted = old.counted
                /\ \A a \in Alerts \ {Head(p)} : me.write[a] = old.write[a]
  BY <1>3 DEF Marked, Pass
<1> QED BY <1>1, <1>2, <1>4

----------------------------------------------------------------------------
(* RecordedIsReal is kept by every step once the passes are in order.        *)
LEMMA InitReal == Init => RecordedIsReal
BY DEF Init, RecordedIsReal, Counted, NoRow

(* What is written at a commit was accepted before; no other step writes.    *)
LEMMA NextReal ==
    ASSUME Base, RecordedIsReal, [Next]_vars
    PROVE  RecordedIsReal'
<1>1. ASSUME UNCHANGED <<deliveries, attribution>>, accepted \subseteq accepted'
      PROVE  RecordedIsReal'
  BY <1>1 DEF RecordedIsReal, Counted
<1>2. CASE Raise
  <2>1. accepted' = accepted
    BY <1>2 DEF Raise, outside
  <2>2. \A r \in Rows : deliveries'[r].status = "SENT" => deliveries[r].status = "SENT"
    BY <1>2 DEF Raise, NoRow
  <2>3. Counted' \subseteq Counted
    BY <1>2 DEF Raise, Counted, Base, TypeOK
  <2> QED BY <2>1, <2>2, <2>3 DEF RecordedIsReal
<1>3. CASE ChangeLink \/ EndCycle \/ CloseCycle \/ RepairRead \/ RepairWrite
  BY <1>1, <1>3 DEF ChangeLink, EndCycle, CloseCycle, RepairRead, RepairWrite, outside
<1>4. ASSUME NEW r \in Rows, BackoffElapses(r) PROVE RecordedIsReal'
  BY <1>1, <1>4 DEF BackoffElapses, outside
<1>5. ASSUME NEW p \in Passes, Begin(p) \/ Crash(p) \/ Deadlocked(p)
      PROVE  RecordedIsReal'
  BY <1>1, <1>5 DEF Begin, Crash, Deadlocked, outside
<1>6. ASSUME NEW p \in Passes, PassStep(p) PROVE RecordedIsReal'
  <2>1. CASE ~Commit(p) /\ ~Flush(p) /\ ~Count(p)
    BY <1>1, <1>6, <2>1, MarkEffect DEF PassStep
  <2>2. CASE Flush(p) \/ Count(p)
    BY <1>1, <2>2 DEF Flush, Count, outside
  <2>3. CASE Commit(p)
    <3>1. accepted' = accepted
      BY <2>3 DEF Commit, outside
    <3>2. PassOK(pass[p], ChannelOf[p], accepted) /\ pass[p] \in Pass
          /\ ChannelOf[p] \in Chosen
      BY ConstantsAssumption DEF Base, PassesOK, TypeOK
    <3>3. ASSUME NEW r \in Rows, deliveries'[r].status = "SENT"
          PROVE  r \in accepted
      <4>1. CASE deliveries'[r] = deliveries[r]
        BY <3>3, <4>1 DEF RecordedIsReal
      <4>2. CASE deliveries'[r] # deliveries[r]
        <5>1. PICK a \in Alerts : r = <<a, ChannelOf[p]>> /\ a \in Dirty(p)
          BY <2>3, <4>2 DEF Commit, Rows
        <5>2. deliveries'[r] = Written(p, a) /\ pass[p].write[a] # pass[p].read[a]
          BY <2>3, <4>2, <5>1 DEF Commit, Dirty
        <5>3. pass[p].write[a].status = "SENT" \/ deliveries[r].status = "SENT"
          BY <3>3, <5>1, <5>2, WrittenOK
        <5> QED BY <3>2, <5>1, <5>3 DEF PassOK, RecordedIsReal
      <4> QED BY <4>1, <4>2
    <3>4. ASSUME NEW a \in Counted' PROVE \E ch \in Chosen : <<a, ch>> \in accepted
      <4>1. a \in Counted \/ a \in pass[p].counted
        BY <2>3 DEF Commit, Counted
      <4>2. CASE a \in Counted
        BY <4>2 DEF RecordedIsReal
      <4>3. CASE a \in pass[p].counted
        BY <3>2, <4>3 DEF PassOK, Pass
      <4> QED BY <4>1, <4>2, <4>3
    <3> QED BY <3>1, <3>3, <3>4 DEF RecordedIsReal
  <2> QED BY <2>1, <2>2, <2>3
<1>7. CASE UNCHANGED vars
  BY <1>1, <1>7 DEF vars, outside
<1> QED BY <1>2, <1>3, <1>4, <1>5, <1>6, <1>7 DEF Next

(* A row that says sent is a message the provider took, and an alert counted  *)
(* against the trial is one that some channel took, whichever passes overlap, *)
(* write stale rows over each other, die or are undone.                       *)
THEOREM RecordedIsRealCorrect == Spec => []RecordedIsReal
<1>1. Init => Base /\ RecordedIsReal
  BY InitBase, InitReal
<1>2. Base /\ RecordedIsReal /\ [Next]_vars => (Base /\ RecordedIsReal)'
  BY NextBase, NextReal
<1> QED BY <1>1, <1>2, PTL DEF Spec
----------------------------------------------------------------------------
(* Nothing knows of an alert before it is raised.                            *)
Fresh ==
    \A a \in Alerts : a > raised =>
        /\ attribution[a] = "none"
        /\ \A ch \in Chosen : deliveries[<<a, ch>>] = NoRow
        /\ \A p \in Passes : pass[p].read[a] = NoRow

(* Initially no alert is raised, and nothing knows of one.                   *)
LEMMA InitFresh == Init => Fresh
BY DEF Init, Fresh, Idle, Rows

(* Every step leaves the alerts to come alone.                               *)
LEMMA NextFresh ==
    ASSUME Base, Fresh, [Next]_vars
    PROVE  Fresh'
<1>1. Alerts \subseteq Nat /\ raised \in Nat
  BY ConstantsAssumption DEF Alerts, Base, TypeOK
<1>2. ASSUME UNCHANGED <<raised, deliveries, attribution>>,
             \A p \in Passes : \A a \in Alerts :
                 a > raised /\ pass[p].read[a] = NoRow => pass'[p].read[a] = NoRow
      PROVE  Fresh'
  BY <1>2 DEF Fresh
<1>3. CASE Raise
  <2>1. raised' = raised + 1 /\ pass' = pass
    BY <1>3 DEF Raise
  <2>2. \A a \in Alerts : a > raised + 1 => a > raised /\ a # raised + 1
    BY <1>1
  <2>3. ASSUME NEW a \in Alerts, a # raised + 1
        PROVE  /\ attribution'[a] = attribution[a]
               /\ \A ch \in Chosen : deliveries'[<<a, ch>>] = deliveries[<<a, ch>>]
    BY <1>3, <2>3 DEF Raise, Rows, Base, TypeOK
  <2> QED BY <2>1, <2>2, <2>3 DEF Fresh
<1>4. CASE ChangeLink \/ EndCycle \/ CloseCycle \/ RepairRead \/ RepairWrite
  BY <1>2, <1>4 DEF ChangeLink, EndCycle, CloseCycle, RepairRead, RepairWrite
<1>5. ASSUME NEW r \in Rows, BackoffElapses(r) PROVE Fresh'
  BY <1>2, <1>5 DEF BackoffElapses
<1>6. ASSUME NEW p \in Passes, Begin(p) PROVE Fresh'
  <2>1. /\ \A q \in Passes \ {p} : pass'[q] = pass[q]
        /\ \A a \in Alerts \ pass'[p].queue : pass'[p].read[a] = NoRow
        /\ \A a \in pass'[p].queue : pass'[p].read[a] = deliveries[<<a, ChannelOf[p]>>]
    BY <1>6, BeginEffect DEF Base, TypeOK
  <2>2. \A a \in Alerts : a > raised => deliveries[<<a, ChannelOf[p]>>] = NoRow
    BY ConstantsAssumption DEF Fresh
  <2>3. \A a \in Alerts : a > raised => pass'[p].read[a] = NoRow
    BY <2>1, <2>2
  <2>4. UNCHANGED <<raised, deliveries, attribution>>
    BY <1>6 DEF Begin
  <2> QED BY <1>2, <2>1, <2>3, <2>4
<1>7. ASSUME NEW p \in Passes, Crash(p) \/ Deadlocked(p) PROVE Fresh'
  <2>1. pass' = [pass EXCEPT ![p] = Idle] /\ UNCHANGED <<raised, deliveries, attribution>>
    BY <1>7 DEF Crash, Deadlocked
  <2>2. \A a \in Alerts : Idle.read[a] = NoRow
    BY DEF Idle
  <2> QED BY <1>2, <2>1, <2>2 DEF Base, TypeOK
<1>8. ASSUME NEW p \in Passes, PassStep(p) PROVE Fresh'
  <2>0. \A a \in Alerts : Idle.read[a] = NoRow
    BY DEF Idle
  <2>1. CASE ~Commit(p) /\ ~Flush(p) /\ ~Count(p)
    <3>1. /\ UNCHANGED <<raised, deliveries, attribution>>
          /\ \A q \in Passes \ {p} : pass'[q] = pass[q]
          /\ pass'[p] = Idle \/ pass'[p].read = pass[p].read
      BY <1>8, <2>1, MarkEffect DEF PassStep
    <3> QED BY <1>2, <2>0, <3>1
  <2>2. CASE Flush(p)
    <3>1. /\ \A q \in Passes \ {p} : pass'[q] = pass[q]
          /\ pass'[p].read = pass[p].read
      BY <2>2, FlushEffect
    <3> QED BY <1>2, <2>2, <3>1 DEF Flush
  <2>3. CASE Count(p)
    <3>1. /\ \A q \in Passes \ {p} : pass'[q] = pass[q]
          /\ pass'[p].read = pass[p].read
      BY <2>3, CountEffect
    <3> QED BY <1>2, <2>3, <3>1 DEF Count
  <2>4. CASE Commit(p)
    <3>1. ASSUME NEW a \in Alerts, a > raised
          PROVE  pass[p].write[a] = pass[p].read[a] /\ a \notin pass[p].counted
      <4>1. PassOK(pass[p], ChannelOf[p], accepted) /\ pass[p].read[a] = NoRow
        BY <3>1 DEF Base, PassesOK, Fresh
      <4>2. pass[p].write[a] = NoRow
        BY <4>1 DEF PassOK
      <4>3. NoRow.status # "SENT"
        BY DEF NoRow
      <4> QED BY <4>1, <4>2, <4>3 DEF PassOK
    <3>2. raised' = raised /\ pass' = [pass EXCEPT ![p] = Idle]
      BY <2>4 DEF Commit
    <3>3. ASSUME NEW a \in Alerts, a > raised
          PROVE  /\ attribution'[a] = "none"
                 /\ \A ch \in Chosen : deliveries'[<<a, ch>>] = NoRow
      BY <2>4, <3>1, <3>3 DEF Commit, Dirty, Fresh, Rows
    <3> QED BY <2>0, <3>2, <3>3 DEF Fresh, Base, TypeOK
  <2> QED BY <2>1, <2>2, <2>3, <2>4
<1>9. CASE UNCHANGED vars
  BY <1>2, <1>9 DEF vars
<1> QED BY <1>3, <1>4, <1>5, <1>6, <1>7, <1>8, <1>9 DEF Next

----------------------------------------------------------------------------
(* The ledger: neither the counter, nor a recount, nor the sum a pass has in  *)
(* memory exceeds the alerts that are counted, those of the pass included.   *)
(* While a pass waits to count an alert, that alert is not in its sum yet,   *)
(* although another pass may count it meanwhile.                             *)
Covered(p) ==
    IF pass[p].at = "count" THEN (Counted \cup pass[p].counted) \ {Head(p)}
    ELSE Counted \cup pass[p].counted

Ledger ==
    /\ cycle.delivered <= Cardinality(Counted)
    /\ repair # Absent => repair <= Cardinality(Counted)
    /\ \A p \in Passes :
          pass[p].memory # Absent => pass[p].memory <= Cardinality(Covered(p))

(* Cardinalities of sets of alerts are numbers, and grow with the set.       *)
LEMMA AlertsFinite == IsFiniteSet(Alerts)
BY ConstantsAssumption, FS_Interval DEF Alerts

(* The same for any set of alerts and a part of it.                          *)
LEMMA SubsetsOfAlerts ==
    ASSUME NEW S \in SUBSET Alerts, NEW T \in SUBSET S
    PROVE  /\ IsFiniteSet(S) /\ Cardinality(S) \in Nat
           /\ Cardinality(T) \in Nat /\ Cardinality(T) <= Cardinality(S)
<1>1. IsFiniteSet(S)
  BY AlertsFinite, FS_Subset
<1> QED BY <1>1, FS_Subset, FS_CardinalityType

(* Initially nothing is counted and the counter is zero.                     *)
LEMMA InitLedger == Init => Ledger
<1> SUFFICES ASSUME Init PROVE Ledger
  OBVIOUS
<1>1. Counted = {}
  BY DEF Init, Counted
<1>2. Cardinality({}) = 0
  BY FS_EmptySet
<1> QED BY <1>1, <1>2 DEF Init, Ledger, Idle

(* The counted alerts never become fewer, and a pass that a step leaves alone *)
(* is covered as it was.                                                     *)
LEMMA LedgerOthers ==
    ASSUME Base, Ledger, NEW q \in Passes, pass'[q] = pass[q],
           Counted \subseteq Counted', Counted' \subseteq Alerts,
           pass'[q].memory # Absent
    PROVE  pass'[q].memory <= Cardinality(Covered(q)')
<1> DEFINE me == pass[q]
           C == Covered(q)
           D == IF me.at = "count" THEN (Counted' \cup me.counted) \ {Head(q)}
                ELSE Counted' \cup me.counted
<1>1. me.counted \subseteq Alerts /\ me.memory \in Nat
  BY DEF Base, TypeOK, Pass, PassesOK, PassOK
<1>2. C \subseteq D /\ D \subseteq Alerts
  BY <1>1 DEF Covered
<1>3. Covered(q)' = D
  BY DEF Covered, Head
<1> HIDE DEF C, D
<1>4. Cardinality(C) <= Cardinality(D) /\ Cardinality(C) \in Nat /\ Cardinality(D) \in Nat
  BY <1>2, SubsetsOfAlerts
<1>5. me.memory <= Cardinality(C)
  BY DEF Ledger, C
<1> QED BY <1>1, <1>3, <1>4, <1>5
(* Every step keeps the ledger.                                              *)
LEMMA NextLedger ==
    ASSUME Base, Fresh, Ledger, [Next]_vars
    PROVE  Ledger'
<1>1. Counted \subseteq Alerts /\ Counted' \subseteq Alerts
  BY DEF Counted
<1>2. /\ Cardinality(Counted') \in Nat /\ Cardinality(Counted) \in Nat
      /\ Counted \subseteq Counted' => Cardinality(Counted) <= Cardinality(Counted')
  BY <1>1, SubsetsOfAlerts
<1>3. /\ cycle.delivered \in Nat /\ cycle.delivered <= Cardinality(Counted)
      /\ repair # Absent => repair \in Nat /\ repair <= Cardinality(Counted)
  BY DEF Ledger, Base, TypeOK
<1>4. ASSUME Counted' = Counted, pass' = pass,
             cycle'.delivered <= Cardinality(Counted),
             repair' # Absent => repair' <= Cardinality(Counted)
      PROVE  Ledger'
  <2>1. ASSUME NEW q \in Passes, pass'[q].memory # Absent
        PROVE  pass'[q].memory <= Cardinality(Covered(q)')
    BY <1>1, <1>4, <2>1, LedgerOthers
  <2> QED BY <1>4, <2>1 DEF Ledger
<1>5. ASSUME NEW p \in Passes,
             \A q \in Passes \ {p} : pass'[q] = pass[q],
             Counted \subseteq Counted', repair' = repair,
             cycle'.delivered <= Cardinality(Counted'),
             pass'[p].memory # Absent =>
                pass'[p].memory <= Cardinality(Covered(p)')
      PROVE  Ledger'
  <2>1. ASSUME NEW q \in Passes, pass'[q].memory # Absent
        PROVE  pass'[q].memory <= Cardinality(Covered(q)')
    <3>1. CASE q = p
      BY <1>5, <2>1, <3>1
    <3>2. CASE q # p
      BY <1>1, <1>5, <2>1, <3>2, LedgerOthers
    <3> QED BY <3>1, <3>2
  <2>2. repair' # Absent => repair' <= Cardinality(Counted')
    BY <1>2, <1>3, <1>5
  <2> QED BY <1>5, <2>1, <2>2 DEF Ledger
<1>6. CASE Raise
  <2>1. Counted' = Counted
    <3>1. raised + 1 > raised
      BY ConstantsAssumption DEF Base, TypeOK
    <3>2. raised + 1 \notin Counted
      BY <3>1 DEF Fresh, Counted
    <3> QED BY <1>6, <3>2 DEF Raise, Counted, Base, TypeOK
  <2> QED BY <1>3, <1>4, <1>6, <2>1 DEF Raise
<1>7. CASE ChangeLink \/ EndCycle \/ CloseCycle
  <2>1. Counted' = Counted
    BY <1>7 DEF ChangeLink, EndCycle, CloseCycle, Counted
  <2>2. cycle'.delivered = cycle.delivered
    BY <1>7 DEF ChangeLink, EndCycle, CloseCycle, Base, TypeOK
  <2> QED BY <1>3, <1>4, <1>7, <2>1, <2>2 DEF ChangeLink, EndCycle, CloseCycle
<1>8. ASSUME NEW r \in Rows, BackoffElapses(r) PROVE Ledger'
  BY <1>3, <1>4, <1>8 DEF BackoffElapses, Counted
<1>9. CASE RepairRead
  BY <1>2, <1>3, <1>4, <1>9 DEF RepairRead, Counted
<1>10. CASE RepairWrite
  <2>1. cycle'.delivered = repair
    BY <1>10 DEF RepairWrite, Base, TypeOK
  <2> QED BY <1>3, <1>4, <1>10, <2>1 DEF RepairWrite, Counted
<1>11. ASSUME NEW p \in Passes, Begin(p) \/ Crash(p) \/ Deadlocked(p)
       PROVE  Ledger'
  <2>1. /\ \A q \in Passes \ {p} : pass'[q] = pass[q]
        /\ pass'[p].memory = Absent
    <3>1. CASE Begin(p)
      BY <3>1, BeginEffect DEF Base, TypeOK
    <3>2. CASE Crash(p) \/ Deadlocked(p)
      BY <3>2 DEF Crash, Deadlocked, Idle, Base, TypeOK
    <3> QED BY <1>11, <3>1, <3>2
  <2>2. Counted' = Counted /\ cycle' = cycle /\ repair' = repair
    BY <1>11 DEF Begin, Crash, Deadlocked, Counted
  <2> QED BY <1>3, <1>5, <2>1, <2>2
<1>12. ASSUME NEW p \in Passes, PassStep(p) PROVE Ledger'
  <2>1. PassOK(pass[p], ChannelOf[p], accepted) /\ pass[p] \in Pass
        /\ (pass[p].memory # Absent => pass[p].memory <= Cardinality(Covered(p)))
    BY DEF Base, PassesOK, TypeOK, Ledger
  <2>2. pass[p].counted \subseteq Alerts
    BY <2>1 DEF Pass
  <2>3. CASE ~Commit(p) /\ ~Flush(p) /\ ~Count(p)
    <3>1. /\ UNCHANGED <<attribution, cycle, repair>>
          /\ \A q \in Passes \ {p} : pass'[q] = pass[q]
          /\ \/ pass'[p] = Idle
             \/ /\ pass[p].at = "next" /\ pass'[p].at = "flush"
                /\ pass'[p].memory = pass[p].memory
                /\ pass'[p].counted = pass[p].counted
      BY <1>12, <2>3, MarkEffect DEF PassStep
    <3>2. Counted' = Counted
      BY <3>1 DEF Counted
    <3>3. pass'[p].memory # Absent => pass'[p].memory <= Cardinality(Covered(p)')
      BY <2>1, <3>1, <3>2 DEF Covered, Idle
    <3> QED BY <1>3, <1>5, <3>1, <3>2, <3>3
  <2>4. CASE Flush(p)
    <3> DEFINE h == Head(p)
               counting == pass[p].write[h].status = "SENT" /\ Qualifies(h)
    <3>1. /\ pass[p].at = "flush" /\ pass[p].queue # {}
          /\ pass'[p].at = IF counting THEN "count" ELSE "next"
          /\ pass'[p].queue = IF counting THEN pass[p].queue ELSE pass[p].queue \ {h}
          /\ \/ pass'[p].memory = pass[p].memory
             \/ pass[p].memory = Absent /\ pass'[p].memory = cycle.delivered
          /\ pass'[p].counted = pass[p].counted
          /\ \A q \in Passes \ {p} : pass'[q] = pass[q]
      BY <2>4, FlushEffect
    <3>2. UNCHANGED <<attribution, cycle, repair>> /\ Counted' = Counted
      BY <2>4 DEF Flush, Counted
    <3>3. counting => h \notin Counted /\ h \notin pass[p].counted
      BY <2>1, <3>1, HeadInQueue DEF Base, Qualifies, Counted, PassOK
    <3>4. Covered(p) = Counted \cup pass[p].counted
      BY <3>1 DEF Covered
    <3>5. Covered(p)' = Covered(p)
      <4>1. CASE counting
        <5>1. Head(p)' = h
          BY <3>1, <4>1 DEF Head
        <5> QED BY <3>1, <3>2, <3>3, <3>4, <4>1, <5>1 DEF Covered
      <4>2. CASE ~counting
        BY <3>1, <3>2, <3>4, <4>2 DEF Covered
      <4> QED BY <4>1, <4>2
    <3>6. pass'[p].memory # Absent => pass'[p].memory <= Cardinality(Covered(p)')
      <4>1. CASE pass[p].memory # Absent
        BY <2>1, <3>1, <3>5, <4>1
      <4>2. CASE pass[p].memory = Absent
        <5>1. pass[p].counted = {}
          BY <2>1, <4>2 DEF PassOK
        <5> QED BY <1>3, <3>1, <3>4, <3>5, <4>2, <5>1
      <4> QED BY <4>1, <4>2
    <3> QED BY <1>3, <1>5, <3>1, <3>2, <3>6
  <2>5. CASE Count(p)
    <3> DEFINE h == Head(p)
               X == Counted \cup pass[p].counted
    <3>1. /\ pass[p].at = "count" /\ pass[p].queue # {} /\ pass[p].memory \in Nat
          /\ pass'[p].at = "next" /\ pass'[p].memory = pass[p].memory + 1
          /\ pass'[p].counted = pass[p].counted \cup {h}
          /\ \A q \in Passes \ {p} : pass'[q] = pass[q]
      BY <2>5, CountEffect
    <3>2. UNCHANGED <<attribution, cycle, repair>> /\ Counted' = Counted
      BY <2>5 DEF Count, Counted
    <3>3. Covered(p) = X \ {h} /\ Covered(p)' = (X \ {h}) \cup {h}
      BY <3>1, <3>2 DEF Covered
    <3>4. pass[p].memory <= Cardinality(X \ {h})
      BY <2>1, <3>1, <3>3, ConstantsAssumption
    <3>5. IsFiniteSet(X \ {h}) /\ Cardinality(X \ {h}) \in Nat
      BY <1>1, <2>2, SubsetsOfAlerts
    <3> HIDE DEF X
    <3>6. Cardinality((X \ {h}) \cup {h}) = Cardinality(X \ {h}) + 1
      BY <3>5, FS_AddElement
    <3>7. pass'[p].memory <= Cardinality(Covered(p)')
      BY <3>1, <3>3, <3>4, <3>5, <3>6
    <3> QED BY <1>3, <1>5, <3>1, <3>2, <3>7
  <2>6. CASE Commit(p)
    <3>1. /\ pass' = [pass EXCEPT ![p] = Idle] /\ repair' = repair
          /\ pass[p].at = "next"
      BY <2>6 DEF Commit
    <3>2. Counted' = Counted \cup pass[p].counted
      BY <2>2, <2>6 DEF Commit, Counted
    <3>3. Covered(p) = Counted'
      BY <3>1, <3>2 DEF Covered
    <3>4. cycle'.delivered <= Cardinality(Counted')
      <4>1. CASE pass[p].counted = {}
        BY <1>3, <2>6, <3>2, <4>1 DEF Commit
      <4>2. CASE pass[p].counted # {}
        <5>1. pass[p].memory # Absent
          BY <2>1, <4>2 DEF PassOK
        <5>2. cycle'.delivered = pass[p].memory
          BY <2>6, <4>2 DEF Commit, Base, TypeOK
        <5> QED BY <2>1, <3>3, <5>1, <5>2
      <4> QED BY <4>1, <4>2
    <3>5. pass'[p].memory = Absent /\ \A q \in Passes \ {p} : pass'[q] = pass[q]
      BY <3>1 DEF Idle, Base, TypeOK
    <3> QED BY <1>5, <3>1, <3>2, <3>4, <3>5
  <2> QED BY <2>3, <2>4, <2>5, <2>6
<1>13. CASE UNCHANGED vars
  BY <1>3, <1>4, <1>13 DEF vars, Counted
<1> QED BY <1>6, <1>7, <1>8, <1>9, <1>10, <1>11, <1>12, <1>13 DEF Next

(* The counter that the trial cap reads never runs ahead of the alerts that   *)
(* were delivered: passes that overlap lose increments and never invent one,  *)
(* and a recount that comes late does no harm.                               *)
THEOREM NeverOverstatedCorrect == Spec => []NeverOverstated
<1>1. Init => Base /\ Fresh /\ Ledger
  BY InitBase, InitFresh, InitLedger
<1>2. Base /\ Fresh /\ Ledger /\ [Next]_vars => (Base /\ Fresh /\ Ledger)'
  BY NextBase, NextFresh, NextLedger
<1>3. Ledger => NeverOverstated
  BY DEF Ledger, NeverOverstated
<1> QED BY <1>1, <1>2, <1>3, PTL DEF Spec
----------------------------------------------------------------------------
(* A pass that has dealt with a message that was sent has counted its alert,  *)
(* or found nothing to count: the alert is counted already or belongs to no   *)
(* cycle, or the cycle is closed.                                            *)
Owed(a) == attribution[a] = "generated" /\ cycle.status # "expired"

Handled ==
    \A p \in Passes, a \in Alerts :
        pass[p].write[a].status = "SENT" /\ a \notin pass[p].queue /\ Owed(a)
            => a \in pass[p].counted

Stored ==
    \A a \in Alerts, ch \in Chosen :
        deliveries[<<a, ch>>].status = "SENT" => ~Owed(a)

Settled == Handled /\ Stored

(* Initially nothing was sent.                                               *)
LEMMA InitSettled == Init => Settled
<1> SUFFICES ASSUME Init PROVE Settled
  OBVIOUS
<1>1. NoRow.status # "SENT"
  BY DEF NoRow
<1> QED BY <1>1 DEF Init, Settled, Handled, Stored, Idle, Rows

(* Every step keeps both.                                                    *)
LEMMA NextSettled ==
    ASSUME Base, Fresh, Settled, [Next]_vars
    PROVE  Settled'
<1>0. NoRow.status # "SENT" /\ \A a \in Alerts : Idle.write[a].status # "SENT"
  BY DEF NoRow, Idle
<1>1. ASSUME UNCHANGED <<deliveries, pass>>,
             \A a \in Alerts : Owed(a)' => Owed(a)
      PROVE  Settled'
  BY <1>1 DEF Settled, Handled, Stored
<1>2. ASSUME NEW p \in Passes,
             \A q \in Passes \ {p} : pass'[q] = pass[q],
             UNCHANGED <<deliveries, attribution, cycle>>,
             \A a \in Alerts :
                pass'[p].write[a].status = "SENT" /\ a \notin pass'[p].queue /\ Owed(a)
                    => a \in pass'[p].counted
      PROVE  Settled'
  <2>1. \A a \in Alerts : Owed(a)' <=> Owed(a)
    BY <1>2 DEF Owed
  <2>2. Stored'
    BY <1>2, <2>1 DEF Settled, Stored
  <2>3. ASSUME NEW q \in Passes, NEW a \in Alerts,
               pass'[q].write[a].status = "SENT", a \notin pass'[q].queue, Owed(a)'
        PROVE  a \in pass'[q].counted
    <3>1. CASE q = p
      BY <1>2, <2>1, <2>3, <3>1
    <3>2. CASE q # p
      BY <1>2, <2>1, <2>3, <3>2 DEF Settled, Handled
    <3> QED BY <3>1, <3>2
  <2> QED BY <2>2, <2>3 DEF Settled, Handled
<1>3. CASE Raise
  <2>1. raised + 1 > raised
    BY ConstantsAssumption DEF Base, TypeOK
  <2>2. pass' = pass /\ cycle' = cycle
    BY <1>3 DEF Raise
  <2>3. \A a \in Alerts \ {raised + 1} : attribution'[a] = attribution[a]
    BY <1>3 DEF Raise, Base, TypeOK
  <2>4. ASSUME NEW a \in Alerts, a = raised + 1
        PROVE  /\ \A p \in Passes : pass[p].write[a].status # "SENT"
               /\ \A ch \in Chosen : deliveries'[<<a, ch>>].status # "SENT"
    <3>1. \A p \in Passes : pass[p].read[a] = NoRow
      BY <2>1, <2>4 DEF Fresh
    <3>2. \A p \in Passes : pass[p].write[a] = NoRow
      BY <3>1 DEF Base, PassesOK, PassOK
    <3>3. \A ch \in Chosen : deliveries[<<a, ch>>] = NoRow
      BY <2>1, <2>4 DEF Fresh
    <3>4. \A ch \in Chosen : \/ deliveries'[<<a, ch>>] = deliveries[<<a, ch>>]
                             \/ deliveries'[<<a, ch>>].status = "PENDING"
      BY <1>3 DEF Raise, Rows, NoRow
    <3> QED BY <1>0, <3>2, <3>3, <3>4
  <2>5. ASSUME NEW a \in Alerts, a # raised + 1
        PROVE  \A ch \in Chosen : deliveries'[<<a, ch>>] = deliveries[<<a, ch>>]
    BY <1>3, <2>5 DEF Raise, Rows
  <2>6. \A a \in Alerts \ {raised + 1} : Owed(a)' <=> Owed(a)
    BY <2>2, <2>3 DEF Owed
  <2> QED BY <2>2, <2>4, <2>5, <2>6 DEF Settled, Handled, Stored
<1>4. CASE ChangeLink \/ EndCycle \/ CloseCycle \/ RepairRead \/ RepairWrite
  <2>1. UNCHANGED <<deliveries, pass, attribution>>
        /\ (cycle'.status = "expired" \/ cycle'.status = cycle.status)
    BY <1>4 DEF ChangeLink, EndCycle, CloseCycle, RepairRead, RepairWrite, Base, TypeOK
  <2> QED BY <1>1, <2>1 DEF Owed
<1>5. ASSUME NEW r \in Rows, BackoffElapses(r) PROVE Settled'
  BY <1>1, <1>5 DEF BackoffElapses, Owed
<1>6. ASSUME NEW p \in Passes, Begin(p) PROVE Settled'
  <2>1. /\ \A q \in Passes \ {p} : pass'[q] = pass[q]
        /\ \A a \in Alerts : pass'[p].write[a].status # "SENT"
    <3>1. /\ pass' = [pass EXCEPT ![p] = pass'[p]]
          /\ pass'[p].write = pass'[p].read
          /\ \A a \in pass'[p].queue : Ready(pass'[p].read[a])
          /\ \A a \in Alerts \ pass'[p].queue : pass'[p].read[a] = NoRow
      BY <1>6, BeginEffect
    <3>2. \A q \in Passes \ {p} : pass'[q] = pass[q]
      BY <3>1 DEF Base, TypeOK
    <3> QED BY <1>0, <3>1, <3>2 DEF Ready, Retriable
  <2> QED BY <1>2, <1>6, <2>1 DEF Begin
<1>7. ASSUME NEW p \in Passes, Crash(p) \/ Deadlocked(p) PROVE Settled'
  <2>1. pass' = [pass EXCEPT ![p] = Idle]
        /\ UNCHANGED <<deliveries, attribution, cycle>>
    BY <1>7 DEF Crash, Deadlocked
  <2>2. pass'[p] = Idle /\ \A q \in Passes \ {p} : pass'[q] = pass[q]
    BY <2>1 DEF Base, TypeOK
  <2> QED BY <1>0, <1>2, <2>1, <2>2
<1>8. ASSUME NEW p \in Passes, PassStep(p) PROVE Settled'
  <2>1. CASE ~Commit(p) /\ ~Flush(p) /\ ~Count(p)
    <3>1. /\ UNCHANGED <<deliveries, attribution, cycle>>
          /\ \A q \in Passes \ {p} : pass'[q] = pass[q]
          /\ \/ pass'[p] = Idle
             \/ /\ pass[p].queue # {} /\ pass'[p].queue = pass[p].queue
                /\ pass'[p].counted = pass[p].counted
                /\ \A a \in Alerts \ {Head(p)} : pass'[p].write[a] = pass[p].write[a]
      BY <1>8, <2>1, MarkEffect DEF PassStep
    <3>2. CASE pass'[p] = Idle
      BY <1>0, <1>2, <3>1, <3>2
    <3>3. CASE pass'[p] # Idle
      <4>1. Head(p) \in pass'[p].queue
        BY <3>1, <3>3, HeadInQueue DEF Base
      <4> QED BY <1>2, <3>1, <3>3, <4>1 DEF Settled, Handled
    <3> QED BY <3>2, <3>3
  <2>2. CASE Flush(p)
    <3> DEFINE h == Head(p)
               counting == pass[p].write[h].status = "SENT" /\ Qualifies(h)
    <3>1. /\ pass[p].queue # {}
          /\ pass'[p].queue = IF counting THEN pass[p].queue ELSE pass[p].queue \ {h}
          /\ pass'[p].write = pass[p].write /\ pass'[p].counted = pass[p].counted
          /\ \A q \in Passes \ {p} : pass'[q] = pass[q]
      BY <2>2, FlushEffect
    <3>2. UNCHANGED <<deliveries, attribution, cycle>>
      BY <2>2 DEF Flush
    <3>3. pass[p].write[h].status = "SENT" /\ ~counting => ~Owed(h)
      BY DEF Qualifies, InCycle, Owed, Base, TypeOK
    <3> HIDE DEF counting, h
    <3>4. ASSUME NEW a \in Alerts, pass'[p].write[a].status = "SENT",
                 a \notin pass'[p].queue, Owed(a)
          PROVE  a \in pass'[p].counted
      <4>1. CASE a \notin pass[p].queue
        BY <3>1, <3>4, <4>1 DEF Settled, Handled
      <4>2. CASE a \in pass[p].queue
        BY <3>1, <3>3, <3>4, <4>2
      <4> QED BY <4>1, <4>2
    <3> QED BY <1>2, <3>1, <3>2, <3>4
  <2>3. CASE Count(p)
    <3>1. /\ pass'[p].queue = pass[p].queue \ {Head(p)}
          /\ pass'[p].write = pass[p].write
          /\ pass'[p].counted = pass[p].counted \cup {Head(p)}
          /\ \A q \in Passes \ {p} : pass'[q] = pass[q]
      BY <2>3, CountEffect
    <3>2. UNCHANGED <<deliveries, attribution, cycle>>
      BY <2>3 DEF Count
    <3> QED BY <1>2, <3>1, <3>2 DEF Settled, Handled
  <2>4. CASE Commit(p)
    <3>1. /\ pass[p].queue = {} /\ pass' = [pass EXCEPT ![p] = Idle]
          /\ cycle'.status = cycle.status
      BY <2>4 DEF Commit, Base, TypeOK
    <3>2. \A a \in Alerts : Owed(a)' => Owed(a) /\ a \notin pass[p].counted
      BY <2>4, <3>1 DEF Commit, Owed
    <3>3. ASSUME NEW a \in Alerts, NEW ch \in Chosen,
                 deliveries'[<<a, ch>>].status = "SENT"
          PROVE  ~Owed(a)'
      <4>1. CASE deliveries[<<a, ch>>].status = "SENT"
        BY <3>2, <4>1 DEF Settled, Stored
      <4>2. CASE deliveries[<<a, ch>>].status # "SENT"
        <5>1. /\ <<a, ch>> \in Rows /\ ch = ChannelOf[p] /\ a \in Dirty(p)
              /\ deliveries'[<<a, ch>>] = Written(p, a)
          BY <2>4, <3>3, <4>2 DEF Commit, Rows
        <5>2. pass[p].write[a] # pass[p].read[a]
          BY <5>1 DEF Dirty
        <5>3. pass[p].write[a].status = "SENT"
          BY <3>3, <4>2, <5>1, <5>2, WrittenOK
        <5> QED BY <3>1, <3>2, <5>3 DEF Settled, Handled
      <4> QED BY <4>1, <4>2
    <3>4. Handled'
      <4>1. pass'[p] = Idle /\ \A q \in Passes \ {p} : pass'[q] = pass[q]
        BY <3>1 DEF Base, TypeOK
      <4> QED BY <1>0, <3>2, <4>1 DEF Settled, Handled
    <3> QED BY <3>3, <3>4 DEF Settled, Stored
  <2> QED BY <2>1, <2>2, <2>3, <2>4
<1>9. CASE UNCHANGED vars
  BY <1>1, <1>9 DEF vars, Owed
<1> QED BY <1>3, <1>4, <1>5, <1>6, <1>7, <1>8, <1>9 DEF Next

(* An alert that some row calls sent is counted against the cycle, unless the *)
(* cycle was closed first: reconcile_alert_deliveries finds nothing to do.    *)
THEOREM SentIsCountedCorrect == Spec => []SentIsCounted
<1>1. Init => Base /\ Fresh /\ Settled
  BY InitBase, InitFresh, InitSettled
<1>2. Base /\ Fresh /\ Settled /\ [Next]_vars => (Base /\ Fresh /\ Settled)'
  BY NextBase, NextFresh, NextSettled
<1>3. Settled => SentIsCounted
  BY DEF Settled, Stored, Owed, SentIsCounted
<1> QED BY <1>1, <1>2, <1>3, PTL DEF Spec
=============================================================================
