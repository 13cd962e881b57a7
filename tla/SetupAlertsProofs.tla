------------------------- MODULE SetupAlertsProofs -------------------------
(***************************************************************************)
(* Theorems about SetupAlerts, for every number of monitors, symbols,       *)
(* candles and evaluators, every limit and every expiry time.               *)
(***************************************************************************)
EXTENDS SetupAlerts, FiniteSetTheorems, SequenceTheorems, WellFoundedInduction,
        TLAPS

----------------------------------------------------------------------------
(* Paths through the transition table                                        *)

Move == [from : States \cup {"none"}, to : States]
Steps(h) == {h[n].to : n \in 1 .. Len(h)}

(* The events h lead from one state to another by transitions of the table.  *)
Leads(h, from, to) ==
    /\ h \in Seq(Move)
    /\ h = <<>> => from = to
    /\ h # <<>> => h[1].from = from /\ h[Len(h)].to = to
    /\ \A n \in 2 .. Len(h) : h[n].from = h[n - 1].to
    /\ \A n \in 1 .. Len(h) :
          h[n].from = "none" \/ h[n].to \in AllowedFrom[h[n].from]

LEMMA TableIsClosed ==
    ASSUME NEW s \in States
    PROVE  AllowedFrom[s] \subseteq States
BY DEF States, AllowedFrom

(* Every transition_setup adds an event to the path.                         *)
LEMMA LeadsAppend ==
    ASSUME NEW h, NEW from, NEW s \in States, NEW to \in States,
           Leads(h, from, s), MayMove(s, to)
    PROVE  /\ Leads(Append(h, [from |-> s, to |-> to]), from, to)
           /\ Steps(Append(h, [from |-> s, to |-> to])) = Steps(h) \cup {to}
<1> DEFINE m == [from |-> s, to |-> to]
           g == Append(h, m)
<1>1. m \in Move /\ m.from = s /\ m.to = to
  BY DEF Move
<1> HIDE DEF m
<1>2. h \in Seq(Move) /\ Len(h) \in Nat
  BY DEF Leads
<1>3. /\ g \in Seq(Move) /\ Len(g) = Len(h) + 1 /\ g[Len(h) + 1] = m
      /\ \A n \in 1 .. Len(h) : g[n] = h[n]
  BY <1>1, <1>2
<1> HIDE DEF g
<1>4. g # <<>>
  BY <1>2, <1>3
<1>5. g[1].from = from
  <2>1. CASE h = <<>>
    BY <2>1, <1>1, <1>3 DEF Leads
  <2>2. CASE h # <<>>
    <3>1. 1 \in 1 .. Len(h)
      BY <2>2, <1>2
    <3> QED BY <3>1, <2>2, <1>3 DEF Leads
  <2> QED BY <2>1, <2>2
<1>6. g[Len(g)].to = to
  BY <1>1, <1>3
<1>7. ASSUME NEW n \in 2 .. Len(g) PROVE g[n].from = g[n - 1].to
  <2>1. CASE n = Len(h) + 1
    <3>1. h # <<>> /\ Len(h) \in 1 .. Len(h)
      BY <2>1, <1>2
    <3> QED BY <3>1, <2>1, <1>1, <1>2, <1>3 DEF Leads
  <2>2. CASE n \in 2 .. Len(h)
    BY <2>2, <1>2, <1>3 DEF Leads
  <2> QED BY <2>1, <2>2, <1>2, <1>3
<1>8. ASSUME NEW n \in 1 .. Len(g)
      PROVE  g[n].from = "none" \/ g[n].to \in AllowedFrom[g[n].from]
  <2>1. CASE n = Len(h) + 1
    BY <2>1, <1>1, <1>3 DEF MayMove
  <2>2. CASE n \in 1 .. Len(h)
    BY <2>2, <1>3 DEF Leads
  <2> QED BY <2>1, <2>2, <1>2, <1>3
<1>9. Steps(g) = Steps(h) \cup {to}
  <2>1. 1 .. Len(g) = (1 .. Len(h)) \cup {Len(h) + 1}
    BY <1>2, <1>3
  <2> QED BY <2>1, <1>1, <1>3 DEF Steps
<1> QED BY <1>3, <1>4, <1>5, <1>6, <1>7, <1>8, <1>9 DEF Leads, g, m

(* Writing the pending events of a row continues its history.                *)
LEMMA LeadsConcat ==
    ASSUME NEW h, NEW m, NEW a, NEW b, NEW c, Leads(h, a, b), Leads(m, b, c)
    PROVE  Leads(h \o m, a, c) /\ Steps(h \o m) = Steps(h) \cup Steps(m)
<1> DEFINE g == h \o m
<1>1. h \in Seq(Move) /\ m \in Seq(Move) /\ Len(h) \in Nat /\ Len(m) \in Nat
  BY DEF Leads
<1>2. /\ g \in Seq(Move) /\ Len(g) = Len(h) + Len(m)
      /\ \A n \in 1 .. Len(h) : g[n] = h[n]
      /\ \A n \in 1 .. Len(m) : g[Len(h) + n] = m[n]
  <2>1. \A n \in 1 .. Len(h) + Len(m) : g[n] = IF n <= Len(h) THEN h[n] ELSE m[n - Len(h)]
    BY <1>1, ConcatProperties
  <2>2. g \in Seq(Move) /\ Len(g) = Len(h) + Len(m)
    BY <1>1, ConcatProperties
  <2> HIDE DEF g
  <2>3. ASSUME NEW n \in 1 .. Len(m) PROVE g[Len(h) + n] = m[n]
    <3>1. Len(h) + n \in 1 .. Len(h) + Len(m) /\ ~ (Len(h) + n <= Len(h)) /\ Len(h) + n - Len(h) = n
      BY <1>1
    <3> QED BY <3>1, <2>1
  <2> QED BY <1>1, <2>1, <2>2, <2>3
<1> HIDE DEF g
<1>3. CASE m = <<>>
  <2>1. g = h /\ Steps(m) = {}
    BY <1>1, <1>3, ConcatEmptySeq DEF g, Steps
  <2> QED BY <2>1, <1>3 DEF Leads, g
<1>4. CASE h = <<>>
  <2>1. g = m /\ Steps(h) = {}
    BY <1>1, <1>4, ConcatEmptySeq DEF g, Steps
  <2> QED BY <2>1, <1>4 DEF Leads, g
<1>5. CASE h # <<>> /\ m # <<>>
  <2>1. Len(h) \in 1 .. Len(h) /\ 1 \in 1 .. Len(h) /\ 1 \in 1 .. Len(m) /\ Len(m) \in 1 .. Len(m)
    BY <1>1, <1>5
  <2>2. g # <<>> /\ g[1].from = a /\ g[Len(g)].to = c
    <3>1. g[1] = h[1] /\ g[Len(g)] = m[Len(m)]
      BY <2>1, <1>2
    <3>2. Len(g) # 0
      BY <2>1, <1>1, <1>2
    <3>3. g # <<>>
      BY <3>2
    <3> QED BY <3>1, <3>3, <1>5 DEF Leads
  <2>3. ASSUME NEW n \in 2 .. Len(g) PROVE g[n].from = g[n - 1].to
    <3>1. CASE n \in 2 .. Len(h)
      BY <3>1, <1>1, <1>2 DEF Leads
    <3>2. CASE n = Len(h) + 1
      BY <3>2, <2>1, <1>1, <1>2, <1>5 DEF Leads
    <3>3. CASE n \in Len(h) + 2 .. Len(g)
      <4> DEFINE k == n - Len(h)
      <4>1. k \in 2 .. Len(m) /\ k - 1 \in 1 .. Len(m) /\ n = Len(h) + k /\ n - 1 = Len(h) + (k - 1)
        BY <3>3, <1>1, <1>2
      <4> HIDE DEF k
      <4>2. k \in 1 .. Len(m)
        BY <4>1, <1>1
      <4>3. g[n] = m[k] /\ g[n - 1] = m[k - 1]
        BY <4>1, <4>2, <1>2
      <4> QED BY <4>1, <4>3 DEF Leads
    <3>4. n \in 2 .. Len(h) \/ n = Len(h) + 1 \/ n \in Len(h) + 2 .. Len(g)
      BY <1>1, <1>2
    <3> QED BY <3>1, <3>2, <3>3, <3>4
  <2>4. ASSUME NEW n \in 1 .. Len(g)
        PROVE  g[n].from = "none" \/ g[n].to \in AllowedFrom[g[n].from]
    <3>1. CASE n \in 1 .. Len(h)
      BY <3>1, <1>2 DEF Leads
    <3>2. CASE n \in Len(h) + 1 .. Len(g)
      <4> DEFINE k == n - Len(h)
      <4>1. k \in 1 .. Len(m) /\ n = Len(h) + k
        BY <3>2, <1>1, <1>2
      <4> HIDE DEF k
      <4> QED BY <4>1, <1>2 DEF Leads
    <3> QED BY <3>1, <3>2, <1>1, <1>2
  <2>5. Steps(g) = Steps(h) \cup Steps(m)
    <3>1. ASSUME NEW n \in 1 .. Len(g) PROVE g[n].to \in Steps(h) \cup Steps(m)
      <4>1. CASE n \in 1 .. Len(h)
        BY <4>1, <1>2 DEF Steps
      <4>2. CASE n \in Len(h) + 1 .. Len(g)
        <5>1. n - Len(h) \in 1 .. Len(m) /\ n = Len(h) + (n - Len(h))
          BY <4>2, <1>1, <1>2
        <5> QED BY <5>1, <1>2 DEF Steps
      <4> QED BY <4>1, <4>2, <1>1, <1>2
    <3>2. Steps(h) \subseteq Steps(g)
      <4>1. 1 .. Len(h) \subseteq 1 .. Len(g)
        BY <1>1, <1>2
      <4> QED BY <4>1, <1>2 DEF Steps
    <3>3. ASSUME NEW n \in 1 .. Len(m) PROVE m[n].to \in Steps(g)
      <4>1. Len(h) + n \in 1 .. Len(g)
        BY <1>1, <1>2
      <4> QED BY <4>1, <1>2 DEF Steps
    <3> QED BY <3>1, <3>2, <3>3 DEF Steps
  <2> QED BY <2>2, <2>3, <2>4, <2>5, <1>2 DEF Leads, g
<1> QED BY <1>3, <1>4, <1>5

----------------------------------------------------------------------------
(* What an evaluation makes of the row it read                               *)

Reasons == {"none", "trial", "duplicate", "cooldown", "hourly", "daily", "weekly"}
MadeRow == [state : States, moves : Seq(Move), version : Nat \ {0}, expires : Nat,
            refusal : Reasons, refusedAt : Ticks]

LEMMA TicksAreNaturals ==
    /\ Candles \subseteq Nat /\ Ticks \subseteq Nat /\ 0 \in Ticks
    /\ \A c \in Candles : c + ExpireAfter \in Nat
    /\ WeekTicks \in Nat \ {0}
BY ConstantsAssumption DEF Candles, Ticks

LEMMA RowIsMade ==
    ASSUME NEW row \in Rows
    PROVE  row \in MadeRow /\ row.moves = <<>> /\ Steps(row.moves) = {}
<1>1. row.moves = <<>> /\ <<>> \in Seq(Move) /\ Len(<<>>) = 0
  BY EmptySeq DEF Rows
<1>2. row \in MadeRow
  BY <1>1 DEF Rows, MadeRow, Reasons
<1>3. Steps(<<>>) = {}
  BY <1>1 DEF Steps
<1> QED BY <1>1, <1>2, <1>3

LEMMA StoredIsRow ==
    ASSUME NEW row \in MadeRow
    PROVE  /\ Stored(row) \in Rows /\ Stored(row) # Absent
           /\ Stored(row).state = row.state /\ Stored(row).version = row.version
           /\ Stored(row).refusal = row.refusal /\ Stored(row).refusedAt = row.refusedAt
BY AbsentIsNoRow DEF MadeRow, Rows, Stored, Reasons

(* One transition_setup.                                                     *)
LEMMA MovedIsMade ==
    ASSUME NEW row \in MadeRow, NEW from, Leads(row.moves, from, row.state),
           NEW to \in States, MayMove(row.state, to)
    PROVE  /\ Moved(row, to) \in MadeRow
           /\ Leads(Moved(row, to).moves, from, to)
           /\ Steps(Moved(row, to).moves) = Steps(row.moves) \cup {to}
           /\ Moved(row, to).state = to
           /\ Moved(row, to).version = row.version
           /\ Moved(row, to).refusal = row.refusal
           /\ Moved(row, to).refusedAt = row.refusedAt
<1> DEFINE h == Append(row.moves, [from |-> row.state, to |-> to])
<1>1. row.state \in States /\ row.moves \in Seq(Move)
  BY DEF MadeRow
<1>2. Leads(h, from, to) /\ Steps(h) = Steps(row.moves) \cup {to}
  BY <1>1, LeadsAppend
<1>3. h \in Seq(Move)
  BY <1>2 DEF Leads
<1> HIDE DEF h
<1>4. Moved(row, to) = [row EXCEPT !.state = to, !.moves = h]
  BY DEF Moved, h, MadeRow
<1> QED BY <1>2, <1>3, <1>4 DEF MadeRow

(* The state an evaluator proposes is one an open setup can be in.           *)
LEMMA ProposalsAreStates ==
    ASSUME NEW o \in Outcomes
    PROVE  /\ Proposed[o] \in {"CONFIRMED", "NEAR_CONFIRMATION", "FORMING"}
           /\ Proposed[o] = "CONFIRMED" <=> o = "confirmed"
BY ConstantsAssumption DEF Proposed

(* Where the row that an evaluation flushes comes from.                      *)
Before(me) == IF me.seen = Absent THEN "none" ELSE me.seen.state

(* _upsert_setup refuses nothing and sends nothing; a confirmation finds the *)
(* setup confirmed, or answered before.                                      *)
LEMMA UpsertedIsMade ==
    ASSUME NEW me, me.candle \in Candles, me.outcome \in Outcomes,
           me.seen = Absent \/ me.seen \in Rows
    PROVE  LET row == Upserted(me) IN
           /\ row \in MadeRow
           /\ Leads(row.moves, Before(me), row.state)
           /\ Steps(row.moves) \subseteq {"CONFIRMED", "NEAR_CONFIRMATION", "FORMING"}
           /\ row.state \in Steps(row.moves) \/ (me.seen # Absent /\ row.state = me.seen.state)
           /\ row.state = "CONFIRMED" =>
                 me.outcome = "confirmed" \/ (me.seen # Absent /\ me.seen.state = "CONFIRMED")
           /\ me.outcome = "confirmed" => row.state \notin {"FORMING", "NEAR_CONFIRMATION"}
           /\ me.seen = Absent => row.refusal = "none" /\ row.version = 1
           /\ me.seen # Absent =>
                 /\ row.refusal = me.seen.refusal /\ row.refusedAt = me.seen.refusedAt
                 /\ row.version = me.seen.version + 1
<1> DEFINE to == Proposed[me.outcome]
           old == [me.seen EXCEPT !.version = @ + 1]
<1>1. /\ to \in {"CONFIRMED", "NEAR_CONFIRMATION", "FORMING"} /\ to \in States
      /\ to = "CONFIRMED" <=> me.outcome = "confirmed"
  BY ProposalsAreStates DEF States
<1>2. CASE me.seen = Absent
  <2> DEFINE m == [from |-> "none", to |-> to]
  <2>1. m \in Move /\ m.from = "none" /\ m.to = to
    BY <1>1 DEF Move
  <2>2. Upserted(me) = [state |-> to, moves |-> <<m>>, version |-> 1,
                        expires |-> me.candle + ExpireAfter, refusal |-> "none",
                        refusedAt |-> 0]
    BY <1>2 DEF Upserted, NewSetup
  <2> HIDE DEF m
  <2>3. <<m>> \in Seq(Move) /\ Len(<<m>>) = 1 /\ <<m>>[1] = m /\ <<m>> # <<>>
    BY <2>1
  <2>4. Leads(<<m>>, "none", to)
    BY <2>1, <2>3 DEF Leads
  <2>5. Steps(<<m>>) = {to}
    BY <2>1, <2>3 DEF Steps
  <2>6. me.candle + ExpireAfter \in Nat /\ 0 \in Ticks
    BY TicksAreNaturals
  <2>7. Upserted(me) \in MadeRow
    BY <2>2, <2>3, <2>6, <1>1 DEF MadeRow, Reasons
  <2> QED BY <2>2, <2>4, <2>5, <2>7, <1>1, <1>2 DEF Before
<1>3. CASE me.seen # Absent
  <2>1. me.seen \in Rows /\ me.seen \in MadeRow /\ Steps(me.seen.moves) = {} /\ me.seen.moves = <<>>
    BY <1>3, RowIsMade
  <2>2. /\ old \in MadeRow /\ old.state = me.seen.state /\ old.moves = <<>>
        /\ old.version = me.seen.version + 1 /\ old.refusal = me.seen.refusal
        /\ old.refusedAt = me.seen.refusedAt
    BY <2>1 DEF MadeRow
  <2>3. Upserted(me) = IF MayMove(old.state, to) THEN Moved(old, to) ELSE old
    BY <1>3 DEF Upserted
  <2> HIDE DEF old
  <2>4. Leads(old.moves, me.seen.state, old.state) /\ Steps(old.moves) = {}
    BY <2>1, <2>2 DEF Leads, Steps
  <2>5. old.state \in States
    BY <2>2 DEF MadeRow
  <2>6. CASE MayMove(old.state, to)
    <3> HIDE DEF to
    <3>1. /\ Moved(old, to) \in MadeRow /\ Leads(Moved(old, to).moves, me.seen.state, to)
          /\ Steps(Moved(old, to).moves) = {to} /\ Moved(old, to).state = to
          /\ Moved(old, to).version = old.version /\ Moved(old, to).refusal = old.refusal
          /\ Moved(old, to).refusedAt = old.refusedAt
      BY <2>2, <2>4, <2>6, <1>1, MovedIsMade
    <3> QED BY <3>1, <2>2, <2>3, <2>6, <1>1, <1>3 DEF Before
  <2>7. CASE ~ MayMove(old.state, to)
    <3>1. to = "CONFIRMED" => old.state \notin {"FORMING", "NEAR_CONFIRMATION"}
      BY <2>7 DEF MayMove, AllowedFrom
    <3> HIDE DEF to
    <3> QED BY <3>1, <2>2, <2>3, <2>4, <2>7, <1>1, <1>3 DEF Before
  <2> QED BY <2>6, <2>7
<1> QED BY <1>2, <1>3

----------------------------------------------------------------------------
(* The decision                                                              *)

LEMMA WeekIsNatural ==
    ASSUME NEW t \in Ticks
    PROVE  t \div WeekTicks \in Nat
<1>1. t \in Nat /\ WeekTicks \in Nat /\ WeekTicks > 0
  BY TicksAreNaturals
<1>2. \A i, j \in Nat : j > 0 => i \div j \in Nat
  OBVIOUS
<1> QED BY <1>1, <1>2

(* The period of the notice that explains a refusal.                         *)
PeriodAt(code, t) ==
    CASE code = "weekly" -> t \div WeekTicks
      [] code = "daily" -> t
      [] OTHER -> 0

LEMMA PeriodOfNow ==
    \A code : Period(code) = PeriodAt(code, now)
BY DEF Period, PeriodAt, Week

LEMMA PeriodIsNatural ==
    ASSUME NEW t \in Ticks, NEW code
    PROVE  PeriodAt(code, t) \in Nat
<1>1. t \div WeekTicks \in Nat /\ t \in Nat
  BY WeekIsNatural, TicksAreNaturals
<1> QED BY <1>1 DEF PeriodAt

EventsIn(rows) == {a \in rows : a.key.of = "event"}

(* One row in several: the rows of a transaction have different keys.        *)
Distinct(rows) == \A a, b \in rows : a.key = b.key => a = b

LEMMA RowIsAlert ==
    ASSUME NEW me, me.id \in SetupIds, now \in Ticks, NEW withheld \in BOOLEAN,
           NEW key \in [of : {"event", "capped", "trial", "daily", "weekly"},
                        monitor : Monitors \cup {Absent}, symbol : Symbols \cup {Absent},
                        type : Outcomes \cup {"notice"}, period : Nat]
    PROVE  /\ AlertRow(me, key, withheld) \in AlertRows
           /\ AlertRow(me, key, withheld).key = key
           /\ AlertRow(me, key, withheld).setup = me.id
           /\ AlertRow(me, key, withheld).monitor = me.id.monitor
           /\ AlertRow(me, key, withheld).at = now
           /\ AlertRow(me, key, withheld).withheld = withheld
<1>1. me.id.monitor \in Monitors
  BY DEF SetupIds
<1> QED BY <1>1 DEF AlertRow, AlertRows

(* A notice is about no event, and is there afterwards.                      *)
LEMMA NoticeIsGiven ==
    ASSUME NEW me, me.id \in SetupIds, now \in Ticks, NEW withheld \in BOOLEAN,
           NEW code \in {"trial", "daily", "weekly"}
    PROVE  /\ Notice(me, code, withheld) \subseteq AlertRows
           /\ Distinct(Notice(me, code, withheld))
           /\ NoticeKey(code, PeriodAt(code, now))
                 \in KeysIn(alerts) \cup KeysIn(Notice(me, code, withheld))
           /\ \A a \in Notice(me, code, withheld) :
                 /\ a.key.of = code /\ a.setup = me.id /\ a.monitor = me.id.monitor
                 /\ a.at = now
<1> DEFINE key == NoticeKey(code, PeriodAt(code, now))
           row == AlertRow(me, key, withheld)
<1>1. /\ key \in [of : {"event", "capped", "trial", "daily", "weekly"},
                  monitor : Monitors \cup {Absent}, symbol : Symbols \cup {Absent},
                  type : Outcomes \cup {"notice"}, period : Nat]
      /\ key.of = code
  <2>1. PeriodAt(code, now) \in Nat
    BY PeriodIsNatural
  <2> QED BY <2>1 DEF NoticeKey
<1>2. Notice(me, code, withheld) = IF key \in KeysIn(alerts) THEN {} ELSE {row}
  BY PeriodOfNow DEF Notice
<1> HIDE DEF key
<1>3. /\ row \in AlertRows /\ row.key = key /\ row.setup = me.id
      /\ row.monitor = me.id.monitor /\ row.at = now
  BY <1>1, RowIsAlert
<1> HIDE DEF row
<1>4. KeysIn({row}) = {key}
  BY <1>3 DEF KeysIn
<1> QED BY <1>1, <1>2, <1>3, <1>4 DEF Distinct, key

(* A refusal and an alert, as steps from the row that was flushed.           *)
LEMMA RefusedIsMade ==
    ASSUME NEW row \in MadeRow, NEW from, Leads(row.moves, from, row.state),
           NEW why \in Reasons \ {"none"}, now \in Ticks
    PROVE  LET new == Refused(row, why) IN
           /\ new \in MadeRow
           /\ Leads(new.moves, from, new.state)
           /\ new.state # "CONFIRMED"
           /\ new.version = row.version
           /\ \/ /\ row.state # "CONFIRMED" /\ new = row
              \/ /\ row.state = "CONFIRMED" /\ new.state = "SUPPRESSED"
                 /\ Steps(new.moves) = Steps(row.moves) \cup {"SUPPRESSED"}
                 /\ new.refusal = why /\ new.refusedAt = now
<1>1. CASE row.state # "CONFIRMED"
  BY <1>1 DEF Refused
<1>2. CASE row.state = "CONFIRMED"
  <2> DEFINE mid == Moved(row, "SUPPRESSED")
  <2>1. "SUPPRESSED" \in States /\ MayMove(row.state, "SUPPRESSED")
    BY <1>2 DEF States, MayMove, AllowedFrom
  <2>2. /\ mid \in MadeRow /\ Leads(mid.moves, from, "SUPPRESSED")
        /\ Steps(mid.moves) = Steps(row.moves) \cup {"SUPPRESSED"}
        /\ mid.state = "SUPPRESSED" /\ mid.version = row.version
    BY <2>1, MovedIsMade
  <2>3. Refused(row, why) = [mid EXCEPT !.refusal = why, !.refusedAt = now]
    BY <1>2 DEF Refused
  <2> HIDE DEF mid
  <2>4. /\ Refused(row, why) \in MadeRow /\ Refused(row, why).moves = mid.moves
        /\ Refused(row, why).state = "SUPPRESSED" /\ Refused(row, why).refusal = why
        /\ Refused(row, why).refusedAt = now /\ Refused(row, why).version = row.version
    BY <2>2, <2>3 DEF MadeRow
  <2> QED BY <2>2, <2>4, <1>2
<1> QED BY <1>1, <1>2

LEMMA AlertedIsMade ==
    ASSUME NEW row \in MadeRow, NEW from, Leads(row.moves, from, row.state)
    PROVE  LET new == Alerted(row) IN
           /\ new \in MadeRow
           /\ Leads(new.moves, from, new.state)
           /\ new.state \notin {"CONFIRMED", "SUPPRESSED"}
           /\ new.version = row.version
           /\ new.refusal = row.refusal /\ new.refusedAt = row.refusedAt
           /\ \/ /\ row.state \notin {"CONFIRMED", "SUPPRESSED"} /\ new = row
              \/ /\ row.state \in {"CONFIRMED", "SUPPRESSED"}
                 /\ Steps(new.moves) = Steps(row.moves) \cup {"ALERT_SENT"}
<1>1. CASE row.state \notin {"CONFIRMED", "SUPPRESSED"}
  BY <1>1 DEF Alerted
<1>2. CASE row.state \in {"CONFIRMED", "SUPPRESSED"}
  <2>1. "ALERT_SENT" \in States /\ MayMove(row.state, "ALERT_SENT")
    BY <1>2 DEF States, MayMove, AllowedFrom
  <2>2. Alerted(row) = Moved(row, "ALERT_SENT")
    BY <1>2 DEF Alerted
  <2> QED BY <1>2, <2>1, <2>2, MovedIsMade
<1> QED BY <1>1, <1>2

(* What _create_alert leaves, whichever branch it takes.                     *)
OldReason(me) == IF me.seen = Absent THEN "none" ELSE me.seen.refusal

PlanOK(me, row, new) ==
    /\ row \in MadeRow
    /\ Leads(row.moves, Before(me), row.state)
    /\ row.state # "CONFIRMED"
    /\ row.version = IF me.seen = Absent THEN 1 ELSE me.seen.version + 1
    /\ row.refusal # "none" <=> OldReason(me) # "none" \/ "SUPPRESSED" \in Steps(row.moves)
    /\ new \subseteq AlertRows /\ Distinct(new)
    /\ \A a \in new : a.setup = me.id /\ a.monitor = me.id.monitor /\ a.at = now
    /\ "ALERT_SENT" \in Steps(row.moves) => EventsIn(new) # {}
    /\ (\E a \in EventsIn(new) : a.key.type = "confirmed") =>
          "ALERT_SENT" \in Steps(row.moves) \/ Before(me) = "ALERT_SENT"
    /\ row.refusal \in {"weekly", "daily", "trial"} =>
          \/ /\ me.seen # Absent
             /\ row.refusal = me.seen.refusal /\ row.refusedAt = me.seen.refusedAt
          \/ NoticeKey(row.refusal, PeriodAt(row.refusal, row.refusedAt))
                \in KeysIn(alerts) \cup KeysIn(new)

(* What is known of the row an evaluation has read.                          *)
ReadWell(me) ==
    /\ me.symbol \in Symbols /\ me.candle \in Candles /\ me.outcome \in Outcomes
    /\ me.id \in SetupIds
    /\ me.seen = Absent \/ (me.seen \in Rows /\ me.seen.state \notin {"EXPIRED", "CONFIRMED"})

(* The key is a good one.                                                    *)
Keys == [of : {"event", "capped", "trial", "daily", "weekly"},
         monitor : Monitors \cup {Absent}, symbol : Symbols \cup {Absent},
         type : Outcomes \cup {"notice"}, period : Nat]

LEMMA KeysAreTyped ==
    ASSUME NEW me, ReadWell(me)
    PROVE  /\ EventKey(me) \in Keys /\ EventKey(me).of = "event"
           /\ EventKey(me).type = me.outcome
           /\ CappedKey(me) \in Keys /\ CappedKey(me).of = "capped"
<1>1. /\ me.id.monitor \in Monitors /\ me.id.candle \in Nat /\ me.candle \in Nat
      /\ me.symbol \in Symbols /\ me.outcome \in Outcomes
  BY TicksAreNaturals DEF ReadWell, SetupIds
<1> QED BY <1>1 DEF EventKey, CappedKey, Keys

(* A refusal leaves a row that says so, and an alert neither.                *)
LEMMA RefusalIsPlan ==
    ASSUME NEW me, ReadWell(me), now \in Ticks, NEW why \in Reasons \ {"none"},
           NEW new \in SUBSET AlertRows, Distinct(new), EventsIn(new) = {},
           \A a \in new : a.setup = me.id /\ a.monitor = me.id.monitor /\ a.at = now,
           why \in {"weekly", "daily", "trial"} =>
              NoticeKey(why, PeriodAt(why, now)) \in KeysIn(alerts) \cup KeysIn(new)
    PROVE  PlanOK(me, Refused(Upserted(me), why), new)
<1> DEFINE up == Upserted(me)
           row == Refused(up, why)
<1>1. /\ up \in MadeRow /\ Leads(up.moves, Before(me), up.state)
      /\ "SUPPRESSED" \notin Steps(up.moves) /\ "ALERT_SENT" \notin Steps(up.moves)
      /\ me.seen = Absent => up.refusal = "none" /\ up.version = 1
      /\ me.seen # Absent =>
            /\ up.refusal = me.seen.refusal /\ up.refusedAt = me.seen.refusedAt
            /\ up.version = me.seen.version + 1
  BY UpsertedIsMade DEF ReadWell
<1> HIDE DEF up
<1>2. /\ row \in MadeRow /\ Leads(row.moves, Before(me), row.state)
      /\ row.state # "CONFIRMED" /\ row.version = up.version
      /\ \/ /\ up.state # "CONFIRMED" /\ row = up
         \/ /\ up.state = "CONFIRMED" /\ row.state = "SUPPRESSED"
            /\ Steps(row.moves) = Steps(up.moves) \cup {"SUPPRESSED"}
            /\ row.refusal = why /\ row.refusedAt = now
  BY <1>1, RefusedIsMade
<1> HIDE DEF row
<1>3. "ALERT_SENT" \notin Steps(row.moves)
  BY <1>1, <1>2
<1>4. row.refusal # "none" <=> OldReason(me) # "none" \/ "SUPPRESSED" \in Steps(row.moves)
  BY <1>1, <1>2 DEF OldReason
<1>5. row.refusal \in {"weekly", "daily", "trial"} =>
          \/ /\ me.seen # Absent
             /\ row.refusal = me.seen.refusal /\ row.refusedAt = me.seen.refusedAt
          \/ NoticeKey(row.refusal, PeriodAt(row.refusal, row.refusedAt))
                \in KeysIn(alerts) \cup KeysIn(new)
  BY <1>1, <1>2
<1>6. row.version = IF me.seen = Absent THEN 1 ELSE me.seen.version + 1
  BY <1>1, <1>2
<1>7. PlanOK(me, row, new)
  BY <1>2, <1>3, <1>4, <1>5, <1>6 DEF PlanOK
<1> QED BY <1>7 DEF row, up

LEMMA AlertIsPlan ==
    ASSUME NEW me, ReadWell(me), now \in Ticks, NEW withheld \in BOOLEAN
    PROVE  PlanOK(me, Alerted(Upserted(me)), {AlertRow(me, EventKey(me), withheld)})
<1> DEFINE up == Upserted(me)
           row == Alerted(up)
           a == AlertRow(me, EventKey(me), withheld)
<1>1. /\ up \in MadeRow /\ Leads(up.moves, Before(me), up.state)
      /\ Steps(up.moves) \subseteq {"CONFIRMED", "NEAR_CONFIRMATION", "FORMING"}
      /\ up.state \in Steps(up.moves) \/ (me.seen # Absent /\ up.state = me.seen.state)
      /\ me.outcome = "confirmed" => up.state \notin {"FORMING", "NEAR_CONFIRMATION"}
      /\ me.seen = Absent => up.refusal = "none" /\ up.version = 1
      /\ me.seen # Absent =>
            /\ up.refusal = me.seen.refusal /\ up.refusedAt = me.seen.refusedAt
            /\ up.version = me.seen.version + 1
  BY UpsertedIsMade DEF ReadWell
<1> HIDE DEF up
<1>2. /\ row \in MadeRow /\ Leads(row.moves, Before(me), row.state)
      /\ row.state # "CONFIRMED" /\ row.version = up.version
      /\ row.refusal = up.refusal /\ row.refusedAt = up.refusedAt
      /\ \/ /\ up.state \notin {"CONFIRMED", "SUPPRESSED"} /\ row = up
         \/ /\ up.state \in {"CONFIRMED", "SUPPRESSED"}
            /\ Steps(row.moves) = Steps(up.moves) \cup {"ALERT_SENT"}
  BY <1>1, AlertedIsMade
<1> HIDE DEF row
<1>3. EventKey(me) \in Keys /\ EventKey(me).of = "event" /\ EventKey(me).type = me.outcome
  BY KeysAreTyped
<1>4. /\ a \in AlertRows /\ a.key = EventKey(me) /\ a.setup = me.id
      /\ a.monitor = me.id.monitor /\ a.at = now
  BY <1>3, RowIsAlert DEF Keys, ReadWell
<1> HIDE DEF a
<1>5. EventsIn({a}) = {a} /\ Distinct({a})
  BY <1>3, <1>4 DEF EventsIn, Distinct
<1>6. a.key.type = "confirmed" =>
         "ALERT_SENT" \in Steps(row.moves) \/ Before(me) = "ALERT_SENT"
  <2> SUFFICES ASSUME me.outcome = "confirmed",
                      up.state \notin {"CONFIRMED", "SUPPRESSED"}
               PROVE  Before(me) = "ALERT_SENT"
    BY <1>2, <1>3, <1>4
  <2>1. up.state \in States
    BY <1>1 DEF MadeRow
  <2>2. up.state \in {"ALERT_SENT", "EXPIRED"}
    BY <2>1, <1>1 DEF States
  <2>3. me.seen # Absent /\ up.state = me.seen.state
    BY <2>2, <1>1
  <2> QED BY <2>2, <2>3 DEF ReadWell, Before
<1>7. "SUPPRESSED" \notin Steps(row.moves)
  BY <1>1, <1>2
<1>8. row.refusal # "none" <=> OldReason(me) # "none" \/ "SUPPRESSED" \in Steps(row.moves)
  BY <1>1, <1>2, <1>7 DEF OldReason
<1>9. row.version = IF me.seen = Absent THEN 1 ELSE me.seen.version + 1
  BY <1>1, <1>2
<1>10. row.refusal \in {"weekly", "daily", "trial"} =>
          /\ me.seen # Absent
          /\ row.refusal = me.seen.refusal /\ row.refusedAt = me.seen.refusedAt
  BY <1>1, <1>2
<1>11. PlanOK(me, row, {a})
  BY <1>2, <1>4, <1>5, <1>6, <1>8, <1>9, <1>10 DEF PlanOK
<1> QED BY <1>11 DEF row, up, a

LEMMA DecidedIsMade ==
    ASSUME NEW me, ReadWell(me), now \in Ticks, NEW withheld \in BOOLEAN
    PROVE  PlanOK(me, Decided(me, withheld).row, Decided(me, withheld).new)
<1> DEFINE plan == Decided(me, withheld)
           why == Refusal(me)
<1>1. CASE me.outcome = "forming"
  <2> DEFINE up == Upserted(me)
  <2>1. /\ up \in MadeRow /\ Leads(up.moves, Before(me), up.state)
        /\ Steps(up.moves) \subseteq {"CONFIRMED", "NEAR_CONFIRMATION", "FORMING"}
        /\ up.state = "CONFIRMED" =>
              me.outcome = "confirmed" \/ (me.seen # Absent /\ me.seen.state = "CONFIRMED")
        /\ me.seen = Absent => up.refusal = "none" /\ up.version = 1
        /\ me.seen # Absent =>
              /\ up.refusal = me.seen.refusal /\ up.refusedAt = me.seen.refusedAt
              /\ up.version = me.seen.version + 1
    BY UpsertedIsMade DEF ReadWell
  <2>2. plan = [row |-> up, new |-> {}]
    BY <1>1 DEF Decided
  <2> HIDE DEF up
  <2>3. up.state # "CONFIRMED"
    BY <1>1, <2>1 DEF ReadWell
  <2>4. EventsIn({}) = {} /\ Distinct({}) /\ {} \subseteq AlertRows
    BY DEF EventsIn, Distinct
  <2>5. up.refusal # "none" <=> OldReason(me) # "none" \/ "SUPPRESSED" \in Steps(up.moves)
    BY <2>1 DEF OldReason
  <2>6. "ALERT_SENT" \notin Steps(up.moves)
    BY <2>1
  <2>7. up.refusal \in {"weekly", "daily", "trial"} =>
            /\ me.seen # Absent
            /\ up.refusal = me.seen.refusal /\ up.refusedAt = me.seen.refusedAt
    BY <2>1
  <2>8. up.version = IF me.seen = Absent THEN 1 ELSE me.seen.version + 1
    BY <2>1
  <2>9. PlanOK(me, up, {})
    BY <2>1, <2>3, <2>4, <2>5, <2>6, <2>7, <2>8 DEF PlanOK
  <2> QED BY <2>2, <2>9
<1>2. CASE me.outcome # "forming" /\ CapReached
  <2> DEFINE a == AlertRow(me, CappedKey(me), TRUE)
             notice == Notice(me, "trial", withheld)
             new == {a} \cup notice
  <2>1. plan = [row |-> Refused(Upserted(me), "trial"), new |-> new]
    BY <1>2 DEF Decided
  <2>2. CappedKey(me) \in Keys /\ CappedKey(me).of = "capped"
    BY KeysAreTyped
  <2>3. /\ a \in AlertRows /\ a.key = CappedKey(me) /\ a.setup = me.id
        /\ a.monitor = me.id.monitor /\ a.at = now
    <3>1. \A w \in BOOLEAN :
             LET r == AlertRow(me, CappedKey(me), w) IN
             /\ r \in AlertRows /\ r.key = CappedKey(me) /\ r.setup = me.id
             /\ r.monitor = me.id.monitor /\ r.at = now
      BY <2>2, RowIsAlert DEF Keys, ReadWell
    <3> QED BY <3>1, Zenon
  <2>4. /\ notice \subseteq AlertRows /\ Distinct(notice)
        /\ NoticeKey("trial", PeriodAt("trial", now)) \in KeysIn(alerts) \cup KeysIn(notice)
        /\ \A b \in notice : /\ b.key.of = "trial" /\ b.setup = me.id
                             /\ b.monitor = me.id.monitor /\ b.at = now
    BY NoticeIsGiven DEF ReadWell
  <2> HIDE DEF a, notice
  <2>5. KeysIn(notice) \subseteq KeysIn(new)
    BY DEF KeysIn
  <2>6. new \in SUBSET AlertRows /\ Distinct(new) /\ EventsIn(new) = {}
    BY <2>2, <2>3, <2>4 DEF Distinct, EventsIn
  <2>7. \A b \in new : b.setup = me.id /\ b.monitor = me.id.monitor /\ b.at = now
    BY <2>3, <2>4
  <2>8. NoticeKey("trial", PeriodAt("trial", now)) \in KeysIn(alerts) \cup KeysIn(new)
    BY <2>4, <2>5
  <2> HIDE DEF new
  <2>9. PlanOK(me, Refused(Upserted(me), "trial"), new)
    BY <2>6, <2>7, <2>8, RefusalIsPlan DEF Reasons
  <2> QED BY <2>1, <2>9
<1>3. CASE me.outcome # "forming" /\ ~ CapReached /\ why # "none"
  <2> DEFINE new == IF why \in {"daily", "weekly"} THEN Notice(me, why, withheld) ELSE {}
  <2>1. plan = [row |-> Refused(Upserted(me), why), new |-> new]
    BY <1>3 DEF Decided
  <2>2. why \in Reasons \ {"none", "trial"}
    BY <1>3 DEF Refusal, Reasons
  <2> HIDE DEF why
  <2>3. CASE why \in {"daily", "weekly"}
    <3>1. /\ new \subseteq AlertRows /\ Distinct(new)
          /\ NoticeKey(why, PeriodAt(why, now)) \in KeysIn(alerts) \cup KeysIn(new)
          /\ \A b \in new : /\ b.key.of = why /\ b.setup = me.id
                            /\ b.monitor = me.id.monitor /\ b.at = now
      BY <2>3, NoticeIsGiven DEF ReadWell
    <3> HIDE DEF new
    <3>2. EventsIn(new) = {}
      BY <3>1, <2>3 DEF EventsIn
    <3>3. PlanOK(me, Refused(Upserted(me), why), new)
      BY <2>2, <3>1, <3>2, RefusalIsPlan
    <3> QED BY <2>1, <3>3
  <2>4. CASE why \notin {"daily", "weekly"}
    <3>1. new = {} /\ Distinct({}) /\ EventsIn({}) = {} /\ {} \in SUBSET AlertRows
      BY <2>4 DEF Distinct, EventsIn
    <3>2. PlanOK(me, Refused(Upserted(me), why), {})
      BY <2>2, <2>4, <3>1, RefusalIsPlan
    <3> QED BY <2>1, <3>1, <3>2
  <2> QED BY <2>3, <2>4
<1>4. CASE me.outcome # "forming" /\ ~ CapReached /\ why = "none"
  <2>1. plan = [row |-> Alerted(Upserted(me)), new |-> {AlertRow(me, EventKey(me), withheld)}]
    BY <1>4 DEF Decided
  <2> QED BY <2>1, AlertIsPlan
<1> QED BY <1>1, <1>2, <1>3, <1>4

----------------------------------------------------------------------------
(* The invariant                                                             *)

StateOf(i) == IF setups[i] = Absent THEN "none" ELSE setups[i].state
ReasonOf(i) == IF setups[i] = Absent THEN "none" ELSE setups[i].refusal

(* The notice of a refusal is among some keys.                               *)
Explained(row, keys) ==
    row.refusal \in {"weekly", "daily", "trial"} =>
        NoticeKey(row.refusal, PeriodAt(row.refusal, row.refusedAt)) \in keys

(* A row read is the row there is, or an earlier version of it.              *)
Older(seen, row) ==
    /\ row # Absent
    /\ seen.version <= row.version
    /\ seen.version = row.version => seen = row

ReadOK(e) ==
    tx[e].pc = "read" =>
        /\ ReadWell(tx[e])
        /\ tx[e].seen # Absent => Older(tx[e].seen, setups[tx[e].id])

(* A decision continues the row as it is stored: its writer holds the lock.  *)
Continues(me, i) ==
    /\ me.row \in MadeRow
    /\ Leads(me.row.moves, StateOf(i), me.row.state)
    /\ me.row.state # "CONFIRMED"
    /\ setups[i] # Absent => setups[i].state # "EXPIRED" /\ setups[i].version < me.row.version
    /\ me.row.refusal # "none" <=> ReasonOf(i) # "none" \/ "SUPPRESSED" \in Steps(me.row.moves)

Announces(me, i) ==
    /\ me.new \subseteq AlertRows /\ Distinct(me.new)
    /\ \A a \in me.new : a.setup = i /\ a.monitor = i.monitor
    /\ "ALERT_SENT" \in Steps(me.row.moves) => EventsIn(me.new) # {}
    /\ (\E a \in EventsIn(me.new) : a.key.type = "confirmed") =>
          "ALERT_SENT" \in Steps(me.row.moves) \/ StateOf(i) = "ALERT_SENT"

DecidedOK(e) ==
    tx[e].pc = "decided" =>
        /\ tx[e].symbol \in Symbols /\ tx[e].candle \in Candles /\ tx[e].id \in SetupIds
        /\ Continues(tx[e], tx[e].id)
        /\ Announces(tx[e], tx[e].id)
        /\ Explained(tx[e].row, KeysIn(alerts) \cup KeysIn(tx[e].new))

OneHolder ==
    \A e, f \in Evaluators :
        (tx[e].pc = "decided" /\ tx[f].pc = "decided" /\ tx[e].id = tx[f].id) => e = f

SweepOK ==
    sweep # Absent =>
        \A i \in DOMAIN sweep :
            i \in SetupIds /\ sweep[i] \in Rows /\ Older(sweep[i], setups[i])

(* A stored setup agrees with its history and with the alerts about it.      *)
Agrees(i) ==
    /\ Leads(history[i], "none", setups[i].state)
    /\ setups[i].state # "CONFIRMED"
    /\ setups[i].refusal # "none" <=> "SUPPRESSED" \in Steps(history[i])
    /\ "ALERT_SENT" \in Steps(history[i]) => AlertsOf(i) # {}
    /\ (\E a \in AlertsOf(i) : a.key.type = "confirmed") =>
          "ALERT_SENT" \in Steps(history[i])
    /\ Explained(setups[i], KeysIn(alerts))

RowOK(i) ==
    /\ setups[i] = Absent => history[i] = <<>> /\ AlertsOf(i) = {}
    /\ setups[i] # Absent => Agrees(i)

TxShape == tx = [e \in Evaluators |-> tx[e]]

Inv ==
    /\ TypeOK
    /\ TxShape
    /\ \A e \in Evaluators : ReadOK(e) /\ DecidedOK(e)
    /\ OneHolder
    /\ SweepOK
    /\ \A i \in SetupIds : RowOK(i)

LEMMA SetupsTyped ==
    ASSUME TypeOK, NEW i \in SetupIds
    PROVE  /\ setups[i] = Absent \/ setups[i] \in Rows
           /\ history[i] \in Seq(Move)
           /\ setups[i] # Absent => setups[i].version \in Nat /\ setups[i].state \in States
BY DEF TypeOK, Move, Rows

LEMMA InitialState ==
    Init => Inv
<1> SUFFICES ASSUME Init PROVE Inv
  OBVIOUS
<1>1. TypeOK
  <2>1. now \in Ticks /\ delivered \in 0 .. TrialCap
    BY ConstantsAssumption DEF Init, Ticks
  <2>2. history \in [SetupIds -> Seq([from : States \cup {"none"}, to : States])]
    BY EmptySeq DEF Init
  <2>3. setups \in [SetupIds -> Rows \cup {Absent}]
    BY DEF Init
  <2> QED BY <2>1, <2>2, <2>3 DEF Init, TypeOK, Idle
<1>2. TxShape /\ \A e \in Evaluators : tx[e].pc = "idle"
  BY DEF Init, TxShape, Idle
<1>3. \A i \in SetupIds : RowOK(i)
  BY DEF Init, RowOK, AlertsOf, EventAlerts
<1>4. SweepOK
  BY DEF Init, SweepOK
<1> QED BY <1>1, <1>2, <1>3, <1>4 DEF Inv, ReadOK, DecidedOK, OneHolder

----------------------------------------------------------------------------
(* Steps that write no setup and no alert                                    *)

LEMMA QuietStep ==
    ASSUME Inv, TypeOK', TxShape', UNCHANGED <<setups, history, alerts>>,
           \A e \in Evaluators : tx'[e] = tx[e] \/ tx'[e] = Idle,
           SweepOK'
    PROVE  Inv'
<1>1. \A e \in Evaluators : ReadOK(e)' /\ DecidedOK(e)'
  <2> SUFFICES ASSUME NEW e \in Evaluators PROVE ReadOK(e)' /\ DecidedOK(e)'
    OBVIOUS
  <2>1. CASE tx'[e] = tx[e]
    <3>1. ReadOK(e) /\ DecidedOK(e)
      BY DEF Inv
    <3>2. ReadOK(e)'
      BY <3>1, <2>1 DEF ReadOK, ReadWell, Older
    <3>3. DecidedOK(e)'
      BY <3>1, <2>1 DEF DecidedOK, Continues, Announces, StateOf, ReasonOf
    <3> QED BY <3>2, <3>3
  <2>2. CASE tx'[e] = Idle
    BY <2>2 DEF Idle, ReadOK, DecidedOK
  <2> QED BY <2>1, <2>2
<1>2. OneHolder'
  BY DEF Inv, OneHolder, Idle
<1>3. \A i \in SetupIds : RowOK(i)'
  BY DEF Inv, RowOK, Agrees, AlertsOf, EventAlerts
<1> QED BY <1>1, <1>2, <1>3 DEF Inv

LEMMA SweepStays ==
    ASSUME SweepOK, UNCHANGED <<setups, sweep>>
    PROVE  SweepOK'
BY DEF SweepOK, Older

(* An evaluation that ends with nothing written.                             *)
LEMMA DropStep ==
    ASSUME Inv, NEW e \in Evaluators, tx' = [tx EXCEPT ![e] = Idle],
           failures' \subseteq Errors,
           UNCHANGED <<now, setups, history, alerts, results, sweep, delivered, subscribed>>
    PROVE  Inv'
<1>1. TxShape' /\ \A f \in Evaluators : tx'[f] = tx[f] \/ tx'[f] = Idle
  BY DEF Inv, TxShape
<1>2. TypeOK'
  <2>1. \A f \in Evaluators : tx'[f].pc \in {"idle", "read", "decided"}
    BY <1>1 DEF Inv, TypeOK, Idle
  <2> QED BY <2>1 DEF Inv, TypeOK
<1>3. SweepOK'
  BY SweepStays DEF Inv
<1> QED BY <1>1, <1>2, <1>3, QuietStep

LEMMA EnvironmentSteps ==
    ASSUME Inv, Tick \/ Deliver \/ Subscribe
    PROVE  Inv'
<1>1. UNCHANGED <<setups, history, alerts, results, failures, tx, sweep>>
  BY DEF Tick, Deliver, Subscribe
<1>2. TypeOK'
  <2>1. CASE Tick
    <3>1. now' \in Ticks
      BY <2>1, ConstantsAssumption DEF Tick, Inv, TypeOK, Ticks
    <3> QED BY <3>1, <2>1 DEF Tick, Inv, TypeOK
  <2>2. CASE Deliver
    <3>1. delivered' \in 0 .. TrialCap
      BY <2>2, ConstantsAssumption DEF Deliver, Inv, TypeOK
    <3> QED BY <3>1, <2>2 DEF Deliver, Inv, TypeOK
  <2>3. CASE Subscribe
    BY <2>3 DEF Subscribe, Inv, TypeOK
  <2> QED BY <2>1, <2>2, <2>3
<1>3. TxShape' /\ SweepOK'
  BY <1>1, SweepStays DEF Inv, TxShape
<1> QED BY <1>1, <1>2, <1>3, QuietStep

LEMMA SelectDueStep ==
    ASSUME Inv, SelectDue
    PROVE  Inv'
<1>1. UNCHANGED <<now, setups, history, alerts, results, failures, tx, delivered, subscribed>>
  BY DEF SelectDue
<1>2. \A i \in Due : i \in SetupIds /\ setups[i] \in Rows
  BY DEF Due, IsOpen, Inv, TypeOK
<1>3. DOMAIN sweep' = Due /\ \A i \in Due : sweep'[i] = setups[i]
  BY DEF SelectDue
<1>4. SweepOK'
  <2>1. \A i \in Due : setups[i] # Absent /\ setups[i].version <= setups[i].version
    BY <1>2, AbsentIsNoRow DEF Rows
  <2> QED BY <1>1, <1>2, <1>3, <2>1 DEF SweepOK, Older
<1>5. TypeOK'
  BY <1>1, <1>2, <1>3 DEF Inv, TypeOK
<1>6. TxShape'
  BY <1>1 DEF Inv, TxShape
<1> QED BY <1>1, <1>4, <1>5, <1>6, QuietStep

----------------------------------------------------------------------------
(* The steps of an evaluation                                                *)

(* Of some setups one is the newest.                                         *)
LEMMA NewestExists ==
    ASSUME NEW S \in SUBSET SetupIds, S # {}
    PROVE  Newest(S) \in S
<1> DEFINE Ages == {LastCandle - i.candle : i \in S}
           Less == OpToRel(<, Nat)
<1>1. \A i \in S : i.candle \in Nat /\ LastCandle - i.candle \in Nat
  BY ConstantsAssumption DEF SetupIds, Candles
<1>2. Ages \in SUBSET Nat /\ Ages # {}
  BY <1>1
<1> HIDE DEF Ages
<1>3. PICK a \in Ages : \A b \in Ages : ~ (<<b, a>> \in Less)
  BY <1>2, NatLessThanWellFounded, WFMin
<1>4. \A b \in Ages : a <= b
  <2> SUFFICES ASSUME NEW b \in Ages PROVE a <= b
    OBVIOUS
  <2>1. <<b, a>> \notin {ss \in Nat \X Nat : ss[1] < ss[2]}
    BY <1>3 DEF OpToRel
  <2> QED BY <2>1, <1>2
<1>5. PICK i \in S : a = LastCandle - i.candle
  BY DEF Ages
<1>6. \A j \in S : j.candle <= i.candle
  <2> SUFFICES ASSUME NEW j \in S PROVE j.candle <= i.candle
    OBVIOUS
  <2>1. a <= LastCandle - j.candle
    BY <1>4 DEF Ages
  <2> QED BY <2>1, <1>1, <1>5, ConstantsAssumption
<1> QED BY <1>5, <1>6 DEF Newest

LEMMA ReadSetupStep ==
    ASSUME Inv, NEW e \in Evaluators, NEW s \in Symbols, NEW c \in Candles,
           NEW o \in Outcomes, ReadSetup(e, s, c, o)
    PROVE  Inv'
<1> DEFINE found == OpenSetups(e.monitor, s)
           id == IF found # {} THEN Newest(found)
                 ELSE [monitor |-> e.monitor, symbol |-> s, candle |-> c]
           seen == IF found # {} THEN setups[id] ELSE Absent
           me == [pc |-> "read", symbol |-> s, candle |-> c, outcome |-> o,
                  id |-> id, seen |-> seen]
<1>1. /\ tx' = [tx EXCEPT ![e] = me]
      /\ UNCHANGED <<now, setups, history, alerts, results, failures, sweep, delivered,
                     subscribed>>
  BY DEF ReadSetup
<1>2. id \in SetupIds /\ (found # {} => id \in found)
  <2>1. CASE found # {}
    <3>1. found \in SUBSET SetupIds
      BY DEF OpenSetups
    <3> HIDE DEF found
    <3> QED BY <2>1, <3>1, NewestExists
  <2>2. CASE found = {}
    <3>1. e.monitor \in Monitors
      BY ConstantsAssumption DEF Evaluators
    <3> QED BY <2>2, <3>1 DEF SetupIds
  <2> QED BY <2>1, <2>2
<1> HIDE DEF id
<1>3. /\ seen = Absent \/ (seen \in Rows /\ seen.state \notin {"EXPIRED", "CONFIRMED"})
      /\ seen # Absent => seen = setups[id]
  <2>1. CASE found # {}
    <3>1. setups[id] # Absent /\ setups[id].state # "EXPIRED"
      BY <1>2, <2>1 DEF OpenSetups, IsOpen
    <3>2. setups[id] \in Rows /\ setups[id].state # "CONFIRMED"
      BY <1>2, <3>1, SetupsTyped DEF Inv, RowOK, Agrees
    <3> QED BY <2>1, <3>1, <3>2
  <2>2. CASE found = {}
    BY <2>2
  <2> QED BY <2>1, <2>2
<1> HIDE DEF seen
<1>4. ReadWell(me) /\ (me.seen # Absent => Older(me.seen, setups[me.id]))
  <2>1. seen # Absent => setups[id] # Absent /\ seen.version <= setups[id].version
    BY <1>3, AbsentIsNoRow DEF Rows
  <2> QED BY <1>2, <1>3, <2>1 DEF ReadWell, Older
<1>5. me.pc = "read"
  OBVIOUS
<1> HIDE DEF me
<1>6. TxShape' /\ tx'[e] = me /\ \A f \in Evaluators \ {e} : tx'[f] = tx[f]
  BY <1>1 DEF Inv, TxShape
<1>7. \A f \in Evaluators : ReadOK(f)' /\ DecidedOK(f)'
  <2> SUFFICES ASSUME NEW f \in Evaluators PROVE ReadOK(f)' /\ DecidedOK(f)'
    OBVIOUS
  <2>1. CASE f = e
    BY <2>1, <1>1, <1>4, <1>5, <1>6 DEF ReadOK, DecidedOK, ReadWell, Older
  <2>2. CASE f # e
    <3>1. tx'[f] = tx[f] /\ ReadOK(f) /\ DecidedOK(f)
      BY <2>2, <1>6 DEF Inv
    <3>2. ReadOK(f)'
      BY <3>1, <1>1 DEF ReadOK, ReadWell, Older
    <3>3. DecidedOK(f)'
      BY <3>1, <1>1 DEF DecidedOK, Continues, Announces, StateOf, ReasonOf
    <3> QED BY <3>2, <3>3
  <2> QED BY <2>1, <2>2
<1>8. OneHolder'
  BY <1>5, <1>6 DEF Inv, OneHolder
<1>9. TypeOK'
  <2>1. \A f \in Evaluators : tx'[f].pc \in {"idle", "read", "decided"}
    BY <1>5, <1>6 DEF Inv, TypeOK
  <2> QED BY <2>1, <1>1 DEF Inv, TypeOK
<1>10. SweepOK' /\ \A i \in SetupIds : RowOK(i)'
  BY <1>1, SweepStays DEF Inv, RowOK, Agrees, AlertsOf, EventAlerts
<1> QED BY <1>6, <1>7, <1>8, <1>9, <1>10 DEF Inv

(* What a decision is taken on is the row as it is.                          *)
LEMMA DecideOnCurrent ==
    ASSUME Inv, NEW e \in Evaluators, tx[e].pc = "read",
           IF tx[e].seen = Absent THEN setups[tx[e].id] = Absent
           ELSE Current(tx[e].id, tx[e].seen)
    PROVE  /\ ReadWell(tx[e])
           /\ tx[e].seen = setups[tx[e].id]
           /\ Before(tx[e]) = StateOf(tx[e].id)
           /\ OldReason(tx[e]) = ReasonOf(tx[e].id)
<1>1. ReadOK(e)
  BY DEF Inv
<1>2. ReadWell(tx[e]) /\ tx[e].seen = setups[tx[e].id]
  BY <1>1 DEF ReadOK, Older, Current
<1> QED BY <1>2 DEF Before, StateOf, OldReason, ReasonOf

LEMMA DecideStep ==
    ASSUME Inv, NEW e \in Evaluators, NEW withheld \in Withheld, Decide(e, withheld)
    PROVE  Inv'
<1> DEFINE old == tx[e]
           i == old.id
           row == Decided(old, withheld).row
           new == Decided(old, withheld).new
           me == [pc |-> "decided", symbol |-> old.symbol, candle |-> old.candle,
                  id |-> i, row |-> row, new |-> new]
<1>1. /\ old.pc = "read" /\ ~ Locked(i)
      /\ IF old.seen = Absent THEN setups[i] = Absent ELSE Current(i, old.seen)
      /\ tx' = [tx EXCEPT ![e] = me]
      /\ UNCHANGED <<now, setups, history, alerts, results, failures, sweep, delivered,
                     subscribed>>
  BY DEF Decide
<1>2. /\ ReadWell(old) /\ old.seen = setups[i]
      /\ Before(old) = StateOf(i) /\ OldReason(old) = ReasonOf(i)
  BY <1>1, DecideOnCurrent
<1>3. PlanOK(old, row, new)
  <2>1. now \in Ticks /\ withheld \in BOOLEAN
    BY ConstantsAssumption DEF Inv, TypeOK
  <2> QED BY <1>2, <2>1, DecidedIsMade
<1> HIDE DEF row, new
<1>4. i \in SetupIds /\ RowOK(i)
  BY <1>2 DEF ReadWell, Inv
<1>5. /\ me.pc = "decided" /\ me.id = i /\ me.row = row /\ me.new = new
      /\ me.symbol \in Symbols /\ me.candle \in Candles
  BY <1>2 DEF ReadWell
<1> HIDE DEF me
<1>6. Continues(me, i)
  <2>1. setups[i] # Absent => setups[i].state # "EXPIRED" /\ setups[i].version < row.version
    BY <1>2, <1>3, <1>4, SetupsTyped DEF ReadWell, PlanOK, Inv
  <2> QED BY <2>1, <1>2, <1>3, <1>5 DEF PlanOK, Continues
<1>7. Announces(me, i)
  BY <1>2, <1>3, <1>5 DEF PlanOK, Announces
<1>8. Explained(row, KeysIn(alerts) \cup KeysIn(new))
  BY <1>2, <1>3, <1>4 DEF PlanOK, Explained, RowOK, Agrees
<1>9. TxShape' /\ tx'[e] = me /\ \A f \in Evaluators \ {e} : tx'[f] = tx[f]
  BY <1>1 DEF Inv, TxShape
<1>10. \A f \in Evaluators : ReadOK(f)' /\ DecidedOK(f)'
  <2> SUFFICES ASSUME NEW f \in Evaluators PROVE ReadOK(f)' /\ DecidedOK(f)'
    OBVIOUS
  <2>1. CASE f = e
    <3>1. Continues(tx[e], tx[e].id)'
      BY <1>1, <1>5, <1>6, <1>9 DEF Continues, StateOf, ReasonOf
    <3>2. Announces(tx[e], tx[e].id)'
      BY <1>1, <1>5, <1>7, <1>9 DEF Announces, StateOf
    <3>3. Explained(tx[e].row, KeysIn(alerts) \cup KeysIn(tx[e].new))'
      BY <1>1, <1>5, <1>8, <1>9 DEF Explained
    <3> QED BY <2>1, <3>1, <3>2, <3>3, <1>4, <1>5, <1>9 DEF ReadOK, DecidedOK
  <2>2. CASE f # e
    <3>1. tx'[f] = tx[f] /\ ReadOK(f) /\ DecidedOK(f)
      BY <2>2, <1>9 DEF Inv
    <3>2. ReadOK(f)'
      BY <3>1, <1>1 DEF ReadOK, ReadWell, Older
    <3>3. DecidedOK(f)'
      BY <3>1, <1>1 DEF DecidedOK, Continues, Announces, StateOf, ReasonOf
    <3> QED BY <3>2, <3>3
  <2> QED BY <2>1, <2>2
<1>11. OneHolder'
  <2> SUFFICES ASSUME NEW f \in Evaluators \ {e}, tx[f].pc = "decided", tx[f].id = i
               PROVE  FALSE
    BY <1>5, <1>9 DEF Inv, OneHolder
  <2> QED BY <1>1 DEF Locked
<1>12. TypeOK'
  <2>1. \A f \in Evaluators : tx'[f].pc \in {"idle", "read", "decided"}
    BY <1>5, <1>9 DEF Inv, TypeOK
  <2> QED BY <2>1, <1>1 DEF Inv, TypeOK
<1>13. SweepOK' /\ \A j \in SetupIds : RowOK(j)'
  BY <1>1, SweepStays DEF Inv, RowOK, Agrees, AlertsOf, EventAlerts
<1> QED BY <1>9, <1>10, <1>11, <1>12, <1>13 DEF Inv

----------------------------------------------------------------------------
(* Steps that write setups                                                   *)

LEMMA EndIsReached ==
    ASSUME NEW h, NEW s \in States, Leads(h, "none", s)
    PROVE  h # <<>> /\ s \in Steps(h)
<1>1. h \in Seq(Move) /\ h # <<>> /\ h[Len(h)].to = s
  BY DEF Leads, States
<1>2. Len(h) \in 1 .. Len(h)
  BY <1>1
<1> QED BY <1>1, <1>2 DEF Steps

LEMMA OlderStays ==
    ASSUME NEW seen \in Rows, NEW row \in Rows, NEW new \in Rows, Older(seen, row),
           row.version < new.version
    PROVE  Older(seen, new)
BY AbsentIsNoRow DEF Older, Rows

(* The history of a row that may not be there yet.                           *)
LEMMA PastOfRow ==
    ASSUME Inv, NEW i \in SetupIds
    PROVE  /\ Leads(history[i], "none", StateOf(i))
           /\ ReasonOf(i) # "none" <=> "SUPPRESSED" \in Steps(history[i])
           /\ "ALERT_SENT" \in Steps(history[i]) => AlertsOf(i) # {}
           /\ (\E a \in AlertsOf(i) : a.key.type = "confirmed") =>
                 "ALERT_SENT" \in Steps(history[i])
           /\ StateOf(i) = "ALERT_SENT" => "ALERT_SENT" \in Steps(history[i])
<1>1. RowOK(i)
  BY DEF Inv
<1>2. CASE setups[i] = Absent
  <2>1. history[i] = <<>> /\ AlertsOf(i) = {}
    BY <1>1, <1>2 DEF RowOK
  <2>2. Leads(<<>>, "none", "none") /\ Steps(<<>>) = {}
    <3>1. <<>> \in Seq(Move) /\ Len(<<>>) = 0
      BY EmptySeq
    <3> QED BY <3>1 DEF Leads, Steps
  <2> QED BY <2>1, <2>2, <1>2 DEF StateOf, ReasonOf
<1>3. CASE setups[i] # Absent
  <2>1. Agrees(i) /\ setups[i].state \in States
    BY <1>1, <1>3, SetupsTyped DEF RowOK, Inv
  <2>2. setups[i].state \in Steps(history[i])
    BY <2>1, EndIsReached DEF Agrees
  <2> QED BY <2>1, <2>2, <1>3 DEF Agrees, StateOf, ReasonOf
<1> QED BY <1>2, <1>3

(* A row nobody wrote stays right while alerts about others are added.       *)
LEMMA OthersStay ==
    ASSUME NEW i \in SetupIds, RowOK(i), setups'[i] = setups[i], history'[i] = history[i],
           alerts \subseteq alerts', AlertsOf(i)' = AlertsOf(i)
    PROVE  RowOK(i)'
<1>1. KeysIn(alerts) \subseteq KeysIn(alerts')
  BY DEF KeysIn
<1> QED BY <1>1 DEF RowOK, Agrees, Explained

LEMMA CommitStep ==
    ASSUME Inv, NEW e \in Evaluators, Commit(e)
    PROVE  Inv'
<1>1. PICK i \in SetupIds : i = tx[e].id
  BY DEF Commit, Inv, DecidedOK
<1>2. PICK row : row = tx[e].row
  OBVIOUS
<1>3. PICK new : new = tx[e].new
  OBVIOUS
<1>4. /\ tx[e].pc = "decided"
      /\ KeysIn(new) \cap KeysIn(alerts) = {}
      /\ setups' = [setups EXCEPT ![i] = Stored(row)]
      /\ history' = [history EXCEPT ![i] = @ \o row.moves]
      /\ alerts' = alerts \cup new
      /\ results' = results \cup {Evaluation(e)}
      /\ tx' = [tx EXCEPT ![e] = Idle]
      /\ UNCHANGED <<now, failures, sweep, delivered, subscribed>>
  BY <1>1, <1>2, <1>3 DEF Commit
<1>5. /\ tx[e].symbol \in Symbols /\ tx[e].candle \in Candles
      /\ row \in MadeRow /\ Leads(row.moves, StateOf(i), row.state)
      /\ row.state # "CONFIRMED"
      /\ setups[i] # Absent => setups[i].state # "EXPIRED" /\ setups[i].version < row.version
      /\ row.refusal # "none" <=> ReasonOf(i) # "none" \/ "SUPPRESSED" \in Steps(row.moves)
      /\ new \subseteq AlertRows /\ Distinct(new) /\ \A a \in new : a.setup = i
      /\ "ALERT_SENT" \in Steps(row.moves) => EventsIn(new) # {}
      /\ (\E a \in EventsIn(new) : a.key.type = "confirmed") =>
            "ALERT_SENT" \in Steps(row.moves) \/ StateOf(i) = "ALERT_SENT"
      /\ Explained(row, KeysIn(alerts) \cup KeysIn(new))
  BY <1>1, <1>2, <1>3, <1>4 DEF Inv, DecidedOK, Continues, Announces
<1>6. /\ Stored(row) \in Rows /\ Stored(row) # Absent
      /\ Stored(row).state = row.state /\ Stored(row).version = row.version
      /\ Stored(row).refusal = row.refusal /\ Stored(row).refusedAt = row.refusedAt
  BY <1>5, StoredIsRow
<1>7. /\ setups'[i] = Stored(row) /\ history'[i] = history[i] \o row.moves
      /\ \A j \in SetupIds \ {i} : setups'[j] = setups[j] /\ history'[j] = history[j]
  BY <1>4 DEF Inv, TypeOK
<1>8. /\ Leads(history'[i], "none", row.state)
      /\ Steps(history'[i]) = Steps(history[i]) \cup Steps(row.moves)
  <2>1. Leads(history[i], "none", StateOf(i))
    BY PastOfRow
  <2>2. /\ Leads(history[i] \o row.moves, "none", row.state)
        /\ Steps(history[i] \o row.moves) = Steps(history[i]) \cup Steps(row.moves)
    BY <2>1, <1>5, LeadsConcat
  <2> QED BY <2>2, <1>7
<1>9. /\ AlertsOf(i)' = AlertsOf(i) \cup EventsIn(new)
      /\ \A j \in SetupIds \ {i} : AlertsOf(j)' = AlertsOf(j)
  BY <1>4, <1>5 DEF AlertsOf, EventAlerts, EventsIn
<1>10. KeysIn(alerts') = KeysIn(alerts) \cup KeysIn(new)
  BY <1>4 DEF KeysIn
<1>11. RowOK(i)'
  <2>1. Explained(setups'[i], KeysIn(alerts'))
    BY <1>5, <1>6, <1>7, <1>10 DEF Explained
  <2>2. setups'[i].refusal # "none" <=> "SUPPRESSED" \in Steps(history'[i])
    BY <1>5, <1>6, <1>7, <1>8, PastOfRow
  <2>3. "ALERT_SENT" \in Steps(history'[i]) => AlertsOf(i)' # {}
    BY <1>5, <1>8, <1>9, PastOfRow
  <2>4. (\E a \in AlertsOf(i)' : a.key.type = "confirmed") =>
           "ALERT_SENT" \in Steps(history'[i])
    BY <1>5, <1>8, <1>9, PastOfRow
  <2> QED BY <2>1, <2>2, <2>3, <2>4, <1>5, <1>6, <1>7, <1>8 DEF RowOK, Agrees
<1>12. \A j \in SetupIds : RowOK(j)'
  <2> SUFFICES ASSUME NEW j \in SetupIds \ {i} PROVE RowOK(j)'
    BY <1>11
  <2> QED BY <1>4, <1>7, <1>9, OthersStay DEF Inv
<1>13. TxShape' /\ tx'[e] = Idle /\ \A f \in Evaluators \ {e} : tx'[f] = tx[f]
  BY <1>4 DEF Inv, TxShape
<1>14. ASSUME NEW j \in SetupIds, NEW seen \in Rows, Older(seen, setups[j])
       PROVE  Older(seen, setups'[j])
  <2>1. CASE j = i
    <3>1. setups[i] \in Rows
      BY <2>1, <1>14, SetupsTyped DEF Older, Inv
    <3> QED BY <2>1, <3>1, <1>5, <1>6, <1>7, <1>14, OlderStays, AbsentIsNoRow
  <2>2. CASE j # i
    BY <2>2, <1>7, <1>14
  <2> QED BY <2>1, <2>2
<1>15. \A f \in Evaluators : ReadOK(f)' /\ DecidedOK(f)'
  <2> SUFFICES ASSUME NEW f \in Evaluators PROVE ReadOK(f)' /\ DecidedOK(f)'
    OBVIOUS
  <2>1. CASE f = e
    BY <2>1, <1>13 DEF ReadOK, DecidedOK, Idle
  <2>2. CASE f # e
    <3>1. tx'[f] = tx[f] /\ ReadOK(f) /\ DecidedOK(f)
      BY <2>2, <1>13 DEF Inv
    <3>2. ReadOK(f)'
      BY <3>1, <1>14 DEF ReadOK, ReadWell
    <3>3. DecidedOK(f)'
      <4> SUFFICES ASSUME tx[f].pc = "decided" PROVE DecidedOK(f)'
        BY <3>1 DEF DecidedOK
      <4>1. tx[f].id \in SetupIds /\ tx[f].id # i
        BY <2>2, <3>1, <1>1, <1>4 DEF DecidedOK, Inv, OneHolder
      <4>2. Continues(tx[f], tx[f].id)' /\ Announces(tx[f], tx[f].id)'
        BY <3>1, <4>1, <1>7 DEF DecidedOK, Continues, Announces, StateOf, ReasonOf
      <4>3. Explained(tx[f].row, KeysIn(alerts) \cup KeysIn(tx[f].new))'
        BY <3>1, <1>10 DEF DecidedOK, Explained
      <4> QED BY <3>1, <4>2, <4>3 DEF DecidedOK
    <3> QED BY <3>2, <3>3
  <2> QED BY <2>1, <2>2
<1>16. OneHolder'
  BY <1>13 DEF Inv, OneHolder, Idle
<1>17. SweepOK'
  BY <1>4, <1>14 DEF Inv, SweepOK
<1>18. TypeOK'
  <2>1. setups' \in [SetupIds -> Rows \cup {Absent}]
    BY <1>4, <1>6 DEF Inv, TypeOK
  <2>2. history' \in [SetupIds -> Seq(Move)]
    <3>1. history'[i] \in Seq(Move)
      BY <1>8 DEF Leads
    <3> QED BY <3>1, <1>4, <1>7 DEF Inv, TypeOK, Move
  <2>3. alerts' \subseteq AlertRows /\ \A a, b \in alerts' : a.key = b.key => a = b
    <3>1. \A a \in alerts, b \in new : a.key # b.key
      BY <1>4 DEF KeysIn
    <3>2. alerts \subseteq AlertRows /\ \A a, b \in alerts : a.key = b.key => a = b
      BY DEF Inv, TypeOK
    <3>3. new \subseteq AlertRows /\ \A a, b \in new : a.key = b.key => a = b
      BY <1>5 DEF Distinct
    <3> QED BY <3>1, <3>2, <3>3, <1>4
  <2>4. Evaluation(e) \in [evaluator : Evaluators, symbol : Symbols, candle : Candles]
    BY <1>5 DEF Evaluation
  <2>5. \A f \in Evaluators : tx'[f].pc \in {"idle", "read", "decided"}
    BY <1>13 DEF Inv, TypeOK, Idle
  <2> QED BY <2>1, <2>2, <2>3, <2>4, <2>5, <1>4 DEF Inv, TypeOK, Move
<1> QED BY <1>12, <1>13, <1>15, <1>16, <1>17, <1>18 DEF Inv

LEMMA ExpireDueStep ==
    ASSUME Inv, ExpireDue
    PROVE  Inv'
<1>1. PICK S \in SUBSET SetupIds : S = Expiring
  BY DEF Expiring, Inv, SweepOK, ExpireDue
<1>2. /\ sweep # Absent /\ sweep' = Absent
      /\ setups' = [i \in SetupIds |-> IF i \in S THEN Stored(Expired(sweep[i])) ELSE setups[i]]
      /\ history' = [i \in SetupIds |->
            IF i \in S THEN history[i] \o Expired(sweep[i]).moves ELSE history[i]]
      /\ UNCHANGED <<now, alerts, results, failures, tx, delivered, subscribed>>
  BY <1>1 DEF ExpireDue
<1>3. ASSUME NEW i \in S
      PROVE  /\ setups[i] \in Rows /\ MayMove(setups[i].state, "EXPIRED") /\ ~ Locked(i)
             /\ sweep[i] = setups[i]
  BY <1>1, <1>2 DEF Expiring, SweepIsCurrent, Current, Inv, SweepOK, Older, ExpireDue
<1>4. ASSUME NEW i \in S
      PROVE  LET new == Expired(sweep[i]) IN
             /\ new \in MadeRow /\ Leads(new.moves, setups[i].state, "EXPIRED")
             /\ Steps(new.moves) = {"EXPIRED"} /\ new.state = "EXPIRED"
             /\ new.version = setups[i].version + 1 /\ new.refusal = setups[i].refusal
             /\ new.refusedAt = setups[i].refusedAt
  <2> DEFINE old == setups[i]
             mid == Moved(old, "EXPIRED")
  <2>1. /\ old \in MadeRow /\ old.moves = <<>> /\ Steps(old.moves) = {}
        /\ MayMove(old.state, "EXPIRED") /\ "EXPIRED" \in States
    BY <1>3, <1>4, RowIsMade DEF States
  <2>2. Leads(old.moves, old.state, old.state)
    BY <2>1 DEF Leads, MadeRow
  <2>3. Expired(sweep[i]) = [mid EXCEPT !.version = @ + 1]
    BY <1>3, <1>4 DEF Expired
  <2> HIDE DEF old
  <2>4. /\ mid \in MadeRow /\ Leads(mid.moves, old.state, "EXPIRED")
        /\ Steps(mid.moves) = {"EXPIRED"} /\ mid.state = "EXPIRED"
        /\ mid.version = old.version /\ mid.refusal = old.refusal
        /\ mid.refusedAt = old.refusedAt
    BY <2>1, <2>2, MovedIsMade
  <2> HIDE DEF mid
  <2>5. LET new == [mid EXCEPT !.version = @ + 1] IN
        /\ new \in MadeRow /\ new.moves = mid.moves /\ new.state = mid.state
        /\ new.version = mid.version + 1 /\ new.refusal = mid.refusal
        /\ new.refusedAt = mid.refusedAt
    BY <2>4 DEF MadeRow
  <2> QED BY <2>3, <2>4, <2>5 DEF old
<1>5. ASSUME NEW i \in S
      PROVE  LET new == setups'[i] IN
             /\ new \in Rows /\ new # Absent /\ new.state = "EXPIRED"
             /\ new.version = setups[i].version + 1 /\ new.refusal = setups[i].refusal
             /\ new.refusedAt = setups[i].refusedAt
             /\ Leads(history'[i], "none", "EXPIRED")
             /\ Steps(history'[i]) = Steps(history[i]) \cup {"EXPIRED"}
  <2> DEFINE made == Expired(sweep[i])
  <2>1. setups'[i] = Stored(made) /\ history'[i] = history[i] \o made.moves
    BY <1>2, <1>5
  <2>2. /\ made \in MadeRow /\ Leads(made.moves, setups[i].state, "EXPIRED")
        /\ Steps(made.moves) = {"EXPIRED"} /\ made.state = "EXPIRED"
        /\ made.version = setups[i].version + 1 /\ made.refusal = setups[i].refusal
        /\ made.refusedAt = setups[i].refusedAt
    BY <1>4, <1>5
  <2> HIDE DEF made
  <2>3. Leads(history[i], "none", setups[i].state)
    BY <1>3, <1>5, AbsentIsNoRow DEF Inv, RowOK, Agrees
  <2>4. /\ Leads(history[i] \o made.moves, "none", "EXPIRED")
        /\ Steps(history[i] \o made.moves) = Steps(history[i]) \cup Steps(made.moves)
    BY <2>2, <2>3, LeadsConcat
  <2>5. /\ Stored(made) \in Rows /\ Stored(made) # Absent
        /\ Stored(made).state = made.state /\ Stored(made).version = made.version
        /\ Stored(made).refusal = made.refusal /\ Stored(made).refusedAt = made.refusedAt
    BY <2>2, StoredIsRow
  <2> QED BY <2>1, <2>2, <2>4, <2>5
<1>6. \A i \in SetupIds \ S : setups'[i] = setups[i] /\ history'[i] = history[i]
  BY <1>2
<1>7. \A i \in SetupIds : AlertsOf(i)' = AlertsOf(i)
  BY <1>2 DEF AlertsOf, EventAlerts
<1>8. \A i \in SetupIds : RowOK(i)'
  <2> SUFFICES ASSUME NEW i \in SetupIds PROVE RowOK(i)'
    OBVIOUS
  <2>1. CASE i \in S
    <3>1. Agrees(i)
      BY <2>1, <1>3, AbsentIsNoRow DEF Inv, RowOK
    <3>2. Explained(setups'[i], KeysIn(alerts'))
      BY <2>1, <3>1, <1>2, <1>5 DEF Agrees, Explained
    <3> QED BY <2>1, <3>1, <3>2, <1>5, <1>7 DEF RowOK, Agrees
  <2>2. CASE i \notin S
    BY <2>2, <1>2, <1>6, <1>7, OthersStay DEF Inv
  <2> QED BY <2>1, <2>2
<1>9. ASSUME NEW j \in SetupIds, NEW seen \in Rows, Older(seen, setups[j])
      PROVE  Older(seen, setups'[j])
  <2>1. CASE j \in S
    <3>1. setups[j].version < setups'[j].version
      BY <2>1, <1>3, <1>5 DEF Rows
    <3> QED BY <2>1, <3>1, <1>3, <1>5, <1>9, OlderStays
  <2>2. CASE j \notin S
    BY <2>2, <1>6, <1>9
  <2> QED BY <2>1, <2>2
<1>10. \A f \in Evaluators : ReadOK(f)' /\ DecidedOK(f)'
  <2> SUFFICES ASSUME NEW f \in Evaluators PROVE ReadOK(f)' /\ DecidedOK(f)'
    OBVIOUS
  <2>1. tx'[f] = tx[f] /\ ReadOK(f) /\ DecidedOK(f)
    BY <1>2 DEF Inv
  <2>2. ReadOK(f)'
    BY <2>1, <1>9 DEF ReadOK, ReadWell
  <2>3. DecidedOK(f)'
    <3> SUFFICES ASSUME tx[f].pc = "decided" PROVE DecidedOK(f)'
      BY <2>1 DEF DecidedOK
    <3>1. tx[f].id \in SetupIds /\ tx[f].id \notin S
      BY <2>1, <1>3 DEF DecidedOK, Locked
    <3>2. Continues(tx[f], tx[f].id)' /\ Announces(tx[f], tx[f].id)'
      BY <2>1, <3>1, <1>6 DEF DecidedOK, Continues, Announces, StateOf, ReasonOf
    <3>3. Explained(tx[f].row, KeysIn(alerts) \cup KeysIn(tx[f].new))'
      BY <2>1, <1>2 DEF DecidedOK, Explained
    <3> QED BY <2>1, <3>2, <3>3 DEF DecidedOK
  <2> QED BY <2>2, <2>3
<1>11. TypeOK'
  <2>1. setups' \in [SetupIds -> Rows \cup {Absent}]
    BY <1>2, <1>5, <1>6 DEF Inv, TypeOK
  <2>2. history' \in [SetupIds -> Seq(Move)]
    <3>1. \A i \in SetupIds : history'[i] \in Seq(Move)
      BY <1>5, <1>6, SetupsTyped DEF Leads, Inv
    <3> QED BY <3>1, <1>2
  <2> QED BY <2>1, <2>2, <1>2 DEF Inv, TypeOK, Move
<1> QED BY <1>2, <1>8, <1>10, <1>11 DEF Inv, TxShape, OneHolder, SweepOK

----------------------------------------------------------------------------
(* The theorems                                                              *)

LEMMA NextKeepsInv ==
    Inv /\ [Next]_vars => Inv'
<1> SUFFICES ASSUME Inv, [Next]_vars PROVE Inv'
  OBVIOUS
<1>1. CASE Tick \/ Deliver \/ Subscribe
  BY <1>1, EnvironmentSteps
<1>2. CASE SelectDue
  BY <1>2, SelectDueStep
<1>3. CASE ExpireDue
  BY <1>3, ExpireDueStep
<1>4. ASSUME NEW e \in Evaluators, Step(e) PROVE Inv'
  <2>1. CASE \E s \in Symbols, c \in Candles, o \in Outcomes : ReadSetup(e, s, c, o)
    BY <2>1, ReadSetupStep
  <2>2. CASE \E withheld \in Withheld : Decide(e, withheld)
    BY <2>2, DecideStep
  <2>3. CASE SetupConflict(e) \/ AlertConflict(e) \/ Crash(e)
    <3>1. /\ tx' = [tx EXCEPT ![e] = Idle] /\ failures' \subseteq Errors
          /\ UNCHANGED <<now, setups, history, alerts, results, sweep, delivered, subscribed>>
      BY <2>3 DEF SetupConflict, AlertConflict, Crash, RollBack, Inv, TypeOK, Errors
    <3> QED BY <3>1, DropStep
  <2>4. CASE Commit(e)
    BY <2>4, CommitStep
  <2> QED BY <1>4, <2>1, <2>2, <2>3, <2>4 DEF Step
<1>5. CASE UNCHANGED vars
  <2>1. UNCHANGED <<now, setups, history, alerts, results, failures, tx, sweep, delivered,
                    subscribed>>
    BY <1>5 DEF vars
  <2>2. TypeOK' /\ TxShape' /\ SweepOK'
    BY <2>1, SweepStays DEF Inv, TypeOK, TxShape
  <2> QED BY <2>1, <2>2, QuietStep
<1> QED BY <1>1, <1>2, <1>3, <1>4, <1>5 DEF Next

LEMMA Invariant ==
    Spec => []Inv
BY InitialState, NextKeepsInv, PTL DEF Spec

(* Rows have their shapes, every setup has an expiry time, and no two alerts *)
(* have one deduplication key.                                               *)
THEOREM TypeCorrect ==
    Spec => []TypeOK
<1>1. Inv => TypeOK
  BY DEF Inv
<1> QED BY <1>1, Invariant, PTL

(* However evaluations and expiry passes overlap, a setup's events are one   *)
(* path through the transition table that ends in its state column.          *)
THEOREM HistoryIsALegalPathCorrect ==
    Spec => []HistoryIsALegalPath
<1>1. Inv => HistoryIsALegalPath
  <2> SUFFICES ASSUME Inv, NEW i \in Setups
               PROVE  LET h == history[i] IN
                      /\ h[1].from = "none"
                      /\ \A n \in 2 .. Len(h) :
                            h[n].from = h[n - 1].to /\ h[n].to \in AllowedFrom[h[n].from]
                      /\ setups[i].state = h[Len(h)].to
    BY DEF HistoryIsALegalPath
  <2> DEFINE h == history[i]
  <2>1. Leads(h, "none", setups[i].state) /\ setups[i].state \in States
    BY SetupsTyped DEF Inv, Setups, RowOK, Agrees
  <2> HIDE DEF h
  <2>2. h # <<>> /\ h \in Seq(Move)
    BY <2>1 DEF Leads, States
  <2>3. ASSUME NEW n \in 2 .. Len(h)
        PROVE  h[n].from = h[n - 1].to /\ h[n].to \in AllowedFrom[h[n].from]
    <3>1. n \in 1 .. Len(h) /\ n - 1 \in 1 .. Len(h)
      BY <2>2, <2>3
    <3>2. h[n - 1].to \in States
      <4>1. h[n - 1] \in Move
        BY <2>2, <3>1, ElementOfSeq
      <4> QED BY <4>1 DEF Move
    <3>3. h[n].from = h[n - 1].to
      BY <2>1, <2>3 DEF Leads
    <3>4. h[n].from # "none"
      BY <3>2, <3>3 DEF States
    <3>5. h[n].from = "none" \/ h[n].to \in AllowedFrom[h[n].from]
      BY <2>1, <3>1 DEF Leads
    <3> QED BY <3>3, <3>4, <3>5
  <2> QED BY <2>1, <2>2, <2>3 DEF Leads, h
<1> QED BY <1>1, Invariant, PTL

(* Every confirmation is answered in the transaction that made it, by an     *)
(* alert or by a refusal that is on record.                                  *)
THEOREM ConfirmationsAreAnsweredCorrect ==
    Spec => []ConfirmationsAreAnswered
<1>1. Inv => ConfirmationsAreAnswered
  BY DEF Inv, ConfirmationsAreAnswered, Setups, RowOK, Agrees, Happened, Steps
<1> QED BY <1>1, Invariant, PTL

(* A setup says that an alert was sent only when there is one, and a         *)
(* confirmation alert leaves none that does not.                             *)
THEOREM SentMeansAlertedCorrect ==
    Spec => []SentMeansAlerted
<1>1. Inv => SentMeansAlerted
  BY DEF Inv, SentMeansAlerted, Setups, RowOK, Agrees, Happened, Steps
<1> QED BY <1>1, Invariant, PTL

(* Whoever lost a confirmation to a limit of the plan or the trial was told, *)
(* also when evaluations overlap.                                            *)
THEOREM RefusalIsExplainedCorrect ==
    Spec => []RefusalIsExplained
<1>1. Inv => RefusalIsExplained
  BY DEF Inv, RefusalIsExplained, Setups, RowOK, Agrees, Explained, PeriodAt
<1> QED BY <1>1, Invariant, PTL

(* A closed setup is never written again and never alerted about again.      *)
THEOREM ClosedStaysClosedCorrect ==
    Spec => ClosedStaysClosed
<1> DEFINE Closed(i) ==
              setups[i].state = "EXPIRED" =>
                 /\ setups'[i] = setups[i] /\ history'[i] = history[i]
                 /\ {a \in alerts' : a.key.of = "event" /\ a.setup = i} = AlertsOf(i)
<1>1. ASSUME Inv, Next, NEW i \in Setups PROVE Closed(i)
  <2> SUFFICES ASSUME setups[i].state = "EXPIRED"
               PROVE  /\ setups'[i] = setups[i] /\ history'[i] = history[i]
                      /\ {a \in alerts' : a.key.of = "event" /\ a.setup = i} = AlertsOf(i)
    OBVIOUS
  <2>1. i \in SetupIds /\ setups[i] # Absent
    BY DEF Setups
  <2>2. ASSUME UNCHANGED <<setups, history, alerts>> PROVE Closed(i)
    BY <2>2 DEF AlertsOf, EventAlerts
  <2>3. CASE ExpireDue
    <3>1. i \notin Expiring
      <4> SUFFICES ASSUME i \in Expiring PROVE FALSE
        OBVIOUS
      <4>1. i \in DOMAIN sweep /\ MayMove(sweep[i].state, "EXPIRED") /\ Current(i, sweep[i])
        BY DEF Expiring, SweepIsCurrent
      <4>2. Older(sweep[i], setups[i])
        BY <1>1, <2>3, <4>1 DEF Inv, SweepOK, ExpireDue
      <4>3. sweep[i].state = "EXPIRED"
        BY <4>1, <4>2 DEF Current, Older
      <4> QED BY <4>1, <4>3 DEF MayMove, AllowedFrom
    <3> QED BY <2>1, <2>3, <3>1 DEF ExpireDue, AlertsOf, EventAlerts
  <2>4. ASSUME NEW e \in Evaluators, Commit(e) PROVE Closed(i)
    <3>1. DecidedOK(e) /\ tx[e].pc = "decided"
      BY <1>1, <2>4 DEF Inv, Commit
    <3>2. tx[e].id \in SetupIds /\ tx[e].id # i /\ \A a \in tx[e].new : a.setup = tx[e].id
      BY <2>1, <3>1 DEF DecidedOK, Continues, Announces
    <3>3. setups'[i] = setups[i] /\ history'[i] = history[i]
      BY <1>1, <2>1, <2>4, <3>2 DEF Commit, Inv, TypeOK
    <3>4. alerts' = alerts \cup tx[e].new
      BY <2>4 DEF Commit
    <3> QED BY <3>2, <3>3, <3>4 DEF AlertsOf, EventAlerts
  <2>5. ASSUME NEW e \in Evaluators, Step(e), ~ Commit(e)
        PROVE  UNCHANGED <<setups, history, alerts>>
    BY <2>5 DEF Step, ReadSetup, Decide, SetupConflict, AlertConflict, RollBack, Crash
  <2>6. CASE Tick \/ Deliver \/ Subscribe \/ SelectDue
    <3>1. UNCHANGED <<setups, history, alerts>>
      BY <2>6 DEF Tick, Deliver, Subscribe, SelectDue
    <3> QED BY <2>2, <3>1
  <2> QED BY <1>1, <2>2, <2>3, <2>4, <2>5, <2>6 DEF Next
<1>2. Inv /\ [Next]_vars => [\A i \in Setups : Closed(i)]_vars
  BY <1>1
<1> QED BY <1>2, Invariant, PTL DEF Spec, ClosedStaysClosed

----------------------------------------------------------------------------
(* One check at a time                                                       *)

(* Steps that raise no alert and open no setup.                              *)
Quiet ==
    /\ alerts' = alerts /\ now <= now'
    /\ \A i \in SetupIds :
          /\ setups'[i] = Absent <=> setups[i] = Absent
          /\ IsOpen(i)' => IsOpen(i)
    /\ \A e \in Evaluators : tx'[e] = tx[e] \/ tx'[e] = Idle

LEMMA QuietOrNot ==
    ASSUME Inv, [Next]_vars
    PROVE  \/ Quiet
           \/ \E e \in Evaluators :
                 \/ \E s \in Symbols, c \in Candles, o \in Outcomes : ReadSetup(e, s, c, o)
                 \/ \E withheld \in Withheld : Decide(e, withheld)
                 \/ Commit(e)
<1> now \in Nat
  BY TicksAreNaturals DEF Inv, TypeOK
<1>1. CASE Tick \/ Deliver \/ Subscribe \/ SelectDue \/ UNCHANGED vars
  <2>1. UNCHANGED <<setups, alerts, tx>> /\ (now' = now + 1 \/ now' = now)
    BY <1>1 DEF Tick, Deliver, Subscribe, SelectDue, vars
  <2> QED BY <2>1 DEF Quiet, IsOpen
<1>2. CASE ExpireDue
  <2>1. UNCHANGED <<now, alerts, tx>>
    BY <1>2 DEF ExpireDue
  <2>2. ASSUME NEW i \in SetupIds
        PROVE  /\ setups'[i] = Absent <=> setups[i] = Absent
               /\ IsOpen(i)' => IsOpen(i)
    <3>1. CASE i \in Expiring
      <4>1. setups[i] \in Rows /\ setups[i] = sweep[i] /\ MayMove(setups[i].state, "EXPIRED")
        BY <1>2, <2>2, <3>1
        DEF ExpireDue, Expiring, SweepIsCurrent, Current, Inv, SweepOK, Older
      <4>2. setups'[i] = Stored(Expired(sweep[i]))
        BY <1>2, <2>2, <3>1 DEF ExpireDue
      <4>3. /\ setups[i] \in MadeRow /\ setups[i].moves = <<>>
            /\ Leads(<<>>, setups[i].state, setups[i].state)
        BY <4>1, RowIsMade, EmptySeq DEF Leads
      <4>4. Moved(setups[i], "EXPIRED") \in MadeRow /\ Moved(setups[i], "EXPIRED").state = "EXPIRED"
        BY <4>1, <4>3, MovedIsMade DEF States
      <4>5. Expired(sweep[i]) \in MadeRow /\ Expired(sweep[i]).state = "EXPIRED"
        BY <4>1, <4>4 DEF Expired, MadeRow
      <4> QED BY <4>1, <4>2, <4>5, StoredIsRow, AbsentIsNoRow DEF IsOpen
    <3>2. CASE i \notin Expiring
      BY <1>2, <2>2, <3>2 DEF ExpireDue, IsOpen
    <3> QED BY <3>1, <3>2
  <2> QED BY <2>1, <2>2 DEF Quiet
<1>3. ASSUME NEW e \in Evaluators, SetupConflict(e) \/ AlertConflict(e) \/ Crash(e)
      PROVE  Quiet
  <2>1. UNCHANGED <<now, setups, alerts>> /\ tx' = [tx EXCEPT ![e] = Idle]
    BY <1>3 DEF SetupConflict, AlertConflict, Crash, RollBack
  <2>2. \A f \in Evaluators : tx'[f] = tx[f] \/ tx'[f] = Idle
    BY <2>1 DEF Inv, TxShape
  <2> QED BY <2>1, <2>2 DEF Quiet, IsOpen
<1> QED BY <1>1, <1>2, <1>3 DEF Next, Step

(* Alerts are finitely many and not of the future.                           *)
Dated(rows) == IsFiniteSet(rows) /\ \A a \in rows : a.at <= now

AlertsAreDated ==
    /\ Dated(alerts)
    /\ \A e \in Evaluators : tx[e].pc = "decided" => Dated(tx[e].new)

(* The rows of a decision are written now, at most two, and only one of them *)
(* is about an event: then no limit was reached.                             *)
LEMMA DecidedRows ==
    ASSUME NEW me, ReadWell(me), now \in Ticks, NEW withheld \in BOOLEAN
    PROVE  LET new == Decided(me, withheld).new IN
           /\ IsFiniteSet(new)
           /\ \A a \in new : a.at = now
           /\ \/ EventsIn(new) = {}
              \/ /\ new = {AlertRow(me, EventKey(me), withheld)}
                 /\ Refusal(me) = "none"
<1> DEFINE new == Decided(me, withheld).new
           why == Refusal(me)
<1>1. \A a \in new : a.at = now
  BY DecidedIsMade DEF PlanOK
<1>2. \A code : \E S : Notice(me, code, withheld) \in {{}, {S}}
  BY DEF Notice
<1>3. \A x : IsFiniteSet({}) /\ IsFiniteSet({x})
  BY FS_EmptySet, FS_Singleton
<1>4. CASE me.outcome = "forming"
  BY <1>3, <1>4, <1>1 DEF Decided, EventsIn
<1>5. CASE me.outcome # "forming" /\ CapReached
  <2> DEFINE a == AlertRow(me, CappedKey(me), TRUE)
             notice == Notice(me, "trial", withheld)
  <2>1. new = {a} \cup notice
    BY <1>5 DEF Decided
  <2>2. a.key.of = "capped"
    BY DEF AlertRow, CappedKey
  <2>3. \A b \in notice : b.key.of = "trial"
    BY NoticeIsGiven DEF ReadWell
  <2> HIDE DEF a
  <2>4. PICK b : notice \in {{}, {b}}
    BY <1>2
  <2> HIDE DEF notice
  <2>5. IsFiniteSet({a} \cup notice)
    <3>1. IsFiniteSet(notice)
      BY <1>3, <2>4
    <3>2. IsFiniteSet(notice \cup {a})
      BY <3>1, FS_AddElement
    <3>3. notice \cup {a} = {a} \cup notice
      OBVIOUS
    <3> QED BY <3>2, <3>3
  <2>6. EventsIn({a} \cup notice) = {}
    BY <2>2, <2>3 DEF EventsIn
  <2> QED BY <1>1, <2>1, <2>5, <2>6
<1>6. CASE me.outcome # "forming" /\ ~ CapReached /\ why # "none"
  <2>1. new = IF why \in {"daily", "weekly"} THEN Notice(me, why, withheld) ELSE {}
    BY <1>6 DEF Decided
  <2>2. CASE why \in {"daily", "weekly"}
    <3>1. \A b \in new : b.key.of = why
      BY <2>1, <2>2, NoticeIsGiven DEF ReadWell
    <3>2. IsFiniteSet(new)
      BY <1>2, <1>3, <2>1, <2>2
    <3> HIDE DEF new, why
    <3>3. EventsIn(new) = {}
      BY <3>1, <2>2 DEF EventsIn
    <3> QED BY <1>1, <3>2, <3>3 DEF new
  <2>3. CASE why \notin {"daily", "weekly"}
    BY <1>1, <1>3, <2>1, <2>3 DEF EventsIn
  <2> QED BY <2>2, <2>3
<1>7. CASE me.outcome # "forming" /\ ~ CapReached /\ why = "none"
  <2>1. new = {AlertRow(me, EventKey(me), withheld)}
    BY <1>7 DEF Decided
  <2> QED BY <1>1, <1>3, <1>7, <2>1
<1> QED BY <1>4, <1>5, <1>6, <1>7


LEMMA AlertsAreDatedInv ==
    Spec => []AlertsAreDated
<1>1. Init => AlertsAreDated
  BY FS_EmptySet DEF Init, AlertsAreDated, Dated, Idle
<1>2. ASSUME Inv, AlertsAreDated, [Next]_vars PROVE AlertsAreDated'
  <2>0. /\ now \in Nat /\ now' \in Nat
        /\ \A a \in alerts : a.at \in Nat
        /\ \A e \in Evaluators : tx[e].pc = "decided" => \A a \in tx[e].new : a.at \in Nat
    <3>1. \A a \in AlertRows : a.at \in Nat
      BY TicksAreNaturals DEF AlertRows
    <3>2. Inv'
      BY <1>2, NextKeepsInv
    <3>3. \A e \in Evaluators : tx[e].pc = "decided" => tx[e].new \subseteq AlertRows
      BY <1>2 DEF Inv, DecidedOK, Announces
    <3> QED BY <1>2, <3>1, <3>2, <3>3, TicksAreNaturals DEF Inv, TypeOK
  <2>1. CASE Quiet
    <3>1. alerts' = alerts /\ now <= now'
      BY <2>1 DEF Quiet
    <3>2. IsFiniteSet(alerts') /\ \A a \in alerts' : a.at <= now'
      <4>1. \A a \in alerts : a.at \in Nat /\ a.at <= now
        BY <1>2, <2>0 DEF AlertsAreDated, Dated
      <4> QED BY <1>2, <2>0, <3>1, <4>1 DEF AlertsAreDated, Dated
    <3>3. ASSUME NEW e \in Evaluators, tx'[e].pc = "decided"
          PROVE  IsFiniteSet(tx'[e].new) /\ \A a \in tx'[e].new : a.at <= now'
      <4>1. tx'[e] = tx[e]
        BY <2>1, <3>3 DEF Quiet, Idle
      <4>2. IsFiniteSet(tx[e].new) /\ \A a \in tx[e].new : a.at \in Nat /\ a.at <= now
        BY <1>2, <2>0, <3>3, <4>1 DEF AlertsAreDated, Dated
      <4>3. \A a \in tx[e].new : a.at <= now'
        BY <2>0, <3>1, <4>2
      <4> QED BY <4>1, <4>2, <4>3
    <3>4. Dated(alerts)'
      BY <3>2 DEF Dated
    <3>5. \A e \in Evaluators : tx'[e].pc = "decided" => Dated(tx[e].new)'
      BY <3>3 DEF Dated
    <3> QED BY <3>4, <3>5 DEF AlertsAreDated
  <2>2. ASSUME NEW e \in Evaluators, NEW s \in Symbols, NEW c \in Candles, NEW o \in Outcomes,
               ReadSetup(e, s, c, o)
        PROVE  AlertsAreDated'
    <3>1. UNCHANGED <<now, alerts>> /\ tx'[e].pc = "read"
          /\ \A f \in Evaluators \ {e} : tx'[f] = tx[f]
      BY <1>2, <2>2 DEF ReadSetup, Inv, TxShape
    <3> QED BY <1>2, <3>1 DEF AlertsAreDated, Dated
  <2>3. ASSUME NEW e \in Evaluators, NEW withheld \in Withheld, Decide(e, withheld)
        PROVE  AlertsAreDated'
    <3>1. /\ UNCHANGED <<now, alerts>> /\ tx'[e].new = Decided(tx[e], withheld).new
          /\ \A f \in Evaluators \ {e} : tx'[f] = tx[f]
      BY <1>2, <2>3 DEF Decide, Inv, TxShape
    <3>2. ReadWell(tx[e]) /\ now \in Ticks /\ withheld \in BOOLEAN
      BY <1>2, <2>3, ConstantsAssumption, DecideOnCurrent DEF Decide, Inv, TypeOK
    <3>3. IsFiniteSet(tx'[e].new) /\ \A a \in tx'[e].new : a.at = now
      BY <3>1, <3>2, DecidedRows
    <3>4. Dated(tx[e].new)'
      BY <2>0, <3>1, <3>3 DEF Dated
    <3> QED BY <1>2, <3>1, <3>4 DEF AlertsAreDated, Dated
  <2>4. ASSUME NEW e \in Evaluators, Commit(e) PROVE AlertsAreDated'
    <3>1. /\ UNCHANGED now /\ alerts' = alerts \cup tx[e].new /\ tx[e].pc = "decided"
          /\ tx'[e].pc = "idle"
          /\ \A f \in Evaluators \ {e} : tx'[f] = tx[f]
      BY <1>2, <2>4 DEF Commit, Inv, TxShape, Idle
    <3>2. IsFiniteSet(alerts \cup tx[e].new)
      BY <1>2, <3>1, FS_Union DEF AlertsAreDated, Dated
    <3> QED BY <1>2, <3>1, <3>2 DEF AlertsAreDated, Dated
  <2> QED BY <1>2, <2>1, <2>2, <2>3, <2>4, QuietOrNot
<1> QED BY <1>1, <1>2, Invariant, PTL DEF Spec


----------------------------------------------------------------------------
(* What holds for a monitor that no experiment evaluates as well             *)

(* An evaluation is about a setup of its own monitor, and one that means to  *)
(* open a setup has no open one beside it.                                   *)
OpenTx(e) ==
    /\ tx[e].pc # "idle" => tx[e].id.monitor = e.monitor /\ tx[e].id.symbol = tx[e].symbol
    /\ (tx[e].pc = "read" /\ tx[e].seen = Absent) =>
          OpenSetups(e.monitor, tx[e].symbol) = {}
    /\ (tx[e].pc = "decided" /\ setups[tx[e].id] = Absent) =>
          OpenSetups(e.monitor, tx[e].symbol) = {}

OneOpen ==
    \A i, j \in SetupIds :
        (IsOpen(i) /\ IsOpen(j) /\ i.monitor = j.monitor /\ i.symbol = j.symbol) => i = j

OpenInv == OneOpen /\ \A e \in Evaluators : OpenTx(e)

LEMMA NoExperiment ==
    ASSUME ExperimentMonitors = {}, NEW e \in Evaluators, NEW f \in Evaluators,
           e.monitor = f.monitor
    PROVE  e = f
BY DEF Evaluators

LEMMA OpenInvariant ==
    ASSUME ExperimentMonitors = {}
    PROVE  Spec => []OpenInv
<1>1. Init => OpenInv
  BY DEF Init, OpenInv, OneOpen, OpenTx, IsOpen, Idle
<1>2. ASSUME Inv, OpenInv, [Next]_vars PROVE OpenInv'
  <2>1. CASE Quiet
    <3>1. OneOpen'
      BY <1>2, <2>1 DEF OpenInv, OneOpen, Quiet
    <3>2. ASSUME NEW e \in Evaluators PROVE OpenTx(e)'
      <4>1. CASE tx'[e] = Idle
        BY <4>1 DEF OpenTx, Idle
      <4>2. CASE tx'[e] = tx[e]
        <5>1. OpenTx(e)
          BY <1>2 DEF OpenInv
        <5>2. \A s : OpenSetups(e.monitor, s) = {} => OpenSetups(e.monitor, s)' = {}
          BY <2>1 DEF OpenSetups, Quiet
        <5>3. tx[e].pc = "decided" => tx[e].id \in SetupIds
          BY <1>2 DEF Inv, DecidedOK
        <5> QED BY <2>1, <4>2, <5>1, <5>2, <5>3 DEF OpenTx, Quiet
      <4> QED BY <2>1, <4>1, <4>2 DEF Quiet
    <3> QED BY <3>1, <3>2 DEF OpenInv
  <2>2. ASSUME NEW e \in Evaluators, NEW s \in Symbols, NEW c \in Candles, NEW o \in Outcomes,
               ReadSetup(e, s, c, o)
        PROVE  OpenInv'
    <3> DEFINE found == OpenSetups(e.monitor, s)
               id == IF found # {} THEN Newest(found)
                     ELSE [monitor |-> e.monitor, symbol |-> s, candle |-> c]
               seen == IF found # {} THEN setups[id] ELSE Absent
    <3>1. /\ UNCHANGED setups /\ tx'[e].pc = "read" /\ tx'[e].symbol = s
          /\ tx'[e].id = id /\ tx'[e].seen = seen
          /\ \A f \in Evaluators \ {e} : tx'[f] = tx[f]
      BY <1>2, <2>2 DEF ReadSetup, Inv, TxShape
    <3>2. found # {} => id \in found
      <4>1. found \in SUBSET SetupIds
        BY DEF OpenSetups
      <4> HIDE DEF found
      <4> QED BY <4>1, NewestExists
    <3>3. id.monitor = e.monitor /\ id.symbol = s
      BY <3>2 DEF OpenSetups
    <3>4. seen = Absent => found = {}
      BY <3>2 DEF OpenSetups, IsOpen
    <3> HIDE DEF id, seen
    <3>5. \A f \in Evaluators : \A z : OpenSetups(f.monitor, z)' = OpenSetups(f.monitor, z)
      BY <3>1 DEF OpenSetups, IsOpen
    <3>6. OpenTx(e)'
      BY <3>1, <3>3, <3>4, <3>5 DEF OpenTx
    <3>7. \A f \in Evaluators \ {e} : OpenTx(f)'
      BY <1>2, <3>1, <3>5 DEF OpenInv, OpenTx
    <3>8. OneOpen'
      BY <1>2, <3>1 DEF OpenInv, OneOpen, IsOpen
    <3> QED BY <3>6, <3>7, <3>8 DEF OpenInv
  <2>3. ASSUME NEW e \in Evaluators, NEW withheld \in Withheld, Decide(e, withheld)
        PROVE  OpenInv'
    <3>1. /\ UNCHANGED setups /\ tx[e].pc = "read" /\ tx'[e].pc = "decided"
          /\ tx'[e].symbol = tx[e].symbol /\ tx'[e].id = tx[e].id
          /\ \A f \in Evaluators \ {e} : tx'[f] = tx[f]
      BY <1>2, <2>3 DEF Decide, Inv, TxShape
    <3>2. tx[e].seen = setups[tx[e].id]
      BY <1>2, <2>3, DecideOnCurrent DEF Decide
    <3>3. \A f \in Evaluators : \A z : OpenSetups(f.monitor, z)' = OpenSetups(f.monitor, z)
      BY <3>1 DEF OpenSetups, IsOpen
    <3>4. \A f \in Evaluators : OpenTx(f)'
      BY <1>2, <3>1, <3>2, <3>3 DEF OpenInv, OpenTx
    <3>5. OneOpen'
      BY <1>2, <3>1 DEF OpenInv, OneOpen, IsOpen
    <3> QED BY <3>4, <3>5 DEF OpenInv
  <2>4. ASSUME NEW e \in Evaluators, Commit(e) PROVE OpenInv'
    <3>1. PICK i \in SetupIds : i = tx[e].id
      BY <1>2, <2>4 DEF Commit, Inv, DecidedOK
    <3>2. /\ tx[e].pc = "decided" /\ tx'[e] = Idle
          /\ \A f \in Evaluators \ {e} : tx'[f] = tx[f]
          /\ \A j \in SetupIds \ {i} : setups'[j] = setups[j]
          /\ setups'[i] # Absent
      <4>1. tx[e].row \in MadeRow
        BY <1>2, <2>4 DEF Commit, Inv, DecidedOK, Continues
      <4> QED BY <1>2, <2>4, <3>1, <4>1, StoredIsRow DEF Commit, Inv, TxShape, TypeOK
    <3>3. i.monitor = e.monitor /\ i.symbol = tx[e].symbol
      BY <1>2, <3>1, <3>2 DEF OpenInv, OpenTx
    <3>4. IsOpen(i) \/ OpenSetups(i.monitor, i.symbol) = {}
      BY <1>2, <3>1, <3>2, <3>3 DEF OpenInv, OpenTx, Inv, DecidedOK, Continues, IsOpen
    <3>5. \A j \in SetupIds \ {i} : IsOpen(j)' <=> IsOpen(j)
      BY <3>2 DEF IsOpen
    <3>6. OneOpen'
      <4> SUFFICES ASSUME NEW j \in SetupIds, NEW k \in SetupIds, IsOpen(j)', IsOpen(k)',
                          j.monitor = k.monitor, j.symbol = k.symbol, j # k
                   PROVE  FALSE
        BY DEF OneOpen
      <4>1. ASSUME NEW n \in SetupIds \ {i}, IsOpen(n), n.monitor = i.monitor,
                   n.symbol = i.symbol
            PROVE  FALSE
        <5>1. n \in OpenSetups(i.monitor, i.symbol)
          BY <4>1 DEF OpenSetups
        <5>2. IsOpen(i)
          BY <3>4, <5>1
        <5> QED BY <1>2, <4>1, <5>2 DEF OpenInv, OneOpen
      <4> QED BY <1>2, <3>5, <4>1 DEF OpenInv, OneOpen
    <3>7. ASSUME NEW f \in Evaluators \ {e} PROVE OpenTx(f)'
      <4>1. f.monitor # i.monitor
        BY <3>3, NoExperiment
      <4>2. OpenTx(f) /\ tx'[f] = tx[f]
        BY <1>2, <3>2 DEF OpenInv
      <4>3. \A z : OpenSetups(f.monitor, z)' = OpenSetups(f.monitor, z)
        BY <3>5, <4>1 DEF OpenSetups
      <4>4. tx[f].pc = "decided" => tx[f].id \in SetupIds \ {i}
        BY <1>2, <4>1, <4>2 DEF Inv, DecidedOK, OpenTx
      <4> QED BY <3>2, <4>2, <4>3, <4>4 DEF OpenTx
    <3>8. OpenTx(e)'
      BY <3>2 DEF OpenTx, Idle
    <3> QED BY <3>6, <3>7, <3>8 DEF OpenInv
  <2> QED BY <1>2, <2>1, <2>2, <2>3, <2>4, QuietOrNot
<1> QED BY <1>1, <1>2, Invariant, PTL DEF Spec

(* One symbol of a monitor has one open setup at a time, if no experiment    *)
(* evaluates the monitor beside its live checks.                             *)
THEOREM OneOpenSetupCorrect ==
    ASSUME ExperimentMonitors = {}
    PROVE  Spec => []OneOpenSetup
<1>1. OpenInv => OneOpenSetup
  BY DEF OpenInv, OneOpen, OneOpenSetup, Setups, IsOpen
<1> QED BY <1>1, OpenInvariant, PTL


----------------------------------------------------------------------------
(* The pace limits                                                           *)

(* The alerts of a monitor in the window that ends with one of them, and     *)
(* what a new alert finds before it.                                         *)
Window(a, ticks) ==
    {b \in EventAlerts : b.monitor = a.monitor /\ b.at <= a.at /\ b.at >= a.at - ticks}

Paced(a) ==
    /\ \A b \in EventAlerts : b.monitor = a.monitor => b.at <= a.at
    /\ Cardinality(Window(a, HourTicks)) < HourlyMax
    /\ Cardinality(Window(a, DayTicks)) < DailyBudget
    /\ CooldownTicks > 0 => \A b \in Window(a, CooldownTicks) : b.key.symbol # a.key.symbol

OneEvent(rows) == \A a, b \in EventsIn(rows) : a = b

PaceInv ==
    /\ PaceHolds
    /\ \A e \in Evaluators : tx[e].pc = "decided" =>
          OneEvent(tx[e].new) /\ \A a \in EventsIn(tx[e].new) : Paced(a)

LEMMA LimitsAreNaturals ==
    /\ HourTicks \in Nat /\ DayTicks \in Nat /\ CooldownTicks \in Nat
    /\ HourlyMax \in Nat /\ DailyBudget \in Nat /\ WeeklyBudget \in Nat
BY ConstantsAssumption

LEMMA RoomForOne ==
    ASSUME NEW S, IsFiniteSet(S), NEW limit \in Nat, Cardinality(S) < limit, NEW a,
           NEW T \in SUBSET (S \cup {a})
    PROVE  Cardinality(T) <= limit
<1>1. /\ IsFiniteSet(S \cup {a}) /\ Cardinality(S) \in Nat
      /\ Cardinality(S \cup {a}) <= Cardinality(S) + 1
  BY FS_AddElement, FS_CardinalityType
<1>2. Cardinality(T) <= Cardinality(S \cup {a}) /\ IsFiniteSet(T)
  BY <1>1, FS_Subset
<1>3. Cardinality(T) \in Nat /\ Cardinality(S \cup {a}) \in Nat
  BY <1>1, <1>2, FS_CardinalityType
<1> QED BY <1>1, <1>2, <1>3

LEMMA NotFull ==
    ASSUME NEW S, IsFiniteSet(S), NEW limit \in Nat, ~ Full(S, limit), NEW T \in SUBSET S
    PROVE  Cardinality(T) < limit
<1>1. Cardinality(T) <= Cardinality(S) /\ IsFiniteSet(T)
  BY FS_Subset
<1>2. Cardinality(T) \in Nat /\ Cardinality(S) \in Nat
  BY <1>1, FS_CardinalityType
<1> QED BY <1>1, <1>2 DEF Full

LEMMA AlertTimes ==
    ASSUME Inv
    PROVE  /\ \A a \in alerts : a.at \in Nat
           /\ \A e \in Evaluators : tx[e].pc = "decided" => \A a \in tx[e].new : a.at \in Nat
<1>1. \A a \in AlertRows : a.at \in Nat
  BY TicksAreNaturals DEF AlertRows
<1> QED BY <1>1 DEF Inv, TypeOK, DecidedOK, Announces

(* An alert is decided on when none of the limits is reached.                *)
LEMMA DecidedIsPaced ==
    ASSUME Inv, AlertsAreDated, NEW me, ReadWell(me), NEW withheld \in BOOLEAN,
           Refusal(me) = "none"
    PROVE  Paced(AlertRow(me, EventKey(me), withheld))
<1> DEFINE a == AlertRow(me, EventKey(me), withheld)
<1>1. a.monitor = me.id.monitor /\ a.at = now /\ a.key.symbol = me.symbol
  BY DEF AlertRow, EventKey
<1>2. /\ ~ CoolingDown(me) /\ ~ Full(Recent(me.id.monitor, HourTicks), HourlyMax)
      /\ ~ Full(Recent(me.id.monitor, DayTicks), DailyBudget)
  BY DEF Refusal
<1> HIDE DEF a
<1>3. \A ticks : Window(a, ticks) \subseteq Recent(me.id.monitor, ticks)
  BY <1>1 DEF Window, Recent, EventAlerts
<1>4. \A ticks : IsFiniteSet(Recent(me.id.monitor, ticks))
  <2> TAKE ticks
  <2>1. Recent(me.id.monitor, ticks) \in SUBSET alerts
    BY DEF Recent
  <2> QED BY <2>1, FS_Subset DEF AlertsAreDated, Dated
<1>5. Cardinality(Window(a, HourTicks)) < HourlyMax
  BY <1>2, <1>3, <1>4, NotFull, LimitsAreNaturals
<1>6. Cardinality(Window(a, DayTicks)) < DailyBudget
  BY <1>2, <1>3, <1>4, NotFull, LimitsAreNaturals
<1>7. CooldownTicks > 0 => \A b \in Window(a, CooldownTicks) : b.key.symbol # a.key.symbol
  BY <1>1, <1>2, <1>3 DEF CoolingDown
<1>8. \A b \in EventAlerts : b.at <= a.at
  BY <1>1 DEF EventAlerts, AlertsAreDated, Dated
<1> QED BY <1>5, <1>6, <1>7, <1>8 DEF Paced, a

(* Adding an alert that is paced keeps every window within its limit.        *)
LEMMA PaceStep ==
    ASSUME PaceHolds, IsFiniteSet(alerts), \A b \in alerts : b.at \in Nat,
           NEW a, a.at \in Nat, Paced(a), EventAlerts' = EventAlerts \cup {a}
    PROVE  PaceHolds'
<1>0. IsFiniteSet(EventAlerts) /\ EventAlerts \subseteq alerts
  <2>1. EventAlerts \in SUBSET alerts
    BY DEF EventAlerts
  <2> QED BY <2>1, FS_Subset
<1> DEFINE W(c, ticks) ==
              {b \in EventAlerts' : b.monitor = c.monitor /\ b.at <= c.at /\ b.at >= c.at - ticks}
<1>1. ASSUME NEW c \in EventAlerts',
             c = a \/ (c.monitor = a.monitor /\ c.at = a.at)
      PROVE  \A ticks : W(c, ticks) \subseteq Window(a, ticks) \cup {a}
  BY <1>1 DEF Window
<1>2. ASSUME NEW c \in EventAlerts', c # a, ~ (c.monitor = a.monitor /\ c.at = a.at)
      PROVE  c \in EventAlerts /\ \A ticks : W(c, ticks) = Window(c, ticks)
  <2>1. c \in EventAlerts
    BY <1>2
  <2>2. c.monitor = a.monitor => c.at < a.at
    BY <1>0, <1>2, <2>1 DEF Paced
  <2>3. ~ (a.monitor = c.monitor /\ a.at <= c.at)
    BY <1>0, <2>1, <2>2
  <2> QED BY <2>1, <2>3 DEF Window
<1>3. \A ticks : IsFiniteSet(Window(a, ticks))
  <2> TAKE ticks
  <2>1. Window(a, ticks) \in SUBSET EventAlerts
    BY DEF Window
  <2> QED BY <2>1, <1>0, FS_Subset
<1> SUFFICES ASSUME NEW c \in EventAlerts'
             PROVE  /\ Cardinality(W(c, HourTicks)) <= HourlyMax
                    /\ Cardinality(W(c, DayTicks)) <= DailyBudget
                    /\ CooldownTicks > 0 =>
                          \A b \in W(c, CooldownTicks) \ {c} : b.key.symbol # c.key.symbol
  BY DEF PaceHolds
<1>4. CASE c = a \/ (c.monitor = a.monitor /\ c.at = a.at)
  <2> HIDE DEF W
  <2>1. Cardinality(W(c, HourTicks)) <= HourlyMax
    <3>1. W(c, HourTicks) \in SUBSET (Window(a, HourTicks) \cup {a})
      BY <1>1, <1>4
    <3>2. IsFiniteSet(Window(a, HourTicks)) /\ Cardinality(Window(a, HourTicks)) < HourlyMax
      BY <1>3 DEF Paced
    <3>3. HourlyMax \in Nat
      BY LimitsAreNaturals
    <3> QED BY <3>1, <3>2, <3>3, RoomForOne
  <2>2. Cardinality(W(c, DayTicks)) <= DailyBudget
    <3>1. W(c, DayTicks) \in SUBSET (Window(a, DayTicks) \cup {a})
      BY <1>1, <1>4
    <3>2. IsFiniteSet(Window(a, DayTicks)) /\ Cardinality(Window(a, DayTicks)) < DailyBudget
      BY <1>3 DEF Paced
    <3>3. DailyBudget \in Nat
      BY LimitsAreNaturals
    <3> QED BY <3>1, <3>2, <3>3, RoomForOne
  <2>3. ASSUME CooldownTicks > 0, NEW b \in W(c, CooldownTicks) \ {c}
        PROVE  b.key.symbol # c.key.symbol
    <3>1. b \in Window(a, CooldownTicks) \cup {a}
      BY <1>1, <1>4, <2>3
    <3>2. CASE c = a
      BY <2>3, <3>1, <3>2 DEF Paced
    <3>3. CASE c # a
      <4>1. c \in EventAlerts /\ c.monitor = a.monitor /\ c.at = a.at
        BY <1>4, <3>3
      <4>2. c \in Window(a, CooldownTicks)
        BY <1>0, <4>1, LimitsAreNaturals DEF Window
      <4>3. CASE b = a
        BY <2>3, <4>2, <4>3 DEF Paced
      <4>4. CASE b # a
        <5>1. b \in Window(c, CooldownTicks) \ {c}
          BY <2>3, <3>1, <4>1, <4>4 DEF Window
        <5> QED BY <2>3, <4>1, <5>1 DEF PaceHolds, Window
      <4> QED BY <4>3, <4>4
    <3> QED BY <3>2, <3>3
  <2> QED BY <2>1, <2>2, <2>3
<1>5. CASE c # a /\ ~ (c.monitor = a.monitor /\ c.at = a.at)
  <2>1. c \in EventAlerts /\ \A ticks : W(c, ticks) = Window(c, ticks)
    BY <1>2, <1>5
  <2> HIDE DEF W
  <2> QED BY <2>1 DEF PaceHolds, Window
<1> QED BY <1>4, <1>5


(* What a commit adds to the event alerts.                                   *)
LEMMA CommitEvents ==
    ASSUME Inv, NEW e \in Evaluators, Commit(e)
    PROVE  /\ EventAlerts' = EventAlerts \cup EventsIn(tx[e].new)
           /\ tx[e].pc = "decided" /\ tx'[e] = Idle
           /\ \A f \in Evaluators \ {e} : tx'[f] = tx[f]
           /\ \A a \in EventsIn(tx[e].new) :
                 a \in tx[e].new /\ a.at \in Nat /\ a.monitor = tx[e].id.monitor
<1>1. /\ alerts' = alerts \cup tx[e].new /\ tx[e].pc = "decided" /\ tx'[e] = Idle
      /\ \A f \in Evaluators \ {e} : tx'[f] = tx[f]
  BY DEF Commit, Inv, TxShape
<1>2. EventAlerts' = EventAlerts \cup EventsIn(tx[e].new)
  BY <1>1 DEF EventAlerts, EventsIn
<1>3. \A a \in EventsIn(tx[e].new) :
         a \in tx[e].new /\ a.at \in Nat /\ a.monitor = tx[e].id.monitor
  BY <1>1, AlertTimes DEF EventsIn, Inv, DecidedOK, Announces
<1> QED BY <1>1, <1>2, <1>3

(* What an evaluation decides on: at most one event alert, and that one only *)
(* when no limit was reached.                                                *)
LEMMA DecideEvents ==
    ASSUME Inv, NEW e \in Evaluators, NEW withheld \in Withheld, Decide(e, withheld)
    PROVE  /\ UNCHANGED alerts
           /\ \A f \in Evaluators \ {e} : tx'[f] = tx[f]
           /\ ReadWell(tx[e]) /\ withheld \in BOOLEAN
           /\ \/ EventsIn(tx'[e].new) = {}
              \/ /\ EventsIn(tx'[e].new) = {AlertRow(tx[e], EventKey(tx[e]), withheld)}
                 /\ Refusal(tx[e]) = "none"
<1>1. /\ UNCHANGED alerts /\ tx'[e].new = Decided(tx[e], withheld).new
      /\ \A f \in Evaluators \ {e} : tx'[f] = tx[f]
  BY DEF Decide, Inv, TxShape
<1>2. ReadWell(tx[e]) /\ now \in Ticks /\ withheld \in BOOLEAN
  BY ConstantsAssumption, DecideOnCurrent DEF Decide, Inv, TypeOK
<1> DEFINE a == AlertRow(tx[e], EventKey(tx[e]), withheld)
<1>3. a.key.of = "event"
  BY DEF AlertRow, EventKey
<1> HIDE DEF a
<1>4. EventsIn({a}) = {a}
  BY <1>3 DEF EventsIn
<1>5. \/ EventsIn(tx'[e].new) = {}
      \/ tx'[e].new = {a} /\ Refusal(tx[e]) = "none"
  BY <1>1, <1>2, DecidedRows DEF a
<1> QED BY <1>1, <1>2, <1>4, <1>5 DEF a

LEMMA PaceInvariant ==
    ASSUME ExperimentMonitors = {}
    PROVE  Spec => []PaceInv
<1>1. Init => PaceInv
  BY DEF Init, PaceInv, PaceHolds, EventAlerts, Idle
<1>2. ASSUME Inv, AlertsAreDated, OpenInv, PaceInv, [Next]_vars PROVE PaceInv'
  <2>0. ASSUME UNCHANGED alerts
        PROVE  PaceHolds' /\ \A a : Paced(a) => Paced(a)'
    <3>1. EventAlerts' = EventAlerts
      BY <2>0 DEF EventAlerts
    <3>2. \A a : Paced(a) => Paced(a)'
      BY <3>1 DEF Paced, Window
    <3>3. PaceHolds'
      BY <1>2, <3>1 DEF PaceInv, PaceHolds
    <3> QED BY <3>2, <3>3
  <2>1. CASE Quiet
    <3>1. UNCHANGED alerts /\ \A f \in Evaluators : tx'[f] = tx[f] \/ tx'[f].pc = "idle"
      BY <2>1 DEF Quiet, Idle
    <3> QED BY <1>2, <2>0, <3>1 DEF PaceInv
  <2>2. ASSUME NEW e \in Evaluators, NEW s \in Symbols, NEW c \in Candles, NEW o \in Outcomes,
               ReadSetup(e, s, c, o)
        PROVE  PaceInv'
    <3>1. UNCHANGED alerts /\ tx'[e].pc = "read"
          /\ \A f \in Evaluators \ {e} : tx'[f] = tx[f]
      BY <1>2, <2>2 DEF ReadSetup, Inv, TxShape
    <3> QED BY <1>2, <2>0, <3>1 DEF PaceInv
  <2>3. ASSUME NEW e \in Evaluators, NEW withheld \in Withheld, Decide(e, withheld)
        PROVE  PaceInv'
    <3>1. /\ UNCHANGED alerts
          /\ \A f \in Evaluators \ {e} : tx'[f] = tx[f]
      BY <1>2, <2>3, DecideEvents
    <3>2. OneEvent(tx'[e].new) /\ \A a \in EventsIn(tx'[e].new) : Paced(a)
      BY <1>2, <2>3, DecideEvents, DecidedIsPaced DEF OneEvent
    <3> QED BY <1>2, <2>0, <3>1, <3>2 DEF PaceInv
  <2>4. ASSUME NEW e \in Evaluators, Commit(e) PROVE PaceInv'
    <3> DEFINE events == EventsIn(tx[e].new)
    <3>1. /\ EventAlerts' = EventAlerts \cup events
          /\ tx[e].pc = "decided" /\ tx'[e] = Idle
          /\ \A f \in Evaluators \ {e} : tx'[f] = tx[f]
          /\ \A a \in events : a.at \in Nat /\ a.monitor = tx[e].id.monitor
      BY <1>2, <2>4, CommitEvents
    <3>2. tx[e].id.monitor = e.monitor
      BY <1>2, <3>1 DEF OpenInv, OpenTx
    <3>3. (\A a, b \in events : a = b) /\ \A a \in events : Paced(a)
      BY <1>2, <3>1 DEF PaceInv, OneEvent
    <3> HIDE DEF events
    <3>4. PaceHolds'
      <4>1. CASE events = {}
        BY <1>2, <3>1, <4>1 DEF PaceInv, PaceHolds
      <4>2. CASE events # {}
        <5>1. PICK a \in events : TRUE
          BY <4>2
        <5>2. EventAlerts' = EventAlerts \cup {a} /\ a.at \in Nat /\ Paced(a)
          BY <3>1, <3>3, <5>1
        <5>3. PaceHolds /\ IsFiniteSet(alerts) /\ \A b \in alerts : b.at \in Nat
          BY <1>2, AlertTimes DEF PaceInv, AlertsAreDated, Dated
        <5> QED BY <5>2, <5>3, PaceStep
      <4> QED BY <4>1, <4>2
    <3>5. ASSUME NEW f \in Evaluators \ {e}, tx[f].pc = "decided",
                 NEW b \in EventsIn(tx[f].new)
          PROVE  Paced(b)'
      <4>1. f.monitor # e.monitor
        BY NoExperiment
      <4>2. b.monitor = f.monitor
        <5>1. tx[f].id.monitor = f.monitor
          BY <1>2, <3>5 DEF OpenInv, OpenTx
        <5>2. b.monitor = tx[f].id.monitor
          BY <1>2, <3>5 DEF Inv, DecidedOK, Announces, EventsIn
        <5> QED BY <5>1, <5>2
      <4>3. Paced(b)
        BY <1>2, <3>5 DEF PaceInv
      <4>4. \A c \in EventAlerts' : c.monitor = b.monitor => c \in EventAlerts
        BY <3>1, <3>2, <4>1, <4>2
      <4>5. \A ticks : Window(b, ticks)' = Window(b, ticks)
        BY <3>1, <4>4 DEF Window
      <4> QED BY <4>3, <4>4, <4>5 DEF Paced
    <3>6. tx'[e].pc = "idle"
      BY <3>1 DEF Idle
    <3>7. \A f \in Evaluators : tx'[f].pc = "decided" =>
             f \in Evaluators \ {e} /\ tx'[f] = tx[f]
      BY <3>1, <3>6
    <3>8. \A f \in Evaluators : tx'[f].pc = "decided" =>
             OneEvent(tx'[f].new) /\ \A b \in EventsIn(tx'[f].new) : Paced(b)'
      BY <1>2, <3>5, <3>7 DEF PaceInv
    <3> QED BY <3>4, <3>8 DEF PaceInv
  <2> QED BY <1>2, <2>1, <2>2, <2>3, <2>4, QuietOrNot
<1> QED BY <1>1, <1>2, Invariant, AlertsAreDatedInv, OpenInvariant, PTL DEF Spec

(* The cooldown of a symbol and a monitor's limits for the hour and the day  *)
(* hold for every alert, if no experiment evaluates the monitor beside its   *)
(* live checks.                                                              *)
THEOREM PaceHoldsCorrect ==
    ASSUME ExperimentMonitors = {}
    PROVE  Spec => []PaceHolds
<1>1. PaceInv => PaceHolds
  BY DEF PaceInv
<1> QED BY <1>1, PaceInvariant, PTL


----------------------------------------------------------------------------
(* The week of the plan                                                      *)

OfWeek(w) == {a \in EventAlerts : ~a.withheld /\ a.at \div WeekTicks = w}

(* An alert decided on finds room in its week.                               *)
HasRoom(a) == Cardinality(OfWeek(a.at \div WeekTicks)) < WeeklyBudget

WeekInv ==
    /\ \A w : Cardinality(OfWeek(w)) <= WeeklyBudget
    /\ \A e \in Evaluators : tx[e].pc = "decided" =>
          OneEvent(tx[e].new) /\ \A a \in EventsIn(tx[e].new) : HasRoom(a)

LEMMA WeeksAreFinite ==
    ASSUME AlertsAreDated
    PROVE  \A w : IsFiniteSet(OfWeek(w))
<1> SUFFICES ASSUME NEW w PROVE IsFiniteSet(OfWeek(w))
  OBVIOUS
<1>1. OfWeek(w) \in SUBSET alerts
  BY DEF OfWeek, EventAlerts
<1> QED BY <1>1, FS_Subset DEF AlertsAreDated, Dated

LEMMA DecidedHasRoom ==
    ASSUME AlertsAreDated, NEW me, NEW withheld, Refusal(me) = "none"
    PROVE  HasRoom(AlertRow(me, EventKey(me), withheld))
<1>1. ~ Full(SentThisWeek, WeeklyBudget)
  BY DEF Refusal
<1>2. AlertRow(me, EventKey(me), withheld).at = now
  BY DEF AlertRow
<1>3. OfWeek(now \div WeekTicks) \in SUBSET SentThisWeek
  BY DEF OfWeek, SentThisWeek, Week, EventAlerts
<1>4. IsFiniteSet(SentThisWeek)
  <2>1. SentThisWeek \in SUBSET alerts
    BY DEF SentThisWeek
  <2> QED BY <2>1, FS_Subset DEF AlertsAreDated, Dated
<1>5. Cardinality(OfWeek(now \div WeekTicks)) < WeeklyBudget
  BY <1>1, <1>3, <1>4, NotFull, LimitsAreNaturals
<1> QED BY <1>2, <1>5 DEF HasRoom

LEMMA WeekInvariant ==
    ASSUME \A e, f \in Evaluators : e = f
    PROVE  Spec => []WeekInv
<1>1. Init => WeekInv
  <2>1. ASSUME Init, NEW w PROVE Cardinality(OfWeek(w)) <= WeeklyBudget
    <3>1. OfWeek(w) = {}
      BY <2>1 DEF Init, OfWeek, EventAlerts
    <3> QED BY <3>1, FS_EmptySet, LimitsAreNaturals
  <2>2. Init => \A e \in Evaluators : tx[e].pc # "decided"
    BY DEF Init, Idle
  <2>3. Init => \A w : Cardinality(OfWeek(w)) <= WeeklyBudget
    BY <2>1
  <2> QED BY <2>2, <2>3 DEF WeekInv
<1>2. ASSUME Inv, AlertsAreDated, WeekInv, [Next]_vars PROVE WeekInv'
  <2>0. ASSUME UNCHANGED alerts
        PROVE  /\ \A w : OfWeek(w)' = OfWeek(w)
               /\ \A a : HasRoom(a) => HasRoom(a)'
    <3>1. \A w : OfWeek(w)' = OfWeek(w)
      BY <2>0 DEF EventAlerts, OfWeek
    <3> QED BY <3>1 DEF HasRoom
  <2>1. CASE Quiet
    <3>1. UNCHANGED alerts /\ \A f \in Evaluators : tx'[f] = tx[f] \/ tx'[f].pc = "idle"
      BY <2>1 DEF Quiet, Idle
    <3> QED BY <1>2, <2>0, <3>1 DEF WeekInv
  <2>2. ASSUME NEW e \in Evaluators, NEW s \in Symbols, NEW c \in Candles, NEW o \in Outcomes,
               ReadSetup(e, s, c, o)
        PROVE  WeekInv'
    <3>1. UNCHANGED alerts /\ tx'[e].pc = "read"
          /\ \A f \in Evaluators \ {e} : tx'[f] = tx[f]
      BY <1>2, <2>2 DEF ReadSetup, Inv, TxShape
    <3> QED BY <1>2, <2>0, <3>1 DEF WeekInv
  <2>3. ASSUME NEW e \in Evaluators, NEW withheld \in Withheld, Decide(e, withheld)
        PROVE  WeekInv'
    <3>1. /\ UNCHANGED alerts
          /\ \A f \in Evaluators \ {e} : tx'[f] = tx[f]
      BY <1>2, <2>3, DecideEvents
    <3>2. OneEvent(tx'[e].new) /\ \A a \in EventsIn(tx'[e].new) : HasRoom(a)
      BY <1>2, <2>3, DecideEvents, DecidedHasRoom DEF OneEvent
    <3> QED BY <1>2, <2>0, <3>1, <3>2 DEF WeekInv
  <2>4. ASSUME NEW e \in Evaluators, Commit(e) PROVE WeekInv'
    <3> DEFINE events == EventsIn(tx[e].new)
    <3>1. /\ EventAlerts' = EventAlerts \cup events
          /\ tx[e].pc = "decided" /\ tx'[e] = Idle
      BY <1>2, <2>4, CommitEvents
    <3>2. (\A a, b \in events : a = b) /\ \A a \in events : HasRoom(a)
      BY <1>2, <3>1 DEF WeekInv, OneEvent
    <3> HIDE DEF events
    <3>3. ASSUME NEW w PROVE Cardinality(OfWeek(w)') <= WeeklyBudget
      <4>1. CASE \E a \in events : a.at \div WeekTicks = w
        <5>1. PICK a \in events : a.at \div WeekTicks = w
          BY <4>1
        <5>2. OfWeek(w)' \in SUBSET (OfWeek(w) \cup {a})
          BY <3>1, <3>2, <5>1 DEF OfWeek
        <5>3. IsFiniteSet(OfWeek(w)) /\ Cardinality(OfWeek(w)) < WeeklyBudget
          BY <1>2, <3>2, <5>1, WeeksAreFinite DEF HasRoom
        <5>4. WeeklyBudget \in Nat
          BY LimitsAreNaturals
        <5> QED BY <5>2, <5>3, <5>4, RoomForOne
      <4>2. CASE \A a \in events : a.at \div WeekTicks # w
        <5>1. OfWeek(w)' = OfWeek(w)
          BY <3>1, <4>2 DEF OfWeek
        <5> QED BY <1>2, <5>1 DEF WeekInv
      <4> QED BY <4>1, <4>2
    <3>4. \A f \in Evaluators : tx'[f].pc = "idle"
      BY <3>1 DEF Idle
    <3> QED BY <3>3, <3>4 DEF WeekInv
  <2> QED BY <1>2, <2>1, <2>2, <2>3, <2>4, QuietOrNot
<1> QED BY <1>1, <1>2, Invariant, AlertsAreDatedInv, PTL DEF Spec

(* The plan's week is never overspent on alerts that can reach the user, if  *)
(* the user's evaluations run one at a time.                                 *)
THEOREM WeekBudgetHoldsCorrect ==
    ASSUME \A e, f \in Evaluators : e = f
    PROVE  Spec => []WeekBudgetHolds
<1>1. WeekInv => WeekBudgetHolds
  BY DEF WeekInv, WeekBudgetHolds, OfWeek
<1> QED BY <1>1, WeekInvariant, PTL

=============================================================================
