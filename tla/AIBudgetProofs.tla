--------------------------- MODULE AIBudgetProofs ---------------------------
(***************************************************************************)
(* Theorems about AIBudget, for every number of turns, users, sweeps,       *)
(* ceilings, days and crashes.                                              *)
(*                                                                         *)
(* A transaction sees the ledger with its own writes laid over it.  The     *)
(* argument is that the counters it has locked agree with the reservations  *)
(* as it sees them: nobody else can write a counter it holds, and whoever   *)
(* writes a reservation holds all of its windows.                           *)
(***************************************************************************)
EXTENDS AIBudget, FiniteSetTheorems, TLAPS

Tx == [held : SUBSET Windows,
       counters : [Windows -> Counter],
       rows : [Keys -> Reservation \cup {Absent}]]

(* The reservations as a transaction sees them.                              *)
Overlay(me, rs) == [k \in Keys |-> IF me.rows[k] # Absent THEN me.rows[k] ELSE rs[k]]

AgainstIn(rs, w) == {k \in Keys : rs[k] # Absent /\ w \in WindowsOf(k, rs[k])}
PromisedIn(rs, w) == {k \in AgainstIn(rs, w) : rs[k].state = "reserved"}
ChargedIn(rs, w) == {k \in AgainstIn(rs, w) : rs[k].charge[Unit(w)] = 1}

(* No turn outlasts its claim or its reservation, and no two sweeps overlap. *)
Orderly == ~ MayOverrun /\ \A a, b \in Sweeps : a = b

Exact(c, rs, w) ==
    /\ c.reserved = Cardinality(PromisedIn(rs, w))
    /\ c.spent = Cardinality(ChargedIn(rs, w))
    /\ Limit[w.scope] # Absent => c.spent + c.reserved <= Limit[w.scope]

Backed(c, rs, w) ==
    /\ c.reserved <= Cardinality(PromisedIn(rs, w))
    /\ Orderly => Exact(c, rs, w)

(* What a transaction has written: it holds the windows of every reservation *)
(* it wrote, never moves one to another day, and its counters are backed.    *)
MineOK(me, rs) ==
    /\ \A k \in Keys :
          me.rows[k] # Absent =>
              /\ WindowsOf(k, me.rows[k]) \subseteq me.held
              /\ rs[k] # Absent => rs[k].day = me.rows[k].day
    /\ \A w \in me.held : Backed(me.counters[w], Overlay(me, rs), w)

Apart(me, other) ==
    /\ me.held \cap other.held = {}
    /\ \A k \in Keys : (me.rows[k] # Absent /\ other.rows[k] # Absent)
                           => me.rows[k].day = other.rows[k].day

LedgerType ==
    /\ counters \in [Windows -> Counter]
    /\ rows \in [Keys -> Reservation \cup {Absent}]
    /\ tx \in [Procs -> Tx]

Ledger ==
    /\ \A p, q \in Procs : p # q => Apart(tx[p], tx[q])
    /\ \A p \in Procs : MineOK(tx[p], rows)
    /\ \A w \in Windows : Backed(counters[w], rows, w)

(* A turn that calls the provider has a reservation, and one that has yet to *)
(* reserve has written none; a sweep works on rows that exist.               *)
Working == {"calling", "answered", "settling"}
Selected(s) == (sweep[s].todo \cup {sweep[s].key}) \ {Absent}

TurnOK(t) ==
    /\ turn[t].at \in Working => Overlay(tx[t], rows)[Key(t)] # Absent
    /\ turn[t].at \in {"idle", "reserving"} => \A k \in Keys : tx[t].rows[k] = Absent

SweepOK(s) == \A k \in Selected(s) : rows[k] # Absent

Control == (\A t \in Turns : TurnOK(t)) /\ (\A s \in Sweeps : SweepOK(s))

(* Without overruns a key is worked on by one turn or by the sweep, and what *)
(* either is about to settle is still reserved and was not charged.          *)
Uncharged(rs) ==
    \A k \in Keys : (rs[k] # Absent /\ rs[k].state = "reserved") => rs[k].charge = NoCharge

TurnAlone(t) ==
    /\ Live(t) => Key(t) \notin lapsed
    /\ \A o \in Turns : (Live(t) /\ Live(o) /\ Key(o) = Key(t)) => o = t
    /\ turn[t].at = "settling" => Overlay(tx[t], rows)[Key(t)].state = "reserved"
    /\ \A k \in Keys : tx[t].rows[k] # Absent => Live(t) /\ k = Key(t)

SweepAlone(s) ==
    /\ sweep[s].key = Absent =>
           sweep[s].todo = {} /\ \A k \in Keys : tx[s].rows[k] = Absent
    /\ \A k \in Keys : tx[s].rows[k] # Absent => k \in lapsed
    /\ sweep[s].key \notin sweep[s].todo
    /\ \A k \in Selected(s) :
           k \in lapsed /\ rows[k].state = "reserved" /\ tx[s].rows[k] = Absent

OneAtATime ==
    /\ Uncharged(rows)
    /\ \A p \in Procs : Uncharged(tx[p].rows)
    /\ \A t \in Turns : TurnAlone(t)
    /\ \A s \in Sweeps : SweepAlone(s)

Inv == TypeOK /\ Ledger /\ Control /\ (Orderly => OneAtATime)

----------------------------------------------------------------------------
(* Windows and sums                                                          *)

(* The windows of a reservation are windows.                                 *)
LEMMA WindowsForType ==
    ASSUME NEW u \in Users, NEW d \in 1 .. Days
    PROVE  WindowsFor[u][d] \subseteq Windows
BY DEF Windows

LEMMA WindowsOfType ==
    ASSUME NEW k \in Keys, NEW r \in Reservation
    PROVE  WindowsOf(k, r) \subseteq Windows
<1>1. UserOf[k] \in Users /\ r.day \in 1 .. Days
  BY ConstantsAssumption DEF Reservation
<1> QED BY <1>1, WindowsForType DEF WindowsOf

LEMMA WindowScope ==
    ASSUME NEW w \in Windows
    PROVE  w.scope \in Scopes
<1>1. PICK u \in Users, d \in 1 .. Days : w \in WindowsFor[u][d]
  BY DEF Windows
<1> QED BY <1>1 DEF WindowsFor

LEMMA SumsAreFinite ==
    ASSUME NEW rs, NEW w
    PROVE  /\ IsFiniteSet(PromisedIn(rs, w)) /\ Cardinality(PromisedIn(rs, w)) \in Nat
           /\ IsFiniteSet(ChargedIn(rs, w)) /\ Cardinality(ChargedIn(rs, w)) \in Nat
<1>1. PromisedIn(rs, w) \subseteq Keys /\ ChargedIn(rs, w) \subseteq Keys
  BY DEF PromisedIn, ChargedIn, AgainstIn
<1>2. IsFiniteSet(Keys)
  BY ConstantsAssumption
<1> QED BY <1>1, <1>2, FS_Subset, FS_CardinalityType

(* Two ledgers that agree on every reservation against a window back the     *)
(* same counters of it.                                                      *)
LEMMA SameBacking ==
    ASSUME NEW c, NEW rs, NEW ss, NEW w,
           \A k \in Keys : \/ rs[k] = ss[k]
                           \/ k \notin AgainstIn(rs, w) /\ k \notin AgainstIn(ss, w)
    PROVE  Backed(c, rs, w) <=> Backed(c, ss, w)
<1>1. PromisedIn(rs, w) = PromisedIn(ss, w)
  BY DEF PromisedIn, AgainstIn
<1>2. ChargedIn(rs, w) = ChargedIn(ss, w)
  BY DEF ChargedIn, AgainstIn
<1> QED BY <1>1, <1>2 DEF Backed, Exact

----------------------------------------------------------------------------
(* Transactions                                                              *)

(* A process changes what its transaction has locked and written.            *)
LEMMA Rewriting ==
    ASSUME TypeOK, Ledger, NEW p \in Procs, NEW me \in Tx,
           tx' = [tx EXCEPT ![p] = me], UNCHANGED ledger,
           MineOK(me, rows),
           \A q \in Procs \ {p} : Apart(me, tx[q])
    PROVE  LedgerType' /\ Ledger'
<1>1. tx \in [Procs -> Tx]
  BY DEF TypeOK, Tx
<1>2. LedgerType'
  BY <1>1 DEF LedgerType, TypeOK, ledger
<1>3. \A q \in Procs : tx'[q] = IF q = p THEN me ELSE tx[q]
  BY <1>1
<1>4. ASSUME NEW q \in Procs, NEW r \in Procs, q # r
      PROVE  Apart(tx'[q], tx'[r])
  <2>1. CASE q = p
    BY <2>1, <1>3, <1>4
  <2>2. CASE r = p
    <3>1. Apart(me, tx[q])
      BY <2>2, <1>4
    <3>2. Apart(tx[q], me)
      BY <3>1 DEF Apart
    <3> QED BY <3>2, <2>2, <1>3, <1>4
  <2>3. CASE q # p /\ r # p
    BY <2>3, <1>3, <1>4 DEF Ledger
  <2> QED BY <2>1, <2>2, <2>3
<1>5. ASSUME NEW q \in Procs PROVE MineOK(tx'[q], rows')
  BY <1>3 DEF Ledger, ledger
<1>6. ASSUME NEW w \in Windows PROVE Backed(counters'[w], rows', w)
  BY DEF Ledger, ledger
<1> QED BY <1>2, <1>4, <1>5, <1>6 DEF Ledger

(* A process commits.  Whoever holds other windows sees no difference.       *)
LEMMA Publishing ==
    ASSUME TypeOK, Ledger, NEW p \in Procs, NEW mine \in Tx,
           Published(p, mine),
           mine.held = tx[p].held,
           MineOK(mine, rows),
           \A q \in Procs \ {p} : Apart(mine, tx[q])
    PROVE  /\ LedgerType' /\ Ledger'
           /\ rows' = Overlay(mine, rows)
           /\ \A q \in Procs : tx'[q] = IF q = p THEN Blank ELSE tx[q]
<1>1. tx \in [Procs -> Tx] /\ rows \in [Keys -> Reservation \cup {Absent}]
      /\ counters \in [Windows -> Counter]
  BY DEF TypeOK, Tx
<1>2. rows' = Overlay(mine, rows)
  BY DEF Published, Overlay
<1>3. /\ mine.rows \in [Keys -> Reservation \cup {Absent}]
      /\ mine.counters \in [Windows -> Counter]
      /\ mine.held \subseteq Windows
  BY DEF Tx
<1>4. Blank \in Tx
  BY DEF Blank, Tx, Counter
<1>5. \A q \in Procs : tx'[q] = IF q = p THEN Blank ELSE tx[q]
  BY <1>1 DEF Published
<1>6. LedgerType'
  <2>1. rows' \in [Keys -> Reservation \cup {Absent}]
    BY <1>1, <1>2, <1>3 DEF Overlay
  <2>2. counters' \in [Windows -> Counter]
    BY <1>1, <1>3 DEF Published
  <2>3. tx' \in [Procs -> Tx]
    BY <1>1, <1>4 DEF Published
  <2> QED BY <2>1, <2>2, <2>3 DEF LedgerType
\* a reservation that the commit changes lies outside of what others hold
<1>7. ASSUME NEW w \in Windows, w \notin mine.held, NEW k \in Keys,
             mine.rows[k] # Absent
      PROVE  k \notin AgainstIn(rows, w) /\ k \notin AgainstIn(rows', w)
  <2>1. WindowsOf(k, mine.rows[k]) \subseteq mine.held
    BY <1>7 DEF MineOK
  <2>2. k \notin AgainstIn(rows', w)
    BY <2>1, <1>2, <1>7 DEF AgainstIn, Overlay
  <2>3. rows[k] # Absent => WindowsOf(k, rows[k]) = WindowsOf(k, mine.rows[k])
    BY <1>7 DEF MineOK, WindowsOf
  <2>4. k \notin AgainstIn(rows, w)
    BY <2>1, <2>3, <1>7 DEF AgainstIn
  <2> QED BY <2>2, <2>4
<1>8. ASSUME NEW w \in Windows PROVE Backed(counters'[w], rows', w)
  <2>1. CASE w \in mine.held
    BY <2>1, <1>2 DEF Published, MineOK
  <2>2. CASE w \notin mine.held
    <3>1. counters'[w] = counters[w]
      BY <2>2 DEF Published
    <3>2. Backed(counters[w], rows, w)
      BY DEF Ledger
    <3>3. \A k \in Keys : \/ rows[k] = rows'[k]
                          \/ k \notin AgainstIn(rows, w) /\ k \notin AgainstIn(rows', w)
      BY <1>2, <1>7, <2>2 DEF Overlay
    <3>4. Backed(counters[w], rows, w) <=> Backed(counters[w], rows', w)
      BY <3>3, SameBacking
    <3> QED BY <3>1, <3>2, <3>4
  <2> QED BY <2>1, <2>2
<1>9. ASSUME NEW q \in Procs PROVE MineOK(tx'[q], rows')
  <2>1. CASE q = p
    <3>1. tx'[q] = Blank
      BY <2>1, <1>5
    <3> QED BY <3>1 DEF MineOK, Blank
  <2>2. CASE q # p
    <3>1. tx'[q] = tx[q] /\ MineOK(tx[q], rows) /\ Apart(mine, tx[q]) /\ tx[q] \in Tx
      BY <2>2, <1>1, <1>5 DEF Ledger
    <3>2. ASSUME NEW k \in Keys, tx[q].rows[k] # Absent, rows'[k] # Absent
          PROVE  rows'[k].day = tx[q].rows[k].day
      BY <3>1, <3>2, <1>2 DEF MineOK, Apart, Overlay
    <3>3. ASSUME NEW w \in tx[q].held
          PROVE  Backed(tx[q].counters[w], Overlay(tx[q], rows'), w)
      <4>1. w \in Windows /\ w \notin mine.held
        BY <3>1 DEF Apart, Tx
      <4>2. ASSUME NEW k \in Keys
            PROVE  \/ Overlay(tx[q], rows)[k] = Overlay(tx[q], rows')[k]
                   \/ /\ k \notin AgainstIn(Overlay(tx[q], rows), w)
                      /\ k \notin AgainstIn(Overlay(tx[q], rows'), w)
        <5>1. CASE tx[q].rows[k] # Absent \/ mine.rows[k] = Absent
          BY <5>1, <1>2 DEF Overlay
        <5>2. CASE tx[q].rows[k] = Absent /\ mine.rows[k] # Absent
          BY <5>2, <4>1, <1>7 DEF Overlay, AgainstIn
        <5> QED BY <5>1, <5>2
      <4>3. Backed(tx[q].counters[w], Overlay(tx[q], rows), w)
        BY <3>1, <3>3 DEF MineOK
      <4> HIDE DEF Apart, Backed
      <4> QED BY <4>2, <4>3, SameBacking
    <3> QED BY <3>1, <3>2, <3>3 DEF MineOK
  <2> QED BY <2>1, <2>2
<1>10. ASSUME NEW q \in Procs, NEW r \in Procs, q # r
       PROVE  Apart(tx'[q], tx'[r])
  BY <1>5, <1>10 DEF Ledger, Apart, Blank
<1> QED BY <1>2, <1>5, <1>6, <1>8, <1>9, <1>10 DEF Ledger

(* What a process settles, it takes off the windows of the reservation as it *)
(* sees it.                                                                  *)
LEMMA SettlementOK ==
    ASSUME TypeOK, Ledger, NEW p \in Procs, NEW k \in Keys, NEW row \in Reservation,
           NEW state \in {"settled", "expired"}, NEW charge \in Charge,
           WindowsOf(k, row) \subseteq tx[p].held,
           Overlay(tx[p], rows)[k] \in Reservation,
           Overlay(tx[p], rows)[k] # Absent,
           Overlay(tx[p], rows)[k].day = row.day,
           Orderly => /\ Overlay(tx[p], rows)[k].state = "reserved"
                      /\ Overlay(tx[p], rows)[k].charge = NoCharge,
           NEW mine, mine = WithSettlement(tx[p], k, row, state, charge)
    PROVE  /\ mine \in Tx
           /\ mine.held = tx[p].held
           /\ MineOK(mine, rows)
           /\ \A q \in Procs \ {p} : Apart(mine, tx[q])
<1> DEFINE me == tx[p]
           ws == WindowsOf(k, row)
           new == [day |-> row.day, state |-> state, charge |-> charge]
           old == Overlay(me, rows)
           laid == Overlay(mine, rows)
<1>1. me \in Tx /\ MineOK(me, rows)
  BY DEF TypeOK, Tx, Ledger
<1>2. /\ mine.held = me.held
      /\ mine.rows = [me.rows EXCEPT ![k] = new]
      /\ mine.counters = [w \in Windows |->
                             IF w \in ws THEN Settled(me.counters[w], charge[Unit(w)])
                                         ELSE me.counters[w]]
  BY <1>1 DEF WithSettlement, ReconcileWindows, Tx
<1>3. new \in Reservation /\ new # Absent
  BY AbsentIsNoReservation DEF Reservation
<1>4. \A w \in Windows : charge[Unit(w)] \in {0, 1} /\ NoCharge[Unit(w)] = 0
  BY DEF Charge, Unit, Units, NoCharge
<1>5. mine \in Tx
  <2>1. \A w \in Windows : Settled(me.counters[w], charge[Unit(w)]) \in Counter
    BY <1>1, <1>4 DEF Settled, Counter, Tx
  <2>2. mine.counters \in [Windows -> Counter]
    BY <1>1, <1>2, <2>1 DEF Tx
  <2>3. mine.rows \in [Keys -> Reservation \cup {Absent}]
    BY <1>1, <1>2, <1>3 DEF Tx
  <2>4. mine = [held |-> mine.held, counters |-> mine.counters, rows |-> mine.rows]
    BY <1>1 DEF WithSettlement, Tx
  <2> QED BY <1>1, <1>2, <2>2, <2>3, <2>4 DEF Tx
<1>6. WindowsOf(k, new) = ws /\ WindowsOf(k, old[k]) = ws
  BY DEF WindowsOf
<1>7. ASSUME NEW j \in Keys, mine.rows[j] # Absent
      PROVE  /\ WindowsOf(j, mine.rows[j]) \subseteq mine.held
             /\ rows[j] # Absent => rows[j].day = mine.rows[j].day
  <2>1. CASE j = k
    <3>1. mine.rows[k] = new
      BY <1>1, <1>2 DEF Tx
    <3>2. rows[k] # Absent => rows[k].day = row.day
      BY <1>1 DEF MineOK, Overlay
    <3> QED BY <2>1, <3>1, <3>2, <1>2, <1>6
  <2>2. CASE j # k
    <3>1. mine.rows[j] = me.rows[j]
      BY <2>2, <1>1, <1>2 DEF Tx
    <3> QED BY <3>1, <1>1, <1>2, <1>7 DEF MineOK
  <2> QED BY <2>1, <2>2
<1>8. /\ laid[k] = new /\ \A j \in Keys \ {k} : laid[j] = old[j]
      /\ laid[k].charge = charge /\ laid[k].state # "reserved"
  BY <1>1, <1>2, <1>3 DEF Overlay, Tx
<1>9. ASSUME NEW w \in mine.held PROVE Backed(mine.counters[w], laid, w)
  <2>1. w \in Windows /\ w \in me.held /\ me.counters[w] \in Counter
    BY <1>1, <1>2 DEF Tx
  <2>2. Backed(me.counters[w], old, w)
    BY <1>1, <2>1 DEF MineOK
  <2>3. CASE w \notin ws
    <3>1. mine.counters[w] = me.counters[w]
      BY <1>2, <2>1, <2>3
    <3>2. \A j \in Keys : \/ old[j] = laid[j]
                          \/ j \notin AgainstIn(old, w) /\ j \notin AgainstIn(laid, w)
      BY <1>6, <1>8, <2>3 DEF AgainstIn
    <3> HIDE DEF old, laid
    <3> QED BY <2>2, <3>1, <3>2, SameBacking
  <2>4. CASE w \in ws
    <3> DEFINE P == PromisedIn(old, w)
               C == ChargedIn(old, w)
    <3>1. mine.counters[w] = Settled(me.counters[w], charge[Unit(w)])
      BY <1>2, <2>1, <2>4
    <3>2. PromisedIn(laid, w) = P \ {k}
      BY <1>8 DEF PromisedIn, AgainstIn
    <3>3. k \in AgainstIn(laid, w) /\ k \in AgainstIn(old, w)
      BY <1>3, <1>6, <1>8, <2>4 DEF AgainstIn
    <3>4. ChargedIn(laid, w) = IF charge[Unit(w)] = 1 THEN C \cup {k} ELSE C \ {k}
      BY <1>8, <3>3 DEF ChargedIn, AgainstIn
    <3>5. Orderly => k \in P /\ k \notin C
      BY <1>4, <2>1, <3>3 DEF PromisedIn, ChargedIn
    <3> HIDE DEF P, C
    <3>6. /\ IsFiniteSet(P) /\ Cardinality(P) \in Nat
          /\ IsFiniteSet(C) /\ Cardinality(C) \in Nat
      BY SumsAreFinite DEF P, C
    <3>7. /\ k \in P => Cardinality(P \ {k}) = Cardinality(P) - 1 /\ Cardinality(P) >= 1
          /\ k \notin P => Cardinality(P \ {k}) = Cardinality(P)
          /\ k \notin C => /\ Cardinality(C \cup {k}) = Cardinality(C) + 1
                          /\ Cardinality(C \ {k}) = Cardinality(C)
      <4>1. k \in P => Cardinality(P \ {k}) = Cardinality(P) - 1
        BY <3>6, FS_RemoveElement
      <4>2. k \in P => Cardinality(P) >= 1
        BY <3>6, FS_EmptySet
      <4>3. k \notin C => Cardinality(C \cup {k}) = Cardinality(C) + 1
        BY <3>6, FS_AddElement
      <4>4. k \notin P => Cardinality(P \ {k}) = Cardinality(P)
        <5> SUFFICES ASSUME k \notin P PROVE P \ {k} = P
          OBVIOUS
        <5> QED OBVIOUS
      <4>5. k \notin C => Cardinality(C \ {k}) = Cardinality(C)
        <5> SUFFICES ASSUME k \notin C PROVE C \ {k} = C
          OBVIOUS
        <5> QED OBVIOUS
      <4> QED BY <4>1, <4>2, <4>3, <4>4, <4>5
    <3>8. me.counters[w].reserved \in Nat /\ me.counters[w].spent \in Nat
      BY <2>1 DEF Counter
    <3>9. mine.counters[w].reserved <= Cardinality(PromisedIn(laid, w))
      <4>1. me.counters[w].reserved <= Cardinality(P)
        BY <2>2 DEF Backed, P
      <4>2. mine.counters[w].reserved =
               IF me.counters[w].reserved = 0 THEN 0 ELSE me.counters[w].reserved - 1
        BY <3>1 DEF Settled
      <4>3. Cardinality(P \ {k}) \in Nat /\ Cardinality(P \ {k}) >= Cardinality(P) - 1
        BY <3>6, <3>7
      <4> QED BY <3>2, <3>6, <3>8, <4>1, <4>2, <4>3
    <3>10. ASSUME Orderly PROVE Exact(mine.counters[w], laid, w)
      <4>1. /\ me.counters[w].reserved = Cardinality(P)
            /\ me.counters[w].spent = Cardinality(C)
            /\ Limit[w.scope] # Absent =>
                  me.counters[w].spent + me.counters[w].reserved <= Limit[w.scope]
        BY <2>2, <3>10 DEF Backed, Exact, P, C
      <4>2. /\ mine.counters[w].reserved = me.counters[w].reserved - 1
            /\ mine.counters[w].spent = me.counters[w].spent + charge[Unit(w)]
        <5>1. Cardinality(P) >= 1
          BY <3>5, <3>7, <3>10
        <5>2. mine.counters[w] =
                 [spent |-> me.counters[w].spent + charge[Unit(w)],
                  reserved |-> IF me.counters[w].reserved = 0 THEN 0
                               ELSE me.counters[w].reserved - 1]
          BY <3>1 DEF Settled
        <5> QED BY <3>8, <4>1, <5>1, <5>2
      <4>3. mine.counters[w].reserved = Cardinality(PromisedIn(laid, w))
        BY <3>2, <3>5, <3>7, <3>10, <4>1, <4>2
      <4>4. mine.counters[w].spent = Cardinality(ChargedIn(laid, w))
        BY <1>4, <2>1, <3>4, <3>5, <3>6, <3>7, <3>10, <4>1, <4>2
      <4>5. Limit[w.scope] # Absent =>
               mine.counters[w].spent + mine.counters[w].reserved <= Limit[w.scope]
        <5>1. w.scope \in Scopes
          BY <2>1, WindowScope
        <5>2. Limit[w.scope] \in Nat \cup {Absent}
          BY <5>1, ConstantsAssumption
        <5> QED BY <5>2, <1>4, <2>1, <3>8, <4>1, <4>2
      <4> QED BY <4>3, <4>4, <4>5 DEF Exact
    <3> QED BY <3>9, <3>10 DEF Backed
  <2> QED BY <2>3, <2>4
<1>10. ASSUME NEW q \in Procs \ {p} PROVE Apart(mine, tx[q])
  <2>1. Apart(me, tx[q]) /\ MineOK(tx[q], rows)
    BY DEF Ledger
  <2>2. ASSUME NEW j \in Keys, mine.rows[j] # Absent, tx[q].rows[j] # Absent
        PROVE  mine.rows[j].day = tx[q].rows[j].day
    <3>1. CASE j # k
      <4>1. mine.rows[j] = me.rows[j]
        BY <3>1, <1>1, <1>2 DEF Tx
      <4> QED BY <4>1, <2>1, <2>2 DEF Apart
    <3>2. CASE j = k
      <4>1. mine.rows[k].day = row.day
        BY <1>1, <1>2 DEF Tx
      <4>2. tx[q].rows[k].day = row.day
        BY <2>1, <2>2, <3>2 DEF Apart, MineOK, Overlay
      <4> QED BY <4>1, <4>2, <3>2
    <3> QED BY <3>1, <3>2
  <2> QED BY <1>2, <2>1, <2>2 DEF Apart
<1> QED BY <1>2, <1>5, <1>7, <1>9, <1>10 DEF MineOK

(* What reserve promises, it adds to the windows it has just checked.        *)
LEMMA PromiseOK ==
    ASSUME TypeOK, Ledger, NEW p \in Procs, NEW k \in Keys, NEW day \in 1 .. Days,
           NEW ws, ws = WindowsFor[UserOf[k]][day], ws \subseteq tx[p].held,
           \A w \in ws : ~ Exceeds(tx[p], w),
           \A q \in Procs \ {p} : tx[q].rows[k] = Absent,
           tx[p].rows[k] = Absent,
           NEW mine, mine = WithPromise(tx[p], k, ws, day)
    PROVE  /\ mine \in Tx
           /\ mine.held = tx[p].held
           /\ MineOK(mine, rows)
           /\ \A q \in Procs \ {p} : Apart(mine, tx[q])
           /\ Overlay(mine, rows)[k] # Absent
           /\ \A j \in Keys \ {k} : mine.rows[j] = tx[p].rows[j]
           /\ mine.rows[k] \in {Absent, Promise(day)}
<1> DEFINE me == tx[p]
           new == Promise(day)
           old == Overlay(me, rows)
           laid == Overlay(mine, rows)
<1>1. me \in Tx /\ MineOK(me, rows) /\ \A q \in Procs \ {p} : Apart(me, tx[q])
  BY DEF TypeOK, Tx, Ledger
<1>2. CASE rows[k] # Absent
  <2>1. mine = me
    BY <1>2 DEF WithPromise
  <2> QED BY <1>1, <1>2, <2>1 DEF Overlay
<1>3. CASE rows[k] = Absent
  <2>1. /\ mine.held = me.held
        /\ mine.rows = [me.rows EXCEPT ![k] = new]
        /\ mine.counters = [w \in Windows |->
                               IF w \in ws
                               THEN Increased(me.counters[w])
                               ELSE me.counters[w]]
    BY <1>1, <1>3 DEF WithPromise, Tx
  <2>2. /\ new \in Reservation /\ new # Absent
        /\ new.day = day /\ new.state = "reserved" /\ new.charge = NoCharge
    <3>1. NoCharge \in Charge
      BY DEF NoCharge, Charge
    <3>2. new = [day |-> day, state |-> "reserved", charge |-> NoCharge]
      BY DEF Promise
    <3>3. new \in Reservation
      BY <3>1, <3>2 DEF Reservation
    <3> QED BY <3>2, <3>3, AbsentIsNoReservation
  <2>3. \A w \in Windows : NoCharge[Unit(w)] = 0
    BY DEF Unit, Units, NoCharge
  <2>4. mine \in Tx
    <3>1. \A w \in Windows : me.counters[w] \in Counter /\ Increased(me.counters[w]) \in Counter
      BY <1>1 DEF Counter, Tx, Increased
    <3>2. mine.counters \in [Windows -> Counter]
      BY <2>1, <3>1
    <3>3. mine.rows \in [Keys -> Reservation \cup {Absent}]
      BY <1>1, <2>1, <2>2 DEF Tx
    <3>4. mine = [held |-> mine.held, counters |-> mine.counters, rows |-> mine.rows]
      BY <1>1, <1>3 DEF WithPromise, Tx
    <3> QED BY <1>1, <2>1, <3>2, <3>3, <3>4 DEF Tx
  <2>5. WindowsOf(k, new) = ws
    BY <2>2 DEF WindowsOf
  <2>6. mine.rows[k] = new /\ \A j \in Keys \ {k} : mine.rows[j] = me.rows[j]
    BY <1>1, <2>1 DEF Tx
  <2>7. old[k] = Absent /\ laid[k] = new /\ \A j \in Keys \ {k} : laid[j] = old[j]
    BY <1>3, <2>2, <2>6 DEF Overlay
  <2>8. ASSUME NEW j \in Keys, mine.rows[j] # Absent
        PROVE  /\ WindowsOf(j, mine.rows[j]) \subseteq mine.held
               /\ rows[j] # Absent => rows[j].day = mine.rows[j].day
    <3>1. CASE j = k
      BY <3>1, <1>3, <2>1, <2>5, <2>6
    <3>2. CASE j # k
      BY <3>2, <1>1, <2>1, <2>6, <2>8 DEF MineOK
    <3> QED BY <3>1, <3>2
  <2>9. ASSUME NEW w \in mine.held PROVE Backed(mine.counters[w], laid, w)
    <3>1. w \in Windows /\ w \in me.held /\ me.counters[w] \in Counter
      BY <1>1, <2>1 DEF Tx
    <3>2. Backed(me.counters[w], old, w)
      BY <1>1, <3>1 DEF MineOK
    <3>3. CASE w \notin ws
      <4>1. mine.counters[w] = me.counters[w]
        BY <2>1, <3>1, <3>3
      <4>2. \A j \in Keys : \/ old[j] = laid[j]
                            \/ j \notin AgainstIn(old, w) /\ j \notin AgainstIn(laid, w)
        BY <2>5, <2>7, <3>3 DEF AgainstIn
      <4> HIDE DEF old, laid
      <4> QED BY <3>2, <4>1, <4>2, SameBacking
    <3>4. CASE w \in ws
      <4> DEFINE P == PromisedIn(old, w)
                 C == ChargedIn(old, w)
      <4>1. /\ mine.counters[w].spent = me.counters[w].spent
            /\ mine.counters[w].reserved = me.counters[w].reserved + 1
            /\ me.counters[w].spent \in Nat /\ me.counters[w].reserved \in Nat
        BY <2>1, <3>1, <3>4 DEF Counter, Increased
      <4>2. k \in AgainstIn(laid, w) /\ k \notin AgainstIn(old, w)
        BY <2>2, <2>5, <2>7, <3>4 DEF AgainstIn
      <4>3. PromisedIn(laid, w) = P \cup {k} /\ k \notin P
        BY <2>2, <2>7, <4>2 DEF PromisedIn, AgainstIn
      <4>4. ChargedIn(laid, w) = C
        BY <2>2, <2>3, <2>7, <3>1, <4>2 DEF ChargedIn, AgainstIn
      <4> HIDE DEF P, C
      <4>5. IsFiniteSet(P) /\ Cardinality(P) \in Nat
        BY SumsAreFinite DEF P
      <4>6. Cardinality(PromisedIn(laid, w)) = Cardinality(P) + 1
        BY <4>3, <4>5, FS_AddElement
      <4>7. mine.counters[w].reserved <= Cardinality(PromisedIn(laid, w))
        <5>1. me.counters[w].reserved <= Cardinality(P)
          BY <3>2 DEF Backed, P
        <5> QED BY <4>1, <4>5, <4>6, <5>1
      <4>8. ASSUME Orderly PROVE Exact(mine.counters[w], laid, w)
        <5>1. /\ me.counters[w].reserved = Cardinality(P)
              /\ me.counters[w].spent = Cardinality(C)
          BY <3>2, <4>8 DEF Backed, Exact, P, C
        <5>2. w.scope \in Scopes /\ Limit[w.scope] \in Nat \cup {Absent}
          BY <3>1, WindowScope, ConstantsAssumption
        <5>3. Limit[w.scope] # Absent =>
                 me.counters[w].spent + me.counters[w].reserved + 1 <= Limit[w.scope]
          BY <3>4, <4>1, <5>2 DEF Exceeds
        <5> QED BY <4>1, <4>4, <4>6, <5>1, <5>3 DEF Exact
      <4> QED BY <4>7, <4>8 DEF Backed
    <3> QED BY <3>3, <3>4
  <2>10. ASSUME NEW q \in Procs \ {p} PROVE Apart(mine, tx[q])
    BY <1>1, <2>1, <2>6 DEF Apart
  <2> QED BY <2>1, <2>2, <2>4, <2>6, <2>7, <2>8, <2>9, <2>10 DEF MineOK
<1> QED BY <1>2, <1>3

(* A window that is locked is read with the reservations as they are: nobody *)
(* else has written one of its own.                                          *)
LEMMA LockOK ==
    ASSUME TypeOK, Ledger, NEW p \in Procs, NEW w \in Windows,
           w \notin tx[p].held, Free(w, p),
           NEW me, me = Locked(tx[p], w)
    PROVE  /\ me \in Tx
           /\ me.rows = tx[p].rows
           /\ MineOK(me, rows)
           /\ \A q \in Procs \ {p} : Apart(me, tx[q])
<1>1. /\ tx[p] \in Tx /\ MineOK(tx[p], rows) /\ counters[w] \in Counter
      /\ \A q \in Procs \ {p} : Apart(tx[p], tx[q])
  BY DEF TypeOK, Tx, Ledger
<1>2. /\ me.held = tx[p].held \cup {w}
      /\ me.rows = tx[p].rows
      /\ me.counters = [tx[p].counters EXCEPT ![w] = counters[w]]
      /\ me \in Tx
  BY <1>1 DEF Tx, Locked
<1>3. Overlay(me, rows) = Overlay(tx[p], rows)
  BY <1>2 DEF Overlay
<1>4. ASSUME NEW v \in me.held PROVE Backed(me.counters[v], Overlay(me, rows), v)
  <2>1. CASE v # w
    BY <2>1, <1>1, <1>2, <1>3 DEF MineOK, Tx
  <2>2. CASE v = w
    <3>1. Backed(counters[w], rows, w)
      BY DEF Ledger
    <3>2. ASSUME NEW k \in Keys
          PROVE  \/ rows[k] = Overlay(tx[p], rows)[k]
                 \/ /\ k \notin AgainstIn(rows, w)
                    /\ k \notin AgainstIn(Overlay(tx[p], rows), w)
      <4>1. CASE tx[p].rows[k] = Absent
        BY <4>1 DEF Overlay
      <4>2. CASE tx[p].rows[k] # Absent
        <5>1. w \notin WindowsOf(k, tx[p].rows[k])
          BY <4>2, <1>1 DEF MineOK
        <5>2. rows[k] # Absent => WindowsOf(k, rows[k]) = WindowsOf(k, tx[p].rows[k])
          BY <4>2, <1>1 DEF MineOK, WindowsOf
        <5> QED BY <4>2, <5>1, <5>2 DEF AgainstIn, Overlay
      <4> QED BY <4>1, <4>2
    <3>3. me.counters[w] = counters[w]
      BY <1>1, <1>2 DEF Tx
    <3> QED BY <2>2, <1>3, <3>1, <3>2, <3>3, SameBacking
  <2> QED BY <2>1, <2>2
<1>5. \A q \in Procs \ {p} : Apart(me, tx[q])
  BY <1>1, <1>2 DEF Apart, Free
<1>6. MineOK(me, rows)
  BY <1>1, <1>2, <1>4 DEF MineOK
<1> QED BY <1>2, <1>5, <1>6

----------------------------------------------------------------------------
(* Steps                                                                     *)

LEMMA ProcsFacts ==
    /\ Turns \subseteq Procs /\ Sweeps \subseteq Procs
    /\ \A t \in Turns : Key(t) \in Keys /\ UserOf[Key(t)] \in Users /\ t \notin Sweeps
    /\ Blank \in Tx /\ Blank.held = {} /\ \A k \in Keys : Blank.rows[k] = Absent
BY ConstantsAssumption DEF Procs, Key, Blank, Tx, Counter

(* A step of one process, in the eyes of the others.                         *)
OthersKept(p) ==
    /\ \A q \in Procs \ {p} : tx'[q] = tx[q]
    /\ \A t \in Turns \ {p} : turn'[t] = turn[t]
    /\ \A s \in Sweeps \ {p} : sweep'[s] = sweep[s]
    /\ \A k \in Keys : rows[k] # Absent => rows'[k] # Absent

LEMMA ControlKept ==
    ASSUME TypeOK, Control, NEW p \in Procs, OthersKept(p),
           p \in Turns => TurnOK(p)',
           p \in Sweeps => SweepOK(p)'
    PROVE  Control'
<1>1. ASSUME NEW t \in Turns PROVE TurnOK(t)'
  <2>1. CASE t = p
    BY <2>1
  <2>2. CASE t # p
    <3>1. tx'[t] = tx[t] /\ turn'[t] = turn[t] /\ Key(t) \in Keys
      BY <2>2, ProcsFacts DEF OthersKept
    <3>2. TurnOK(t)
      BY DEF Control
    <3> QED BY <3>1, <3>2 DEF TurnOK, Overlay, OthersKept
  <2> QED BY <2>1, <2>2
<1>2. ASSUME NEW s \in Sweeps PROVE SweepOK(s)'
  <2>1. CASE s = p
    BY <2>1
  <2>2. CASE s # p
    <3>1. sweep'[s] = sweep[s] /\ Selected(s) \subseteq Keys
      BY <2>2 DEF OthersKept, TypeOK, Selected
    <3>2. SweepOK(s)
      BY DEF Control
    <3> QED BY <3>1, <3>2 DEF SweepOK, Selected, OthersKept
  <2> QED BY <2>1, <2>2
<1> QED BY <1>1, <1>2 DEF Control

(* Only a key's live turn, or the sweep when it has lapsed, writes its row.  *)
OwnRowsOnly(p) ==
    \A k \in Keys : \/ rows'[k] = rows[k]
                    \/ p \in Turns /\ Live(p) /\ k = Key(p)
                    \/ p \in Sweeps /\ k \in lapsed

LEMMA AloneKept ==
    ASSUME TypeOK, Orderly, OneAtATime, NEW p \in Procs, OthersKept(p), OwnRowsOnly(p),
           lapsed' = lapsed,
           Uncharged(rows'), Uncharged(tx'[p].rows),
           p \in Turns => TurnAlone(p)',
           p \in Sweeps => SweepAlone(p)'
    PROVE  OneAtATime'
<1>1. ASSUME NEW q \in Procs PROVE Uncharged(tx'[q].rows)
  BY DEF OthersKept, OneAtATime
<1>2. ASSUME NEW t \in Turns PROVE TurnAlone(t)'
  <2>1. CASE t = p
    BY <2>1
  <2>2. CASE t # p
    <3>1. tx'[t] = tx[t] /\ turn'[t] = turn[t] /\ Key(t) \in Keys /\ TurnAlone(t)
      BY <2>2, ProcsFacts DEF OthersKept, OneAtATime
    <3>2. Live(t)' <=> Live(t)
      BY <3>1 DEF Live
    <3>3. ASSUME NEW o \in Turns, Live(t)', Live(o)', Key(o) = Key(t) PROVE o = t
      <4>1. CASE o = p
        BY <4>1, <3>3 DEF TurnAlone, Key
      <4>2. CASE o # p
        <5>1. Live(o)
          BY <4>2, <3>3 DEF OthersKept, Live
        <5> QED BY <5>1, <3>1, <3>2, <3>3 DEF TurnAlone
      <4> QED BY <4>1, <4>2
    <3>4. ASSUME turn[t].at = "settling"
          PROVE  Overlay(tx[t], rows')[Key(t)].state = "reserved"
      <4>1. Live(t)
        BY <3>4 DEF Live
      <4>2. rows'[Key(t)] = rows[Key(t)]
        <5>1. ASSUME p \in Turns, Live(p), Key(t) = Key(p) PROVE FALSE
          BY <5>1, <4>1, <3>1, <2>2 DEF TurnAlone
        <5>2. Key(t) \notin lapsed
          BY <4>1, <3>1 DEF TurnAlone
        <5> QED BY <5>1, <5>2, <3>1 DEF OwnRowsOnly
      <4> QED BY <4>2, <3>1, <3>4 DEF TurnAlone, Overlay
    <3> QED BY <3>1, <3>2, <3>3, <3>4 DEF TurnAlone, Key
  <2> QED BY <2>1, <2>2
<1>3. ASSUME NEW s \in Sweeps PROVE SweepAlone(s)'
  <2>1. CASE s = p
    BY <2>1
  <2>2. CASE s # p
    <3>1. /\ tx'[s] = tx[s] /\ sweep'[s] = sweep[s] /\ SweepAlone(s)
          /\ Selected(s) \subseteq Keys
      BY <2>2, ProcsFacts DEF OthersKept, OneAtATime, TypeOK, Selected
    <3>2. ASSUME NEW k \in Selected(s) PROVE rows'[k] = rows[k]
      <4>1. k \in Keys /\ k \in lapsed
        BY <3>1 DEF SweepAlone
      <4>2. p \notin Sweeps
        BY <2>2 DEF Orderly
      <4>3. ASSUME p \in Turns, Live(p) PROVE k # Key(p)
        BY <4>1, <4>3 DEF OneAtATime, TurnAlone
      <4> QED BY <4>1, <4>2, <4>3 DEF OwnRowsOnly
    <3> QED BY <3>1, <3>2 DEF SweepAlone, Selected
  <2> QED BY <2>1, <2>2
<1> QED BY <1>1, <1>2, <1>3 DEF OneAtATime

----------------------------------------------------------------------------
(* How far a turn has come                                                   *)

Stages == {"idle", "reserving", "calling", "answered", "settling",
           "done", "failed", "refused", "dead"}
TurnRow == [at : Stages, day : 1 .. Days, ok : BOOLEAN, charge : Charge]

LEMMA TurnUpdate ==
    ASSUME TypeOK, NEW t \in Turns, NEW new \in TurnRow, turn' = [turn EXCEPT ![t] = new]
    PROVE  /\ turn' \in [Turns -> TurnRow]
           /\ turn'[t] = new
           /\ \A o \in Turns \ {t} : turn'[o] = turn[o]
<1>1. turn \in [Turns -> TurnRow]
  BY DEF TypeOK, TurnRow, Stages
<1> QED BY <1>1

LEMMA StepType ==
    ASSUME TypeOK, NEW t \in Turns, NEW at \in Stages, Step(t, at)
    PROVE  /\ turn' \in [Turns -> TurnRow]
           /\ turn'[t].at = at
           /\ turn'[t].day = turn[t].day
           /\ turn'[t].charge = turn[t].charge
           /\ \A o \in Turns \ {t} : turn'[o] = turn[o]
<1> DEFINE new == [at |-> at, day |-> turn[t].day, ok |-> turn[t].ok,
                   charge |-> turn[t].charge]
<1>1. turn \in [Turns -> TurnRow]
  BY DEF TypeOK, TurnRow, Stages
<1>2. new \in TurnRow
  BY <1>1 DEF TurnRow
<1>3. turn' = [turn EXCEPT ![t] = new]
  <2>1. turn[t] \in TurnRow
    BY <1>1
  <2>2. [turn[t] EXCEPT !.at = at] = new
    BY <2>1 DEF TurnRow
  <2>3. turn' = [turn EXCEPT ![t] = [turn[t] EXCEPT !.at = at]]
    BY <1>1 DEF Step
  <2> HIDE DEF new
  <2> QED BY <2>2, <2>3
<1> HIDE DEF new
<1>4. /\ turn' \in [Turns -> TurnRow] /\ turn'[t] = new
      /\ \A o \in Turns \ {t} : turn'[o] = turn[o]
  BY <1>2, <1>3, TurnUpdate
<1> QED BY <1>4 DEF new

----------------------------------------------------------------------------
(* Steps that leave the ledger alone                                         *)

LEMMA AskStep ==
    ASSUME Inv, NEW t \in Turns, Ask(t)
    PROVE  Inv'
<1> USE ProcsFacts
<1>1. /\ UNCHANGED <<world, ledger, tx, sweep, bill, crashes>>
      /\ turn[t].at = "idle" /\ MayAsk(t)
  BY DEF Ask
<1>0. /\ turn' \in [Turns -> TurnRow]
      /\ \A o \in Turns \ {t} : turn'[o] = turn[o]
      /\ turn'[t].at \in {"calling", "refused", "reserving"}
      /\ turn'[t].at = "calling" => rows[Key(t)] # Absent
  <2>1. CASE rows[Key(t)] # Absent /\ Step(t, "calling")
    BY <2>1, StepType DEF Inv, Stages
  <2>2. CASE Step(t, "refused")
    BY <2>2, StepType DEF Inv, Stages
  <2>3. CASE turn' = [turn EXCEPT ![t] = [@ EXCEPT !.at = "reserving", !.day = today]]
    <3> DEFINE new == [turn[t] EXCEPT !.at = "reserving", !.day = today]
    <3>1. turn[t] \in TurnRow /\ today \in 1 .. Days
      BY DEF Inv, TypeOK, TurnRow, Stages
    <3>2. new \in TurnRow /\ new.at = "reserving"
      BY <3>1 DEF TurnRow, Stages
    <3>3. turn' = [turn EXCEPT ![t] = new]
      BY <2>3
    <3> HIDE DEF new
    <3>4. /\ turn' \in [Turns -> TurnRow] /\ turn'[t] = new
          /\ \A o \in Turns \ {t} : turn'[o] = turn[o]
      BY <3>2, <3>3, TurnUpdate DEF Inv
    <3> QED BY <3>2, <3>4
  <2> QED BY <2>1, <2>2, <2>3 DEF Ask
<1>2. LedgerType' /\ Ledger'
  <2>1. LedgerType /\ Ledger
    BY DEF Inv, TypeOK, LedgerType, Tx
  <2> QED BY <2>1, <1>1 DEF LedgerType, Ledger, ledger
<1>3. TypeOK'
  BY <1>0, <1>1, <1>2 DEF Inv, TypeOK, LedgerType, Tx, TurnRow, Stages, world, ledger
<1>4. OthersKept(t)
  BY <1>0, <1>1 DEF OthersKept, ledger
<1>5. Control'
  <2>1. TurnOK(t)'
    <3>1. turn'[t].at = "calling" => Overlay(tx'[t], rows')[Key(t)] # Absent
      BY <1>0, <1>1 DEF Overlay, ledger
    <3>2. \A k \in Keys : tx'[t].rows[k] = Absent
      BY <1>1 DEF Inv, Control, TurnOK
    <3> QED BY <1>0, <3>1, <3>2 DEF TurnOK, Working
  <2> QED BY <2>1, <1>4, ControlKept DEF Inv
<1>6. ASSUME Orderly PROVE OneAtATime'
  <2>1. OneAtATime
    BY <1>6 DEF Inv
  <2>2. Key(t) \notin lapsed /\ \A o \in Turns : Key(o) = Key(t) => ~ Live(o)
    BY <1>1, <1>6 DEF MayAsk, Orderly
  <2>3. \A o \in Turns \ {t} : Key(o) = Key(t) => ~ Live(o)'
    BY <2>2, <1>0 DEF Live
  <2>4. TurnAlone(t)'
    <3>1. \A k \in Keys : tx[t].rows[k] = Absent
      BY <1>1 DEF Inv, Control, TurnOK
    <3> QED BY <3>1, <2>2, <2>3, <1>0, <1>1 DEF TurnAlone, world, ledger, Key
  <2>5. OwnRowsOnly(t) /\ lapsed' = lapsed /\ Uncharged(rows') /\ Uncharged(tx'[t].rows)
    BY <1>1, <2>1 DEF OwnRowsOnly, OneAtATime, world, ledger
  <2> QED BY <2>1, <2>4, <2>5, <1>4, <1>6, AloneKept DEF Inv
<1> QED BY <1>2, <1>3, <1>5, <1>6 DEF Inv

LEMMA LedgerSame ==
    ASSUME TypeOK, Ledger, UNCHANGED <<ledger, tx>>
    PROVE  LedgerType' /\ Ledger'
<1>1. LedgerType
  BY DEF TypeOK, LedgerType, Tx
<1> QED BY <1>1 DEF LedgerType, Ledger, ledger

LEMMA SweepSelectStep ==
    ASSUME Inv, NEW s \in Sweeps, SweepSelect(s)
    PROVE  Inv'
<1> USE ProcsFacts
<1>1. PICK k \in Stale : sweep' = [sweep EXCEPT ![s] = [todo |-> Stale \ {k}, key |-> k]]
  BY DEF SweepSelect
<1>2. /\ UNCHANGED <<world, ledger, tx, turn, bill, crashes>>
      /\ sweep[s].key = Absent
  BY DEF SweepSelect
<1>3. /\ Stale \subseteq Keys /\ Absent \notin Stale
      /\ \A j \in Stale : j \in lapsed /\ rows[j] # Absent /\ rows[j].state = "reserved"
  BY ConstantsAssumption DEF Stale, Inv, TypeOK
<1>4. /\ sweep' \in [Sweeps -> [todo : SUBSET Keys, key : Keys \cup {Absent}]]
      /\ sweep'[s] = [todo |-> Stale \ {k}, key |-> k]
      /\ \A r \in Sweeps \ {s} : sweep'[r] = sweep[r]
  BY <1>1, <1>3 DEF Inv, TypeOK
<1>5. LedgerType' /\ Ledger'
  BY <1>2, LedgerSame DEF Inv
<1>6. TypeOK'
  BY <1>2, <1>4, <1>5 DEF Inv, TypeOK, LedgerType, Tx, world, ledger
<1>7. OthersKept(s)
  BY <1>2, <1>4 DEF OthersKept, ledger
<1>8. Selected(s)' \subseteq Stale
  BY <1>4 DEF Selected
<1>9. Control'
  <2>1. SweepOK(s)'
    BY <1>2, <1>3, <1>8 DEF SweepOK, ledger
  <2> QED BY <2>1, <1>7, ControlKept DEF Inv
<1>10. ASSUME Orderly PROVE OneAtATime'
  <2>1. OneAtATime
    BY <1>10 DEF Inv
  <2>2. \A j \in Keys : tx[s].rows[j] = Absent
    BY <1>2, <2>1 DEF OneAtATime, SweepAlone
  <2>3. SweepAlone(s)'
    <3>1. sweep'[s].key = k /\ sweep'[s].todo = Stale \ {k} /\ k # Absent
      BY <1>3, <1>4
    <3> QED BY <3>1, <1>2, <1>3, <1>8, <2>2 DEF SweepAlone, world, ledger
  <2>4. OwnRowsOnly(s) /\ lapsed' = lapsed /\ Uncharged(rows') /\ Uncharged(tx'[s].rows)
    BY <1>2, <2>1 DEF OwnRowsOnly, OneAtATime, world, ledger
  <2> QED BY <2>1, <2>3, <2>4, <1>7, <1>10, AloneKept DEF Inv
<1> QED BY <1>5, <1>6, <1>9, <1>10 DEF Inv

LEMMA TimeStep ==
    ASSUME Inv, Midnight \/ \E k \in Keys : Expire(k)
    PROVE  Inv'
<1> USE ProcsFacts
<1>1. UNCHANGED <<ledger, tx, turn, sweep, bill, crashes>>
  BY DEF Midnight, Expire
<1>2. today' \in 1 .. Days /\ lapsed' \subseteq Keys /\ lapsed \subseteq lapsed'
  <2>1. today \in 1 .. Days /\ Days \in Nat /\ lapsed \subseteq Keys
    BY ConstantsAssumption DEF Inv, TypeOK
  <2>2. CASE Midnight
    BY <2>1, <2>2 DEF Midnight
  <2>3. CASE \E k \in Keys : Expire(k)
    BY <2>1, <2>3 DEF Expire
  <2> QED BY <2>2, <2>3
<1>3. LedgerType' /\ Ledger'
  BY <1>1, LedgerSame DEF Inv
<1>4. TypeOK'
  BY <1>1, <1>2, <1>3 DEF Inv, TypeOK, LedgerType, Tx
<1>5. Control'
  BY <1>1 DEF Inv, Control, TurnOK, SweepOK, Selected, ledger
<1>6. ASSUME Orderly PROVE OneAtATime'
  <2>1. OneAtATime
    BY <1>6 DEF Inv
  <2>2. \A t \in Turns : Live(t) => Key(t) \notin lapsed'
    BY <1>6, <2>1 DEF Midnight, Expire, Orderly, OneAtATime, TurnAlone
  <2>3. ASSUME NEW t \in Turns PROVE TurnAlone(t)'
    BY <1>1, <2>1, <2>2 DEF OneAtATime, TurnAlone, Live, Key, ledger
  <2>4. ASSUME NEW s \in Sweeps PROVE SweepAlone(s)'
    BY <1>1, <1>2, <2>1 DEF OneAtATime, SweepAlone, Selected, ledger
  <2> QED BY <1>1, <2>1, <2>3, <2>4 DEF OneAtATime, ledger
<1> QED BY <1>3, <1>4, <1>5, <1>6 DEF Inv

----------------------------------------------------------------------------
(* Steps of an open transaction                                              *)

(* A process dies, or the database ends its transaction.                     *)
LEMMA GoneStep ==
    ASSUME Inv, NEW p \in Procs, Gone(p), crashes' \in 0 .. MaxCrashes
    PROVE  Inv'
<1> USE ProcsFacts
<1>1. UNCHANGED <<world, ledger, bill>> /\ tx' = [tx EXCEPT ![p] = Blank]
  BY DEF Gone
<1>2. LedgerType' /\ Ledger'
  <2>1. MineOK(Blank, rows)
    BY DEF MineOK
  <2>2. \A q \in Procs \ {p} : Apart(Blank, tx[q])
    BY DEF Apart
  <2> QED BY <1>1, <2>1, <2>2, Rewriting DEF Inv
<1>3. \A q \in Procs : tx'[q] = IF q = p THEN Blank ELSE tx[q]
  BY <1>1 DEF Inv, TypeOK
<1>4. /\ turn' \in [Turns -> TurnRow]
      /\ p \in Turns => turn'[p].at = "dead"
      /\ \A o \in Turns \ {p} : turn'[o] = turn[o]
  <2>1. CASE p \in Turns
    <3>1. Step(p, "dead")
      BY <2>1 DEF Gone, Step
    <3> QED BY <2>1, <3>1, StepType DEF Inv, Stages
  <2>2. CASE p \notin Turns
    BY <2>2 DEF Gone, Inv, TypeOK, TurnRow, Stages
  <2> QED BY <2>1, <2>2
<1>5. /\ sweep' \in [Sweeps -> [todo : SUBSET Keys, key : Keys \cup {Absent}]]
      /\ p \in Sweeps => sweep'[p] = [todo |-> {}, key |-> Absent]
      /\ \A r \in Sweeps \ {p} : sweep'[r] = sweep[r]
  <2>1. CASE p \in Sweeps
    <3>1. sweep' = [sweep EXCEPT ![p] = [todo |-> {}, key |-> Absent]]
      BY <2>1 DEF Gone
    <3> QED BY <3>1 DEF Inv, TypeOK
  <2>2. CASE p \notin Sweeps
    BY <2>2 DEF Gone, Inv, TypeOK
  <2> QED BY <2>1, <2>2
<1>6. TypeOK'
  BY <1>1, <1>2, <1>4, <1>5 DEF Inv, TypeOK, LedgerType, Tx, TurnRow, Stages, world, ledger
<1>7. OthersKept(p)
  BY <1>1, <1>3, <1>4, <1>5 DEF OthersKept, ledger
<1>8. Control'
  <2>1. p \in Turns => TurnOK(p)'
    BY <1>4 DEF TurnOK, Working
  <2>2. p \in Sweeps => SweepOK(p)'
    BY <1>5 DEF SweepOK, Selected
  <2> QED BY <2>1, <2>2, <1>7, ControlKept DEF Inv
<1>9. ASSUME Orderly PROVE OneAtATime'
  <2>1. OneAtATime
    BY <1>9 DEF Inv
  <2>2. p \in Turns => TurnAlone(p)'
    BY <1>3, <1>4 DEF TurnAlone, Live
  <2>3. p \in Sweeps => SweepAlone(p)'
    BY <1>3, <1>5 DEF SweepAlone, Selected
  <2>4. OwnRowsOnly(p) /\ lapsed' = lapsed /\ Uncharged(rows') /\ Uncharged(tx'[p].rows)
    BY <1>1, <1>3, <2>1 DEF OwnRowsOnly, OneAtATime, Uncharged, world, ledger
  <2> QED BY <2>1, <2>2, <2>3, <2>4, <1>7, <1>9, AloneKept DEF Inv
<1> QED BY <1>2, <1>6, <1>8, <1>9 DEF Inv

(* What a process is about to lock are windows.                              *)
LEMMA WantedType ==
    ASSUME Inv, NEW p \in Procs
    PROVE  Wanted(p) \subseteq Windows
<1> USE ProcsFacts
<1>1. CASE p \in Turns
  <2>1. turn[p].day \in 1 .. Days
    BY <1>1 DEF Inv, TypeOK
  <2>2. turn[p].at = "settling" => Seen(p, Key(p)) \in Reservation
    <3> SUFFICES ASSUME turn[p].at = "settling" PROVE Seen(p, Key(p)) \in Reservation
      OBVIOUS
    <3>1. Key(p) \in Keys
      BY <1>1
    <3>2. Overlay(tx[p], rows)[Key(p)] # Absent
      BY <1>1 DEF Inv, Control, TurnOK, Working
    <3>3. /\ tx[p].rows[Key(p)] \in Reservation \cup {Absent}
          /\ rows[Key(p)] \in Reservation \cup {Absent}
      BY <3>1 DEF Inv, TypeOK
    <3> QED BY <3>1, <3>2, <3>3 DEF Overlay, Seen
  <2>3. CASE turn[p].at = "reserving"
    BY <1>1, <2>1, <2>3, WindowsForType DEF Wanted
  <2>4. CASE turn[p].at = "settling"
    BY <1>1, <2>2, <2>4, WindowsOfType DEF Wanted
  <2>5. CASE turn[p].at \notin {"reserving", "settling"}
    BY <1>1, <2>5 DEF Wanted
  <2> QED BY <2>3, <2>4, <2>5
<1>2. CASE p \in Sweeps /\ sweep[p].key # Absent
  <2>1. sweep[p].key \in Keys /\ sweep[p].key \in Selected(p)
    BY <1>2 DEF Inv, TypeOK, Selected
  <2>2. rows[sweep[p].key] \in Reservation
    BY <1>2, <2>1 DEF Inv, TypeOK, Control, SweepOK
  <2> QED BY <1>2, <2>1, <2>2, WindowsOfType DEF Wanted
<1>3. CASE p \in Sweeps /\ sweep[p].key = Absent
  BY <1>3 DEF Wanted
<1> QED BY <1>1, <1>2, <1>3 DEF Procs

LEMMA LockStep ==
    ASSUME Inv, NEW p \in Procs, Lock(p)
    PROVE  Inv'
<1> USE ProcsFacts
<1>1. PICK w \in NextWindows(p) :
         /\ Free(w, p)
         /\ tx' = [tx EXCEPT ![p] = Locked(tx[p], w)]
         /\ UNCHANGED <<world, ledger, turn, sweep, bill, crashes>>
  BY DEF Lock
<1>2. w \in Windows /\ w \notin tx[p].held
  BY WantedType DEF NextWindows, Missing
<1> DEFINE me == Locked(tx[p], w)
<1>3. tx' = [tx EXCEPT ![p] = me]
  BY <1>1
<1>4. /\ me \in Tx
      /\ me.rows = tx[p].rows
      /\ MineOK(me, rows)
      /\ \A q \in Procs \ {p} : Apart(me, tx[q])
  BY <1>1, <1>2, LockOK DEF Inv
<1> HIDE DEF me
<1>5. LedgerType' /\ Ledger'
  BY <1>1, <1>3, <1>4, Rewriting DEF Inv
<1>6. /\ \A q \in Procs \ {p} : tx'[q] = tx[q]
      /\ tx'[p].rows = tx[p].rows
  BY <1>3, <1>4 DEF Inv, TypeOK
<1>7. TypeOK'
  BY <1>1, <1>5 DEF Inv, TypeOK, LedgerType, Tx, world, ledger
<1>8. \A q \in Procs : tx'[q].rows = tx[q].rows
  BY <1>6
<1>9. Control'
  <2>1. \A t \in Turns : TurnOK(t)'
    BY <1>1, <1>8 DEF Inv, Control, TurnOK, Overlay, ledger
  <2>2. \A s \in Sweeps : SweepOK(s)'
    BY <1>1 DEF Inv, Control, SweepOK, Selected, ledger
  <2> QED BY <2>1, <2>2 DEF Control
<1>10. ASSUME Orderly PROVE OneAtATime'
  <2>1. OneAtATime
    BY <1>10 DEF Inv
  <2>2. ASSUME NEW t \in Turns PROVE TurnAlone(t)'
    BY <1>1, <1>8, <2>1 DEF OneAtATime, TurnAlone, Overlay, Live, Key, world, ledger
  <2>3. ASSUME NEW s \in Sweeps PROVE SweepAlone(s)'
    BY <1>1, <1>8, <2>1 DEF OneAtATime, SweepAlone, Selected, world, ledger
  <2> QED BY <1>1, <1>8, <2>1, <2>2, <2>3 DEF OneAtATime, ledger
<1> QED BY <1>5, <1>7, <1>9, <1>10 DEF Inv

(* What is left to show when a turn has done its own part of the step.       *)
LEMMA TurnsPart ==
    ASSUME Inv, NEW t \in Turns, LedgerType', Ledger',
           UNCHANGED <<world, sweep, crashes>>,
           bill' \in [{w \in Windows : w.scope \in Metered} -> Nat],
           turn' \in [Turns -> TurnRow],
           \A o \in Turns \ {t} : turn'[o] = turn[o],
           \A q \in Procs \ {t} : tx'[q] = tx[q],
           \A k \in Keys : rows[k] # Absent => rows'[k] # Absent,
           TurnOK(t)',
           Orderly => /\ Uncharged(rows') /\ Uncharged(tx'[t].rows)
                      /\ TurnAlone(t)' /\ OwnRowsOnly(t)
    PROVE  Inv'
<1> USE ProcsFacts
<1>1. TypeOK'
  BY DEF Inv, TypeOK, LedgerType, Tx, TurnRow, Stages, world
<1>2. OthersKept(t)
  BY DEF OthersKept
<1>3. Control'
  BY <1>2, ControlKept DEF Inv
<1>4. ASSUME Orderly PROVE OneAtATime'
  <2>1. OneAtATime /\ lapsed' = lapsed
    BY <1>4 DEF Inv, world
  <2> QED BY <2>1, <1>2, <1>4, AloneKept DEF Inv
<1> QED BY <1>1, <1>3, <1>4 DEF Inv

LEMMA ReserveStep ==
    ASSUME Inv, NEW t \in Turns, Reserve(t)
    PROVE  Inv'
<1> USE ProcsFacts
<1> DEFINE k == Key(t)
           ws == WindowsFor[UserOf[k]][turn[t].day]
<1>1. /\ turn[t].at = "reserving" /\ Wanted(t) = ws /\ ws \subseteq tx[t].held
      /\ turn[t].day \in 1 .. Days /\ k \in Keys
      /\ UNCHANGED <<world, ledger, sweep, bill, crashes>>
  BY DEF Reserve, HasLocks, Wanted, Inv, TypeOK
<1>2. /\ \A j \in Keys : tx[t].rows[j] = Absent
      /\ \A q \in Procs \ {t} : tx[q].rows[k] = Absent
  BY <1>1 DEF Reserve, KeyTaken, Inv, Control, TurnOK
<1>3. PICK me \in Tx :
         /\ tx' = [tx EXCEPT ![t] = me]
         /\ MineOK(me, rows) /\ \A q \in Procs \ {t} : Apart(me, tx[q])
         /\ \A j \in Keys \ {k} : me.rows[j] = Absent
         /\ \/ Step(t, "refused") /\ me.rows[k] = Absent
            \/ /\ Step(t, "calling") /\ Overlay(me, rows)[k] # Absent
               /\ me.rows[k] \in {Absent, Promise(turn[t].day)}
  <2>1. CASE \E w \in Wanted(t) : Exceeds(tx[t], w)
    <3>1. Step(t, "refused") /\ tx' = [tx EXCEPT ![t] = Blank]
      BY <2>1 DEF Reserve
    <3>2. MineOK(Blank, rows) /\ \A q \in Procs \ {t} : Apart(Blank, tx[q])
      BY DEF MineOK, Apart
    <3> QED BY <3>1, <3>2, <1>1
  <2>2. CASE \A w \in Wanted(t) : ~ Exceeds(tx[t], w)
    <3> DEFINE mine == WithPromise(tx[t], k, ws, turn[t].day)
    <3>1. Step(t, "calling") /\ tx' = [tx EXCEPT ![t] = mine]
      BY <2>2, <1>1 DEF Reserve
    <3>2. /\ mine \in Tx /\ MineOK(mine, rows)
          /\ \A q \in Procs \ {t} : Apart(mine, tx[q])
          /\ Overlay(mine, rows)[k] # Absent
          /\ \A j \in Keys \ {k} : mine.rows[j] = tx[t].rows[j]
          /\ mine.rows[k] \in {Absent, Promise(turn[t].day)}
      <4>1. \A w \in ws : ~ Exceeds(tx[t], w)
        BY <2>2, <1>1
      <4> HIDE DEF ws, mine
      <4> QED BY <4>1, <1>1, <1>2, PromiseOK DEF Inv, ws, mine
    <3> HIDE DEF mine
    <3> QED BY <3>1, <3>2, <1>2
  <2> QED BY <2>1, <2>2
<1> HIDE DEF ws
<1>4. LedgerType' /\ Ledger'
  BY <1>1, <1>3, Rewriting DEF Inv
<1>5. tx'[t] = me /\ \A q \in Procs \ {t} : tx'[q] = tx[q]
  BY <1>3 DEF Inv, TypeOK
<1>6. /\ turn' \in [Turns -> TurnRow]
      /\ \A o \in Turns \ {t} : turn'[o] = turn[o]
      /\ \/ turn'[t].at = "refused" /\ me.rows[k] = Absent
         \/ turn'[t].at = "calling" /\ Overlay(me, rows)[k] # Absent
  <2>1. CASE Step(t, "refused") /\ me.rows[k] = Absent
    BY <2>1, StepType DEF Inv, Stages
  <2>2. CASE Step(t, "calling") /\ Overlay(me, rows)[k] # Absent
    BY <2>2, StepType DEF Inv, Stages
  <2> QED BY <1>3, <2>1, <2>2
<1>7. TurnOK(t)'
  BY <1>1, <1>5, <1>6 DEF TurnOK, Working, Overlay, ledger, Key
<1>8. ASSUME Orderly
      PROVE  /\ Uncharged(rows') /\ Uncharged(tx'[t].rows)
             /\ TurnAlone(t)' /\ OwnRowsOnly(t)
  <2>1. OneAtATime /\ Live(t)
    BY <1>1, <1>8 DEF Inv, Live
  <2>2. Uncharged(me.rows)
    BY <1>3 DEF Uncharged, Promise
  <2>3. TurnAlone(t)'
    <3>1. k \notin lapsed'
      BY <1>1, <2>1 DEF OneAtATime, TurnAlone, world
    <3>2. \A o \in Turns : (Live(o)' /\ Key(o) = k) => o = t
      BY <1>6, <2>1 DEF OneAtATime, TurnAlone, Live
    <3>3. turn'[t].at # "settling"
      BY <1>6
    <3>4. \A j \in Keys : me.rows[j] # Absent => Live(t)' /\ j = k
      BY <1>3, <1>6 DEF Live
    <3> QED BY <3>1, <3>2, <3>3, <3>4, <1>5 DEF TurnAlone, Key
  <2> QED BY <1>1, <1>5, <2>1, <2>2, <2>3 DEF OneAtATime, OwnRowsOnly, ledger
<1>9. /\ UNCHANGED <<world, sweep, crashes>> /\ \A j \in Keys : rows'[j] = rows[j]
      /\ bill' \in [{w \in Windows : w.scope \in Metered} -> Nat]
  BY <1>1 DEF ledger, Inv, TypeOK
<1> QED BY <1>4, <1>5, <1>6, <1>7, <1>8, <1>9, TurnsPart

(* A turn either goes on with its transaction or commits it as it stands.    *)
LEMMA AsItStands ==
    ASSUME Inv, NEW t \in Turns, Published(t, tx[t]) \/ UNCHANGED <<ledger, tx>>
    PROVE  /\ LedgerType' /\ Ledger'
           /\ tx'[t] \in {tx[t], Blank}
           /\ \A q \in Procs \ {t} : tx'[q] = tx[q]
           /\ \A k \in Keys : /\ Overlay(tx'[t], rows')[k] = Overlay(tx[t], rows)[k]
                              /\ rows'[k] \in {rows[k], Overlay(tx[t], rows)[k]}
                              /\ rows[k] # Absent => rows'[k] # Absent
<1> USE ProcsFacts
<1>1. CASE UNCHANGED <<ledger, tx>>
  <2>1. LedgerType' /\ Ledger'
    BY <1>1, LedgerSame DEF Inv
  <2> QED BY <2>1, <1>1 DEF ledger
<1>2. CASE Published(t, tx[t])
  <2>1. /\ tx[t] \in Tx /\ MineOK(tx[t], rows)
        /\ \A q \in Procs \ {t} : Apart(tx[t], tx[q])
    BY DEF Inv, TypeOK, Tx, Ledger
  <2>2. /\ LedgerType' /\ Ledger'
        /\ rows' = Overlay(tx[t], rows)
        /\ \A q \in Procs : tx'[q] = IF q = t THEN Blank ELSE tx[q]
    BY <1>2, <2>1, Publishing DEF Inv
  <2> QED BY <2>2 DEF Overlay
<1> QED BY <1>1, <1>2

(* Neither writes a reservation that the turn may not write.                 *)
LEMMA StandsAlone ==
    ASSUME Inv, Orderly, NEW t \in Turns, tx'[t] \in {tx[t], Blank},
           \A k \in Keys : rows'[k] \in {rows[k], Overlay(tx[t], rows)[k]}
    PROVE  Uncharged(rows') /\ Uncharged(tx'[t].rows) /\ OwnRowsOnly(t)
<1> USE ProcsFacts
<1>1. Uncharged(rows) /\ Uncharged(tx[t].rows) /\ TurnAlone(t)
  BY DEF Inv, OneAtATime
<1>2. Uncharged(rows')
  BY <1>1 DEF Uncharged, Overlay
<1>3. Uncharged(tx'[t].rows)
  BY <1>1 DEF Uncharged
<1>4. OwnRowsOnly(t)
  BY <1>1 DEF OwnRowsOnly, TurnAlone, Overlay
<1> QED BY <1>2, <1>3, <1>4

(* The answer writes down what the call cost; it changes no reservation.     *)
LEMMA AnswerStep ==
    ASSUME Inv, NEW t \in Turns, Answer(t)
    PROVE  Inv'
<1> USE ProcsFacts
<1> DEFINE Answered(ok, charge) ==
             /\ turn' = [turn EXCEPT ![t] = [@ EXCEPT !.at = "answered", !.ok = ok,
                                                        !.charge = charge]]
             /\ bill' = [w \in DOMAIN bill |->
                            IF w \in WindowsOf(Key(t), Seen(t, Key(t)))
                            THEN bill[w] + charge[Unit(w)] ELSE bill[w]]
             /\ Published(t, tx[t]) \/ UNCHANGED <<ledger, tx>>
<1>a. PICK ok \in BOOLEAN : \E charge \in Charges(Key(t), ok) : Answered(ok, charge)
  BY DEF Answer
<1>1. PICK charge \in Charges(Key(t), ok) : Answered(ok, charge)
  BY <1>a
<1>2. turn[t].at = "calling" /\ UNCHANGED <<world, sweep, crashes>>
  BY DEF Answer
<1>3. charge \in Charge
  <2>1. NoCharge \in Charge
    BY DEF NoCharge, Charge
  <2>2. \A cost \in Costs : [u \in Units |-> IF u = "usd" THEN cost ELSE 1] \in Charge
    BY ConstantsAssumption DEF Charge
  <2> QED BY <2>1, <2>2 DEF Charges
<1>4. bill' \in [{w \in Windows : w.scope \in Metered} -> Nat]
  <2>1. bill \in [{w \in Windows : w.scope \in Metered} -> Nat]
    BY DEF Inv, TypeOK
  <2>2. \A w : charge[Unit(w)] \in Nat
    BY <1>3 DEF Charge, Unit, Units
  <2> QED BY <1>1, <2>1, <2>2
<1>5. /\ turn' \in [Turns -> TurnRow] /\ turn'[t].at = "answered"
      /\ \A o \in Turns \ {t} : turn'[o] = turn[o]
  <2> DEFINE new == [turn[t] EXCEPT !.at = "answered", !.ok = ok, !.charge = charge]
  <2>1. turn[t] \in TurnRow
    BY DEF Inv, TypeOK, TurnRow, Stages
  <2>2. new \in TurnRow /\ new.at = "answered"
    BY <2>1, <1>3 DEF TurnRow, Stages
  <2>3. turn' = [turn EXCEPT ![t] = new]
    BY <1>1
  <2> HIDE DEF new
  <2> QED BY <2>2, <2>3, TurnUpdate DEF Inv
<1>6. /\ LedgerType' /\ Ledger'
      /\ tx'[t] \in {tx[t], Blank}
      /\ \A q \in Procs \ {t} : tx'[q] = tx[q]
      /\ \A k \in Keys : /\ Overlay(tx'[t], rows')[k] = Overlay(tx[t], rows)[k]
                         /\ rows'[k] \in {rows[k], Overlay(tx[t], rows)[k]}
                         /\ rows[k] # Absent => rows'[k] # Absent
  BY <1>1, AsItStands
<1>7. TurnOK(t)'
  <2>1. Overlay(tx[t], rows)[Key(t)] # Absent
    BY <1>2 DEF Inv, Control, TurnOK, Working
  <2> QED BY <2>1, <1>5, <1>6 DEF TurnOK, Key
<1>8. ASSUME Orderly
      PROVE  /\ Uncharged(rows') /\ Uncharged(tx'[t].rows)
             /\ TurnAlone(t)' /\ OwnRowsOnly(t)
  <2>1. OneAtATime /\ Live(t) /\ Live(t)'
    BY <1>2, <1>5, <1>8 DEF Inv, Live
  <2>2. TurnAlone(t)'
    <3>1. Key(t) \notin lapsed'
      BY <1>2, <2>1 DEF OneAtATime, TurnAlone, world
    <3>2. \A o \in Turns : (Live(o)' /\ Key(o) = Key(t)) => o = t
      BY <1>5, <2>1 DEF OneAtATime, TurnAlone, Live
    <3>3. \A k \in Keys : tx'[t].rows[k] # Absent => k = Key(t)
      BY <1>6, <2>1 DEF OneAtATime, TurnAlone
    <3> QED BY <3>1, <3>2, <3>3, <1>5, <2>1 DEF TurnAlone, Key
  <2> QED BY <2>2, <1>6, <1>8, StandsAlone
<1> QED BY <1>2, <1>4, <1>5, <1>6, <1>7, <1>8, TurnsPart

LEMMA EndedType ==
    ASSUME Inv, NEW t \in Turns, Ended(t)
    PROVE  /\ turn' \in [Turns -> TurnRow]
           /\ turn'[t].at \in {"done", "failed"}
           /\ \A o \in Turns \ {t} : turn'[o] = turn[o]
<1> DEFINE at == IF turn[t].ok THEN "done" ELSE "failed"
<1>1. at \in Stages /\ at \in {"done", "failed"} /\ Step(t, at)
  BY DEF Ended, Stages
<1> HIDE DEF at
<1> QED BY <1>1, StepType DEF Inv

LEMMA ReconcileStep ==
    ASSUME Inv, NEW t \in Turns, Reconcile(t)
    PROVE  Inv'
<1> USE ProcsFacts
<1>1. turn[t].at = "answered" /\ UNCHANGED <<world, sweep, bill, crashes>>
  BY DEF Reconcile
<1>2. /\ LedgerType' /\ Ledger'
      /\ tx'[t] \in {tx[t], Blank}
      /\ \A q \in Procs \ {t} : tx'[q] = tx[q]
      /\ \A k \in Keys : /\ Overlay(tx'[t], rows')[k] = Overlay(tx[t], rows)[k]
                         /\ rows'[k] \in {rows[k], Overlay(tx[t], rows)[k]}
                         /\ rows[k] # Absent => rows'[k] # Absent
  BY AsItStands DEF Reconcile
<1>3. /\ turn' \in [Turns -> TurnRow]
      /\ \A o \in Turns \ {t} : turn'[o] = turn[o]
      /\ \/ /\ turn'[t].at = "settling"
            /\ Overlay(tx[t], rows)[Key(t)].state = "reserved"
         \/ turn'[t].at \in {"done", "failed"} /\ tx'[t] = Blank
  <2>1. CASE Seen(t, Key(t)).state = "reserved"
    <3>1. Step(t, "settling")
      BY <2>1 DEF Reconcile
    <3>2. Overlay(tx[t], rows)[Key(t)] = Seen(t, Key(t))
      BY DEF Overlay, Seen
    <3> QED BY <2>1, <3>1, <3>2, StepType DEF Inv, Stages
  <2>2. CASE Seen(t, Key(t)).state # "reserved"
    <3>1. Ended(t) /\ Published(t, tx[t])
      BY <2>2 DEF Reconcile
    <3>2. tx'[t] = Blank
      BY <3>1 DEF Published, Inv, TypeOK
    <3> QED BY <3>1, <3>2, EndedType
  <2> QED BY <2>1, <2>2
<1>4. TurnOK(t)'
  <2>1. Overlay(tx[t], rows)[Key(t)] # Absent
    BY <1>1 DEF Inv, Control, TurnOK, Working
  <2> QED BY <2>1, <1>2, <1>3 DEF TurnOK, Working, Key
<1>5. ASSUME Orderly
      PROVE  /\ Uncharged(rows') /\ Uncharged(tx'[t].rows)
             /\ TurnAlone(t)' /\ OwnRowsOnly(t)
  <2>1. OneAtATime /\ Live(t)
    BY <1>1, <1>5 DEF Inv, Live
  <2>2. TurnAlone(t)'
    <3>1. Key(t) \notin lapsed'
      BY <1>1, <2>1 DEF OneAtATime, TurnAlone, world
    <3>2. \A o \in Turns : (Live(o)' /\ Key(o) = Key(t)) => o = t
      BY <1>3, <2>1 DEF OneAtATime, TurnAlone, Live
    <3>3. \A k \in Keys : tx'[t].rows[k] # Absent => Live(t)' /\ k = Key(t)
      BY <1>2, <1>3, <2>1 DEF OneAtATime, TurnAlone, Live
    <3>4. turn'[t].at = "settling" => Overlay(tx'[t], rows')[Key(t)].state = "reserved"
      BY <1>2, <1>3
    <3> QED BY <3>1, <3>2, <3>3, <3>4 DEF TurnAlone, Key
  <2> QED BY <2>2, <1>2, <1>5, StandsAlone
<1>6. /\ UNCHANGED <<world, sweep, crashes>>
      /\ bill' \in [{w \in Windows : w.scope \in Metered} -> Nat]
  BY <1>1 DEF Inv, TypeOK
<1> QED BY <1>2, <1>3, <1>4, <1>5, <1>6, TurnsPart

LEMMA SettlementRows ==
    ASSUME TypeOK, NEW p \in Procs, NEW k \in Keys, NEW row, NEW state, NEW charge,
           NEW mine, mine = WithSettlement(tx[p], k, row, state, charge)
    PROVE  /\ mine.rows[k] = [day |-> row.day, state |-> state, charge |-> charge]
           /\ \A j \in Keys \ {k} : mine.rows[j] = tx[p].rows[j]
<1>1. tx[p] \in Tx
  BY DEF TypeOK, Tx
<1>2. mine.rows = [tx[p].rows EXCEPT ![k] =
                      [day |-> row.day, state |-> state, charge |-> charge]]
  BY <1>1 DEF WithSettlement, Tx
<1> QED BY <1>1, <1>2 DEF Tx

LEMMA SettleStep ==
    ASSUME Inv, NEW t \in Turns, Settle(t)
    PROVE  Inv'
<1> USE ProcsFacts
<1> DEFINE k == Key(t)
           row == Seen(t, k)
           mine == WithSettlement(tx[t], k, row, "settled", turn[t].charge)
<1>1. /\ turn[t].at = "settling" /\ HasLocks(t) /\ Ended(t) /\ Published(t, mine)
      /\ UNCHANGED <<world, sweep, bill, crashes>>
  BY DEF Settle
<1>2. /\ row = Overlay(tx[t], rows)[k] /\ row \in Reservation /\ row # Absent
      /\ turn[t].charge \in Charge
  <2>1. row = Overlay(tx[t], rows)[k]
    BY DEF Overlay, Seen
  <2>2. Overlay(tx[t], rows)[k] # Absent
    BY <1>1 DEF Inv, Control, TurnOK, Working
  <2>3. rows[k] \in Reservation \cup {Absent} /\ tx[t].rows[k] \in Reservation \cup {Absent}
    BY DEF Inv, TypeOK
  <2>4. row \in Reservation
    BY <2>1, <2>2, <2>3 DEF Overlay
  <2>5. turn[t].charge \in Charge
    BY DEF Inv, TypeOK
  <2> QED BY <2>1, <2>2, <2>4, <2>5
<1>3. WindowsOf(k, row) \subseteq tx[t].held
  BY <1>1 DEF HasLocks, Wanted
<1>4. Orderly => row.state = "reserved" /\ row.charge = NoCharge
  <2> SUFFICES ASSUME Orderly PROVE row.state = "reserved" /\ row.charge = NoCharge
    OBVIOUS
  <2>1. OneAtATime
    BY DEF Inv
  <2>2. Overlay(tx[t], rows)[k].state = "reserved"
    BY <1>1, <2>1 DEF OneAtATime, TurnAlone
  <2>3. Overlay(tx[t], rows)[k].charge = NoCharge
    BY <1>2, <2>1, <2>2 DEF OneAtATime, Uncharged, Overlay
  <2> QED BY <1>2, <2>2, <2>3
<1> HIDE DEF row
<1>5. /\ mine \in Tx /\ mine.held = tx[t].held /\ MineOK(mine, rows)
      /\ \A q \in Procs \ {t} : Apart(mine, tx[q])
  BY <1>2, <1>3, <1>4, SettlementOK DEF Inv
<1>6. /\ mine.rows[k] = [day |-> row.day, state |-> "settled", charge |-> turn[t].charge]
      /\ \A j \in Keys \ {k} : mine.rows[j] = tx[t].rows[j]
  BY SettlementRows DEF Inv
<1> HIDE DEF mine
<1>7. /\ LedgerType' /\ Ledger' /\ rows' = Overlay(mine, rows)
      /\ \A q \in Procs : tx'[q] = IF q = t THEN Blank ELSE tx[q]
  BY <1>1, <1>5, Publishing DEF Inv
<1>8. /\ turn' \in [Turns -> TurnRow] /\ turn'[t].at \in {"done", "failed"}
      /\ \A o \in Turns \ {t} : turn'[o] = turn[o]
  BY <1>1, EndedType
<1>9. ASSUME Orderly
      PROVE  /\ Uncharged(rows') /\ Uncharged(tx'[t].rows)
             /\ TurnAlone(t)' /\ OwnRowsOnly(t)
  <2>1. Uncharged(rows) /\ Uncharged(tx[t].rows) /\ TurnAlone(t) /\ Live(t)
    BY <1>1, <1>9 DEF Inv, OneAtATime, Live
  <2>2. Uncharged(rows')
    BY <1>6, <1>7, <2>1 DEF Uncharged, Overlay
  <2>3. OwnRowsOnly(t)
    BY <1>6, <1>7, <2>1 DEF OwnRowsOnly, TurnAlone, Overlay
  <2>4. TurnAlone(t)'
    BY <1>7, <1>8 DEF TurnAlone, Live
  <2> QED BY <2>2, <2>3, <2>4, <1>7 DEF Uncharged
<1>10. TurnOK(t)' /\ \A j \in Keys : rows[j] # Absent => rows'[j] # Absent
  BY <1>7, <1>8 DEF TurnOK, Working, Overlay
<1>11. /\ UNCHANGED <<world, sweep, crashes>> /\ \A q \in Procs \ {t} : tx'[q] = tx[q]
       /\ bill' \in [{w \in Windows : w.scope \in Metered} -> Nat]
  BY <1>1, <1>7 DEF Inv, TypeOK
<1> QED BY <1>7, <1>8, <1>9, <1>10, <1>11, TurnsPart

LEMMA SweepOneStep ==
    ASSUME Inv, NEW s \in Sweeps, SweepOne(s)
    PROVE  Inv'
<1> USE ProcsFacts
<1> DEFINE k == sweep[s].key
           row == rows[k]
           mine == WithSettlement(tx[s], k, row, "expired", NoCharge)
           Row == [todo : SUBSET Keys, key : Keys \cup {Absent}]
<1>1. /\ k # Absent /\ HasLocks(s)
      /\ UNCHANGED <<world, turn, bill, crashes>>
      /\ \/ /\ sweep[s].todo = {} /\ Published(s, mine)
            /\ sweep' = [sweep EXCEPT ![s].key = Absent]
         \/ /\ tx' = [tx EXCEPT ![s] = mine] /\ UNCHANGED ledger
            /\ \E next \in sweep[s].todo :
                  sweep' = [sweep EXCEPT ![s] = [todo |-> @.todo \ {next}, key |-> next]]
  BY DEF SweepOne
<1>2. /\ sweep \in [Sweeps -> Row] /\ k \in Keys /\ k \in Selected(s)
      /\ Selected(s) \subseteq Keys
  BY <1>1 DEF Inv, TypeOK, Selected
<1>3. row \in Reservation /\ row # Absent
  BY <1>2 DEF Inv, TypeOK, Control, SweepOK
<1>4. WindowsOf(k, row) \subseteq tx[s].held
  BY <1>1 DEF HasLocks, Wanted
<1>5. /\ Overlay(tx[s], rows)[k] \in Reservation /\ Overlay(tx[s], rows)[k] # Absent
      /\ Overlay(tx[s], rows)[k].day = row.day
  <2>1. tx[s].rows[k] \in Reservation \cup {Absent}
    BY <1>2 DEF Inv, TypeOK
  <2>2. MineOK(tx[s], rows)
    BY DEF Inv, Ledger
  <2> QED BY <1>2, <1>3, <2>1, <2>2, AbsentIsNoReservation DEF Overlay, MineOK
<1>6. Orderly => /\ Overlay(tx[s], rows)[k].state = "reserved"
                 /\ Overlay(tx[s], rows)[k].charge = NoCharge
  <2> SUFFICES ASSUME Orderly
               PROVE  /\ Overlay(tx[s], rows)[k].state = "reserved"
                      /\ Overlay(tx[s], rows)[k].charge = NoCharge
    OBVIOUS
  <2>1. Uncharged(rows) /\ SweepAlone(s)
    BY DEF Inv, OneAtATime
  <2>2. row.state = "reserved" /\ tx[s].rows[k] = Absent
    BY <1>2, <2>1 DEF SweepAlone
  <2> QED BY <1>2, <1>3, <2>1, <2>2 DEF Overlay, Uncharged
<1>7. NoCharge \in Charge
  BY DEF NoCharge, Charge
<1> HIDE DEF k, row
<1>8. /\ mine \in Tx /\ mine.held = tx[s].held /\ MineOK(mine, rows)
      /\ \A q \in Procs \ {s} : Apart(mine, tx[q])
  BY <1>2, <1>3, <1>4, <1>5, <1>6, <1>7, SettlementOK DEF Inv
<1>9. /\ mine.rows[k] = [day |-> row.day, state |-> "expired", charge |-> NoCharge]
      /\ \A j \in Keys \ {k} : mine.rows[j] = tx[s].rows[j]
  BY <1>2, SettlementRows DEF Inv
<1> HIDE DEF mine
<1>10. /\ LedgerType' /\ Ledger'
       /\ \A q \in Procs \ {s} : tx'[q] = tx[q]
       /\ \/ /\ rows' = Overlay(mine, rows) /\ tx'[s] = Blank
             /\ sweep'[s].key = Absent /\ sweep'[s].todo = {}
          \/ /\ rows' = rows /\ tx'[s] = mine
             /\ \E next \in sweep[s].todo :
                   sweep'[s] = [todo |-> sweep[s].todo \ {next}, key |-> next]
       /\ sweep' \in [Sweeps -> Row]
       /\ \A r \in Sweeps \ {s} : sweep'[r] = sweep[r]
  <2>1. CASE /\ sweep[s].todo = {} /\ Published(s, mine)
             /\ sweep' = [sweep EXCEPT ![s].key = Absent]
    <3>1. /\ LedgerType' /\ Ledger' /\ rows' = Overlay(mine, rows)
          /\ \A q \in Procs : tx'[q] = IF q = s THEN Blank ELSE tx[q]
      BY <2>1, <1>8, Publishing DEF Inv
    <3>2. /\ sweep' \in [Sweeps -> Row] /\ sweep'[s].key = Absent /\ sweep'[s].todo = {}
          /\ \A r \in Sweeps \ {s} : sweep'[r] = sweep[r]
      BY <2>1, <1>2
    <3> QED BY <3>1, <3>2
  <2>2. CASE /\ tx' = [tx EXCEPT ![s] = mine] /\ UNCHANGED ledger
             /\ \E next \in sweep[s].todo :
                   sweep' = [sweep EXCEPT ![s] = [todo |-> @.todo \ {next}, key |-> next]]
    <3>1. LedgerType' /\ Ledger'
      BY <2>2, <1>8, Rewriting DEF Inv
    <3>2. tx'[s] = mine /\ \A q \in Procs \ {s} : tx'[q] = tx[q]
      BY <2>2 DEF Inv, TypeOK
    <3>3. PICK next \in sweep[s].todo :
             sweep' = [sweep EXCEPT ![s] = [todo |-> sweep[s].todo \ {next}, key |-> next]]
      BY <2>2
    <3>4. /\ sweep' \in [Sweeps -> Row]
          /\ sweep'[s] = [todo |-> sweep[s].todo \ {next}, key |-> next]
          /\ \A r \in Sweeps \ {s} : sweep'[r] = sweep[r]
      BY <3>3, <1>2
    <3> QED BY <2>2, <3>1, <3>2, <3>4 DEF ledger
  <2> QED BY <1>1, <2>1, <2>2
<1>11. TypeOK'
  BY <1>1, <1>10 DEF Inv, TypeOK, LedgerType, Tx, world
<1>12. OthersKept(s)
  BY <1>1, <1>10 DEF OthersKept, Overlay
<1>13. Selected(s)' \subseteq Selected(s)
  BY <1>2, <1>10, ConstantsAssumption DEF Selected
<1>14. Control'
  <2>1. SweepOK(s)'
    BY <1>2, <1>12, <1>13 DEF Inv, Control, SweepOK, OthersKept
  <2> QED BY <2>1, <1>12, ControlKept DEF Inv
<1>15. ASSUME Orderly PROVE OneAtATime'
  <2>1. /\ OneAtATime /\ Uncharged(rows) /\ Uncharged(tx[s].rows) /\ SweepAlone(s)
        /\ k \in lapsed /\ lapsed' = lapsed
    BY <1>1, <1>2, <1>15 DEF Inv, OneAtATime, SweepAlone, world
  <2>2. Uncharged(mine.rows) /\ Uncharged(Overlay(mine, rows))
    BY <1>9, <2>1 DEF Uncharged, Overlay
  <2>3. Uncharged(rows') /\ Uncharged(tx'[s].rows)
    BY <1>10, <2>1, <2>2 DEF Uncharged
  <2>4. \A j \in Keys : mine.rows[j] # Absent => j \in lapsed
    BY <1>9, <2>1 DEF SweepAlone
  <2>5. OwnRowsOnly(s)
    BY <1>10, <2>4 DEF OwnRowsOnly, Overlay
  <2>6. SweepAlone(s)'
    <3>1. CASE /\ tx'[s] = Blank
               /\ sweep'[s].key = Absent /\ sweep'[s].todo = {}
      BY <3>1 DEF SweepAlone, Selected
    <3>2. CASE /\ rows' = rows /\ tx'[s] = mine
               /\ \E next \in sweep[s].todo :
                     sweep'[s] = [todo |-> sweep[s].todo \ {next}, key |-> next]
      <4>1. PICK next \in sweep[s].todo :
               sweep'[s] = [todo |-> sweep[s].todo \ {next}, key |-> next]
        BY <3>2
      <4>2. next # Absent /\ k \notin sweep[s].todo
        BY <1>2, <2>1, ConstantsAssumption DEF SweepAlone, k
      <4>3. \A j \in Selected(s)' : j \in Keys /\ j # k /\ j \in Selected(s)
        BY <1>2, <1>13, <4>1, <4>2 DEF Selected
      <4>4. \A j \in Selected(s)' :
               j \in lapsed /\ rows[j].state = "reserved" /\ mine.rows[j] = Absent
        BY <1>9, <2>1, <4>3 DEF SweepAlone
      <4> QED BY <3>2, <4>1, <4>2, <4>4, <2>1, <2>4 DEF SweepAlone
    <3> QED BY <1>10, <3>1, <3>2
  <2> QED BY <2>1, <2>3, <2>5, <2>6, <1>12, <1>15, AloneKept DEF Inv
<1> QED BY <1>10, <1>11, <1>14, <1>15 DEF Inv

LEMMA StutterStep ==
    ASSUME Inv, UNCHANGED vars
    PROVE  Inv'
<1>1. LedgerType' /\ Ledger'
  BY LedgerSame DEF Inv, vars, ledger
<1>2. TypeOK'
  BY DEF Inv, TypeOK, vars
<1>3. Control'
  BY DEF Inv, Control, TurnOK, SweepOK, Selected, vars
<1>4. Orderly => OneAtATime'
  BY DEF Inv, OneAtATime, TurnAlone, SweepAlone, Selected, Live, Key, vars
<1> QED BY <1>1, <1>2, <1>3, <1>4 DEF Inv

----------------------------------------------------------------------------
(* Theorems                                                                  *)

LEMMA Started ==
    ASSUME Init
    PROVE  Inv
<1> USE ProcsFacts
<1>1. NoCharge \in Charge /\ 1 \in 1 .. Days /\ 0 \in 0 .. MaxCrashes
  BY ConstantsAssumption DEF NoCharge, Charge
<1>2. TypeOK
  BY <1>1 DEF Init, TypeOK, Counter, Tx
<1>3. ASSUME NEW w \in Windows PROVE Backed(counters[w], rows, w)
  <2>1. counters[w].reserved = 0 /\ counters[w].spent = 0
    BY DEF Init
  <2>2. PromisedIn(rows, w) = {} /\ ChargedIn(rows, w) = {}
    BY DEF Init, PromisedIn, ChargedIn, AgainstIn
  <2>3. Cardinality(PromisedIn(rows, w)) = 0 /\ Cardinality(ChargedIn(rows, w)) = 0
    BY <2>2, FS_EmptySet
  <2>4. Limit[w.scope] \in Nat \cup {Absent}
    BY WindowScope, ConstantsAssumption
  <2> QED BY <2>1, <2>3, <2>4 DEF Backed, Exact
<1>4. Ledger
  BY <1>3 DEF Init, Ledger, Apart, MineOK
<1>5. Control
  BY DEF Init, Control, TurnOK, SweepOK, Selected, Working
<1>6. OneAtATime
  BY DEF Init, OneAtATime, Uncharged, TurnAlone, SweepAlone, Selected, Live
<1> QED BY <1>2, <1>4, <1>5, <1>6 DEF Inv

LEMMA Kept ==
    ASSUME Inv, [Next]_vars
    PROVE  Inv'
<1>1. crashes \in 0 .. MaxCrashes /\ MaxCrashes \in Nat
  BY ConstantsAssumption DEF Inv, TypeOK
<1>2. ASSUME NEW t \in Turns, Ask(t) \/ TurnStep(t) PROVE Inv'
  BY <1>2, AskStep, ReserveStep, AnswerStep, ReconcileStep, SettleStep DEF TurnStep
<1>3. ASSUME NEW s \in Sweeps, SweepStep(s) PROVE Inv'
  BY <1>3, SweepSelectStep, SweepOneStep DEF SweepStep
<1>4. ASSUME NEW p \in Procs, Lock(p) PROVE Inv'
  BY <1>4, LockStep
<1>5. ASSUME NEW p \in Procs, Deadlocked(p) \/ Crash(p) PROVE Inv'
  <2>1. Gone(p) /\ crashes' \in 0 .. MaxCrashes
    BY <1>1, <1>5 DEF Deadlocked, Crash
  <2> QED BY <2>1, GoneStep
<1>6. ASSUME Midnight \/ \E k \in Keys : Expire(k) PROVE Inv'
  BY <1>6, TimeStep
<1>7. CASE UNCHANGED vars
  BY <1>7, StutterStep
<1> QED BY <1>2, <1>3, <1>4, <1>5, <1>6, <1>7 DEF Next, Wait

(* The invariant holds in every reachable state.                             *)
LEMMA Invariant ==
    Spec => []Inv
<1>1. Init => Inv
  BY Started
<1>2. Inv /\ [Next]_vars => Inv'
  BY Kept
<1> QED BY <1>1, <1>2, PTL DEF Spec

LEMMA SameSums ==
    \A w : /\ Promised(w) = PromisedIn(rows, w)
           /\ Charged(w) = ChargedIn(rows, w)
BY DEF Promised, PromisedIn, Charged, ChargedIn, Against, AgainstIn

(* Every counter and every reservation of the ledger keeps its type, and no  *)
(* step of reserve, reconcile or the sweep takes a counter below zero.       *)
THEOREM TypeCorrect ==
    Spec => []TypeOK
<1>1. Inv => TypeOK
  BY DEF Inv
<1> QED BY <1>1, Invariant, PTL

(* Whatever turns, sweeps, crashes and expiries do to each other, no counter *)
(* of AIBudgetService holds more than the outstanding reservations it was    *)
(* increased for: nothing that reserve took is ever lost for good.           *)
THEOREM NothingLeaksCorrect ==
    Spec => []NothingLeaks
<1>1. Inv => NothingLeaks
  <2> SUFFICES ASSUME Inv, NEW w \in Windows
               PROVE  counters[w].reserved <= Cardinality(Promised(w))
    BY DEF NothingLeaks
  <2>1. counters[w].reserved <= Cardinality(PromisedIn(rows, w))
    BY DEF Inv, Ledger, Backed
  <2> QED BY <2>1, SameSums
<1> QED BY <1>1, Invariant, PTL

(* With one sweep at a time and turns that end before their reservation      *)
(* expires, each counter is exactly what is promised and what was charged:   *)
(* reconcile and the sweep never settle a reservation twice.                 *)
THEOREM CountersAddUpCorrect ==
    ASSUME \A a, b \in Sweeps : a = b
    PROVE  Spec => []CountersAddUp
<1>1. Inv => CountersAddUp
  <2> SUFFICES ASSUME Inv, ~ MayOverrun, NEW w \in Windows
               PROVE  /\ counters[w].reserved = Cardinality(Promised(w))
                      /\ counters[w].spent = Cardinality(Charged(w))
    BY DEF CountersAddUp
  <2>1. Orderly
    BY DEF Orderly
  <2>2. Exact(counters[w], rows, w)
    BY <2>1 DEF Inv, Ledger, Backed
  <2> QED BY <2>2, SameSums DEF Exact
<1> QED BY <1>1, Invariant, PTL

(* Under the same conditions spent and reserved never pass a ceiling of      *)
(* windows_for together, however the turns that check it interleave.         *)
THEOREM CeilingHoldsCorrect ==
    ASSUME \A a, b \in Sweeps : a = b
    PROVE  Spec => []CeilingHolds
<1>1. Inv => CeilingHolds
  <2> SUFFICES ASSUME Inv, ~ MayOverrun, NEW w \in Windows, Limit[w.scope] # Absent
               PROVE  counters[w].spent + counters[w].reserved <= Limit[w.scope]
    BY DEF CeilingHolds
  <2>1. Orderly
    BY DEF Orderly
  <2>2. Exact(counters[w], rows, w)
    BY <2>1 DEF Inv, Ledger, Backed
  <2> QED BY <2>2 DEF Exact
<1> QED BY <1>1, Invariant, PTL
=============================================================================
