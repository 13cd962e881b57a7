------------------------- MODULE AIBudgetBookProofs -------------------------
(***************************************************************************)
(* The ledger of AI spend implements AIBudgetBook, for every number of      *)
(* turns, users, ceilings, days and crashes, without overruns and with one  *)
(* sweep at a time.                                                         *)
(*                                                                         *)
(* What a transaction has written is committed later, perhaps much later.   *)
(* The argument is that nothing can happen to the reservation meanwhile,    *)
(* and that the room a turn found when it held the counters is still there  *)
(* when it commits, because they stay locked until then.                    *)
(***************************************************************************)
EXTENDS AIBudgetProofs

(* A turn has promised only what has no reservation yet, and the sweep has   *)
(* expired only what is still reserved.                                      *)
Expired(row) == [row EXCEPT !.state = "expired"]

Pending ==
    /\ \A t \in Turns, k \in Keys :
          tx[t].rows[k] # Absent => rows[k] = Absent /\ tx[t].rows[k].state = "reserved"
    /\ \A s \in Sweeps, k \in Keys :
          tx[s].rows[k] # Absent =>
              /\ rows[k] # Absent /\ rows[k].state = "reserved"
              /\ tx[s].rows[k] = Expired(rows[k])

BookInv == Inv /\ Orderly /\ Pending

(* What a step does to the book, and that the next one starts as it did.     *)
Booked == Pending' /\ (Book!Next \/ rows' = rows)

----------------------------------------------------------------------------
(* Room                                                                      *)

LEMMA SameCardinality == \A S : Book!Cardinality(S) = Cardinality(S)
BY DEF Cardinality, Book!Cardinality

LEMMA BookSums ==
    ASSUME NEW w \in Windows
    PROVE  /\ Book!Promised(w) = PromisedIn(rows, w)
           /\ Book!Charged(w) = ChargedIn(rows, w)
<1>1. Book!Against(w) = AgainstIn(rows, w)
  BY DEF Book!Against, Book!Made, AgainstIn, WindowsOf
<1> QED BY <1>1 DEF Book!Promised, Book!Charged, PromisedIn, ChargedIn

(* What a turn has promised and not committed fits under every ceiling it    *)
(* counts in, next to all that is committed.                                 *)
LEMMA Room ==
    ASSUME BookInv, NEW t \in Turns, NEW k \in Keys, tx[t].rows[k] # Absent
    PROVE  /\ tx[t].rows[k].day \in 1 .. Days
           /\ tx[t].rows[k] =
                 [day |-> tx[t].rows[k].day, state |-> "reserved", charge |-> NoCharge]
           /\ Book!HasRoom(k, tx[t].rows[k].day)
<1> USE ProcsFacts
<1> DEFINE row == tx[t].rows[k]
           laid == Overlay(tx[t], rows)
<1>0. TurnAlone(t)
  BY DEF BookInv, Inv, OneAtATime
<1>1. /\ row \in Reservation /\ row.state = "reserved" /\ row.charge = NoCharge
      /\ rows[k] = Absent
  BY DEF BookInv, Pending, Inv, TypeOK, OneAtATime, Uncharged
<1>2. row.day \in 1 .. Days /\ row = [day |-> row.day, state |-> "reserved", charge |-> NoCharge]
  BY <1>1 DEF Reservation
<1>3. \A j \in Keys : laid[j] = IF j = k THEN row ELSE rows[j]
  BY <1>0, <1>1 DEF TurnAlone, Overlay
<1>4. WindowsOf(k, row) = WindowsFor[UserOf[k]][row.day] /\ WindowsOf(k, row) \subseteq Windows
  BY <1>1, WindowsOfType DEF WindowsOf
<1>5. ASSUME NEW w \in WindowsOf(k, row), Limit[w.scope] # Absent
      PROVE  Book!Taken(w) + 1 <= Limit[w.scope]
  <2> DEFINE promised == PromisedIn(rows, w)
             charged == ChargedIn(rows, w)
  <2>1. w \in Windows /\ w \in tx[t].held
    BY <1>4, <1>5 DEF BookInv, Inv, Ledger, MineOK
  <2>2. Exact(tx[t].counters[w], laid, w)
    BY <2>1 DEF BookInv, Inv, Ledger, MineOK, Backed
  <2>3. PromisedIn(laid, w) = promised \cup {k} /\ k \notin promised
    BY <1>1, <1>3 DEF PromisedIn, AgainstIn
  <2>4. ChargedIn(laid, w) = charged
    <3>1. row.charge[Unit(w)] = 0
      BY <1>1 DEF NoCharge, Unit, Units
    <3> QED BY <1>1, <1>3, <3>1 DEF ChargedIn, AgainstIn
  <2>5. IsFiniteSet(promised) /\ Cardinality(promised) \in Nat /\ Cardinality(charged) \in Nat
    BY SumsAreFinite
  <2>6. Cardinality(PromisedIn(laid, w)) = Cardinality(promised) + 1
    BY <2>3, <2>5, FS_AddElement
  <2>7. Limit[w.scope] \in Nat
    BY <1>5, <2>1, WindowScope, ConstantsAssumption
  <2>8. Book!Taken(w) = Cardinality(promised) + Cardinality(charged)
    BY <2>1, BookSums, SameCardinality DEF Book!Taken
  <2> HIDE DEF promised, charged, laid
  <2> QED BY <1>5, <2>2, <2>4, <2>5, <2>6, <2>7, <2>8 DEF Exact
<1>6. Book!HasRoom(k, row.day)
  BY <1>4, <1>5 DEF Book!HasRoom
<1> QED BY <1>2, <1>6

----------------------------------------------------------------------------
(* What has been written and not committed                                   *)

(* Steps that commit nothing and write nothing, but may roll back.           *)
LEMMA Quiet ==
    ASSUME BookInv, rows' = rows,
           \A p \in Procs, k \in Keys : tx'[p].rows[k] \in {tx[p].rows[k], Absent}
    PROVE  Booked
BY ProcsFacts DEF BookInv, Pending, Booked

(* A process commits what only it may write.                                 *)
LEMMA Committed ==
    ASSUME BookInv, NEW p \in Procs, tx'[p] = Blank,
           \A q \in Procs \ {p} : tx'[q] = tx[q],
           \A k \in Keys :
              \/ rows'[k] = rows[k]
              \/ p \in Turns /\ Live(p) /\ k = Key(p)
              \/ p \in Sweeps /\ k \in lapsed
    PROVE  Pending'
<1> USE ProcsFacts
<1>a. (\A t \in Turns : TurnAlone(t)) /\ \A s \in Sweeps : SweepAlone(s)
  BY DEF BookInv, Inv, OneAtATime
<1>1. ASSUME NEW q \in Procs \ {p}, NEW k \in Keys, tx[q].rows[k] # Absent
      PROVE  rows'[k] = rows[k]
  <2>1. CASE p \in Turns /\ Live(p) /\ k = Key(p)
    <3>1. k \notin lapsed
      BY <1>a, <2>1 DEF TurnAlone
    <3>2. q \notin Sweeps
      BY <1>1, <1>a, <3>1 DEF SweepAlone
    <3>3. q \in Turns
      BY <1>1, <3>2 DEF Procs
    <3> QED BY <1>1, <1>a, <2>1, <3>3 DEF TurnAlone
  <2>2. CASE p \in Sweeps /\ k \in lapsed
    <3>1. q \notin Sweeps
      BY <2>2 DEF BookInv, Orderly
    <3>2. q \in Turns
      BY <1>1, <3>1 DEF Procs
    <3> QED BY <1>1, <1>a, <2>2, <3>2 DEF TurnAlone
  <2> QED BY <2>1, <2>2
<1>2. \A k \in Keys : tx'[p].rows[k] = Absent
  BY DEF Blank
<1> QED BY <1>1, <1>2 DEF BookInv, Pending, Expired

----------------------------------------------------------------------------
(* Steps                                                                     *)

(* A turn that commits its transaction as it stands enters its promise.      *)
LEMMA PublishPromise ==
    ASSUME BookInv, NEW t \in Turns, Live(t), Published(t, tx[t])
    PROVE  Booked
<1> USE ProcsFacts
<1> DEFINE k == Key(t)
           row == tx[t].rows[k]
<1>1. /\ \A j \in Keys : rows'[j] = IF tx[t].rows[j] # Absent THEN tx[t].rows[j] ELSE rows[j]
      /\ rows \in [Keys -> Reservation \cup {Absent}]
      /\ rows' = [j \in Keys |-> rows'[j]]
      /\ tx'[t] = Blank /\ \A q \in Procs \ {t} : tx'[q] = tx[q]
  BY DEF Published, BookInv, Inv, TypeOK
<1>2. \A j \in Keys : tx[t].rows[j] # Absent => j = k
  BY DEF BookInv, Inv, OneAtATime, TurnAlone
<1>3. Pending'
  BY <1>1, <1>2, Committed
<1>4. CASE row = Absent
  <2>1. rows' = rows
    BY <1>1, <1>2, <1>4
  <2> QED BY <1>3, <2>1 DEF Booked
<1>5. CASE row # Absent
  <2>1. /\ row.day \in 1 .. Days /\ Book!HasRoom(k, row.day)
        /\ row = [day |-> row.day, state |-> "reserved", charge |-> NoCharge]
    BY <1>5, Room
  <2>2. rows[k] = Absent
    BY <1>5 DEF BookInv, Pending
  <2>3. rows' = [rows EXCEPT ![k] = row]
    BY <1>1, <1>2, <1>5
  <2>4. Book!Promise(k)
    BY <2>1, <2>2, <2>3 DEF Book!Promise, Book!Made, Book!Write
  <2> QED BY <1>3, <2>4 DEF Booked, Book!Next
<1> QED BY <1>4, <1>5

(* reserve writes its promise under a key that has none.                     *)
LEMMA ReserveBooked ==
    ASSUME BookInv, NEW t \in Turns, Reserve(t)
    PROVE  Booked
<1> USE ProcsFacts
<1> DEFINE k == Key(t)
           mine == WithPromise(tx[t], k, Wanted(t), turn[t].day)
<1>1. rows' = rows /\ (tx' = [tx EXCEPT ![t] = Blank] \/ tx' = [tx EXCEPT ![t] = mine])
  BY DEF Reserve, ledger
<1>2. tx \in [Procs -> Tx]
  BY DEF BookInv, Inv, TypeOK, Tx
<1>3. CASE tx' = [tx EXCEPT ![t] = Blank] \/ rows[k] # Absent
  <2>1. \A p \in Procs, j \in Keys : tx'[p].rows[j] \in {tx[p].rows[j], Absent}
    BY <1>1, <1>2, <1>3 DEF WithPromise
  <2> QED BY <1>1, <2>1, Quiet
<1>4. CASE tx' = [tx EXCEPT ![t] = mine] /\ rows[k] = Absent
  <2>1. mine.rows = [tx[t].rows EXCEPT ![k] = Promise(turn[t].day)]
    BY <1>2, <1>4 DEF WithPromise, Tx
  <2>2. /\ mine.rows[k].state = "reserved"
        /\ \A j \in Keys \ {k} : mine.rows[j] = tx[t].rows[j]
    BY <1>2, <2>1 DEF Promise, Tx
  <2>3. \A q \in Procs : tx'[q] = IF q = t THEN mine ELSE tx[q]
    BY <1>2, <1>4
  <2> HIDE DEF mine
  <2>4. Pending'
    BY <1>1, <1>4, <2>2, <2>3 DEF BookInv, Pending
  <2> QED BY <1>1, <2>4 DEF Booked
<1> QED BY <1>1, <1>3, <1>4

(* reconcile settles a promise, or enters and settles it in one commit when  *)
(* the whole turn is one transaction.                                        *)
LEMMA SettleBooked ==
    ASSUME BookInv, NEW t \in Turns, Settle(t)
    PROVE  Booked
<1> USE ProcsFacts
<1> DEFINE k == Key(t)
           row == Seen(t, k)
           paid == [day |-> row.day, state |-> "settled", charge |-> turn[t].charge]
           mine == WithSettlement(tx[t], k, row, "settled", turn[t].charge)
<1>1. Live(t) /\ Published(t, mine)
  BY DEF Settle, Live
<1>2. /\ mine.rows[k] = paid
      /\ \A j \in Keys \ {k} : mine.rows[j] = tx[t].rows[j]
  BY SettlementRows DEF BookInv, Inv
<1>3. paid # Absent /\ turn[t].charge \in Charge /\ row # Absent /\ row.state = "reserved"
  <2>1. row = Overlay(tx[t], rows)[k]
    BY DEF Overlay, Seen
  <2>2. Overlay(tx[t], rows)[k] # Absent
    BY DEF Settle, BookInv, Inv, Control, TurnOK, Working
  <2>3. TurnAlone(t)
    BY DEF BookInv, Inv, OneAtATime
  <2>4. row.state = "reserved"
    BY <2>1, <2>3 DEF Settle, TurnAlone
  <2>5. turn[t].charge \in Charge
    BY DEF BookInv, Inv, TypeOK
  <2>6. rows[k] \in Reservation \cup {Absent} /\ tx[t].rows[k] \in Reservation \cup {Absent}
    BY DEF BookInv, Inv, TypeOK
  <2>7. row \in Reservation
    BY <2>1, <2>2, <2>6 DEF Overlay
  <2>8. paid \in Reservation
    BY <2>5, <2>7 DEF Reservation
  <2> QED BY <2>1, <2>2, <2>4, <2>5, <2>8, AbsentIsNoReservation
<1>4. \A j \in Keys : tx[t].rows[j] # Absent => j = k
  BY DEF BookInv, Inv, OneAtATime, TurnAlone
<1>5. /\ \A j \in Keys : rows'[j] = IF mine.rows[j] # Absent THEN mine.rows[j] ELSE rows[j]
      /\ rows \in [Keys -> Reservation \cup {Absent}]
      /\ rows' = [j \in Keys |-> rows'[j]]
      /\ tx'[t] = Blank /\ \A q \in Procs \ {t} : tx'[q] = tx[q]
  BY <1>1 DEF Published, BookInv, Inv, TypeOK
<1>6. rows' = [rows EXCEPT ![k] = paid]
  BY <1>2, <1>3, <1>4, <1>5
<1>7. Pending'
  BY <1>1, <1>5, <1>6, Committed
<1>8. CASE tx[t].rows[k] = Absent
  <2>1. rows[k] = row
    BY <1>8 DEF Seen
  <2>2. Book!Settle(k)
    BY <1>3, <1>6, <2>1 DEF Book!Settle, Book!Made, Book!Write
  <2> QED BY <1>7, <2>2 DEF Booked, Book!Next
<1>9. CASE tx[t].rows[k] # Absent
  <2>1. row = tx[t].rows[k] /\ rows[k] = Absent
    BY <1>9 DEF Seen, BookInv, Pending
  <2>2. row.day \in 1 .. Days /\ Book!HasRoom(k, row.day)
    BY <1>9, <2>1, Room
  <2>3. Book!Spend(k)
    BY <1>3, <1>6, <2>1, <2>2 DEF Book!Spend, Book!Made, Book!Write
  <2> QED BY <1>7, <2>3 DEF Booked, Book!Next
<1> QED BY <1>8, <1>9

LEMMA AnswerBooked ==
    ASSUME BookInv, NEW t \in Turns, Answer(t)
    PROVE  Booked
<1>1. Live(t)
  BY DEF Answer, Live
<1>2. Published(t, tx[t]) \/ UNCHANGED <<ledger, tx>>
  BY DEF Answer
<1>3. CASE UNCHANGED <<ledger, tx>>
  BY <1>3, Quiet DEF ledger
<1> QED BY <1>1, <1>2, <1>3, PublishPromise

LEMMA ReconcileBooked ==
    ASSUME BookInv, NEW t \in Turns, Reconcile(t)
    PROVE  Booked
<1>1. Live(t)
  BY DEF Reconcile, Live
<1>2. Published(t, tx[t]) \/ UNCHANGED <<ledger, tx>>
  BY DEF Reconcile
<1>3. CASE UNCHANGED <<ledger, tx>>
  BY <1>3, Quiet DEF ledger
<1> QED BY <1>1, <1>2, <1>3, PublishPromise

(* The sweep gives back, in one commit, promises that nobody has touched     *)
(* since it selected them.                                                   *)
LEMMA SweepOneBooked ==
    ASSUME BookInv, NEW s \in Sweeps, SweepOne(s)
    PROVE  Booked
<1> USE ProcsFacts
<1> DEFINE k == sweep[s].key
           mine == WithSettlement(tx[s], k, rows[k], "expired", NoCharge)
           stale == {j \in Keys : mine.rows[j] # Absent}
<1>1. /\ k \in Keys /\ k \in Selected(s)
      /\ \/ Published(s, mine)
         \/ tx' = [tx EXCEPT ![s] = mine] /\ UNCHANGED ledger
  BY DEF SweepOne, BookInv, Inv, TypeOK, Selected
<1>2. SweepAlone(s) /\ Uncharged(rows)
  BY DEF BookInv, Inv, OneAtATime
<1>3. /\ rows[k] # Absent /\ rows[k].state = "reserved" /\ rows[k].charge = NoCharge
      /\ rows[k] \in Reservation /\ k \in lapsed
  <2>1. rows[k] # Absent
    BY <1>1 DEF BookInv, Inv, Control, SweepOK
  <2>2. rows[k].state = "reserved" /\ k \in lapsed
    BY <1>1, <1>2 DEF SweepAlone
  <2>3. rows[k] \in Reservation
    BY <1>1, <2>1 DEF BookInv, Inv, TypeOK
  <2> QED BY <1>1, <1>2, <2>1, <2>2, <2>3 DEF Uncharged
<1>4. /\ mine.rows[k] = [day |-> rows[k].day, state |-> "expired", charge |-> NoCharge]
      /\ \A j \in Keys \ {k} : mine.rows[j] = tx[s].rows[j]
  BY <1>1, SettlementRows DEF BookInv, Inv
<1>5. mine.rows[k] = Expired(rows[k])
  BY <1>3, <1>4 DEF Expired, Reservation
<1>6. \A j \in stale : /\ rows[j] # Absent /\ rows[j].state = "reserved" /\ j \in lapsed
                       /\ mine.rows[j] = Expired(rows[j])
  BY <1>2, <1>3, <1>4, <1>5 DEF BookInv, Pending, SweepAlone
<1>7. CASE tx' = [tx EXCEPT ![s] = mine] /\ UNCHANGED ledger
  <2>1. /\ \A q \in Procs : tx'[q] = IF q = s THEN mine ELSE tx[q]
        /\ rows' = rows
    BY <1>7 DEF ledger, BookInv, Inv, TypeOK
  <2> HIDE DEF mine
  <2>2. Pending'
    BY <1>6, <2>1 DEF BookInv, Pending, Expired
  <2> QED BY <2>1, <2>2 DEF Booked
<1>8. CASE Published(s, mine)
  <2>1. /\ \A j \in Keys : rows'[j] = IF mine.rows[j] # Absent THEN mine.rows[j] ELSE rows[j]
        /\ rows' = [j \in Keys |-> rows'[j]]
        /\ tx'[s] = Blank /\ \A q \in Procs \ {s} : tx'[q] = tx[q]
    BY <1>8 DEF Published, BookInv, Inv, TypeOK
  <2>2. Pending'
    BY <1>6, <2>1, Committed
  <2>3. rows' = [j \in Keys |-> IF j \in stale THEN Expired(rows[j]) ELSE rows[j]]
    BY <1>6, <2>1
  <2>4. Book!Release(stale)
    BY <1>6, <2>3 DEF Book!Release, Book!Made, Expired
  <2>5. stale \in SUBSET Keys
    OBVIOUS
  <2> QED BY <2>2, <2>4, <2>5 DEF Booked, Book!Next
<1> QED BY <1>1, <1>7, <1>8

(* A transaction that locks, ends without a commit or is rolled back, and    *)
(* everything that is not a write, leaves the book alone.                    *)
LEMMA OthersBooked ==
    ASSUME BookInv,
           \/ \E t \in Turns : Ask(t)
           \/ \E s \in Sweeps : SweepSelect(s)
           \/ \E p \in Procs : Wait(p) \/ Crash(p)
           \/ \E k \in Keys : Expire(k)
           \/ Midnight \/ UNCHANGED vars
    PROVE  Booked
<1> USE ProcsFacts
<1>1. tx \in [Procs -> Tx]
  BY DEF BookInv, Inv, TypeOK, Tx
<1>2. ASSUME NEW p \in Procs, Lock(p) PROVE Booked
  <2>1. PICK w : tx' = [tx EXCEPT ![p] = Locked(tx[p], w)] /\ UNCHANGED ledger
    BY <1>2 DEF Lock
  <2>2. Locked(tx[p], w).rows = tx[p].rows
    BY <1>1 DEF Locked, Tx
  <2>3. rows' = rows /\ \A q \in Procs : tx'[q].rows = tx[q].rows
    BY <1>1, <2>1, <2>2 DEF ledger
  <2> QED BY <2>3, Quiet
<1>3. ASSUME NEW p \in Procs, Gone(p) PROVE Booked
  <2>1. rows' = rows /\ \A q \in Procs : tx'[q] = tx[q] \/ tx'[q] = Blank
    BY <1>1, <1>3 DEF Gone, ledger
  <2> QED BY <2>1, Quiet
<1>4. CASE UNCHANGED <<ledger, tx>>
  BY <1>4, Quiet DEF ledger
<1>5. \/ \E p \in Procs : Lock(p) \/ Gone(p)
      \/ UNCHANGED <<ledger, tx>>
  BY DEF Ask, SweepSelect, Wait, Deadlocked, Crash, Expire, Midnight, vars, ledger
<1> QED BY <1>2, <1>3, <1>4, <1>5

LEMMA NextBooked ==
    ASSUME BookInv, [Next]_vars
    PROVE  Booked
<1>1. ASSUME NEW t \in Turns, TurnStep(t) PROVE Booked
  BY <1>1, ReserveBooked, AnswerBooked, ReconcileBooked, SettleBooked DEF TurnStep
<1>2. ASSUME NEW s \in Sweeps, SweepOne(s) PROVE Booked
  BY <1>2, SweepOneBooked
<1> QED BY <1>1, <1>2, OthersBooked DEF Next, SweepStep

----------------------------------------------------------------------------
(* Theorems                                                                  *)

LEMMA BookStarted ==
    ASSUME Init
    PROVE  Book!Init /\ Pending
<1> USE ProcsFacts
<1>1. rows = [k \in Keys |-> Absent] /\ \A p \in Procs : tx[p] = Blank
  BY DEF Init
<1> QED BY <1>1 DEF Book!Init, Pending

(* A transaction of the ledger never waits on something that has changed     *)
(* behind its back: while AIBudgetService has a promise that it has not yet  *)
(* committed nobody else enters the key, and what the sweep has expired and  *)
(* not committed is still reserved.                                          *)
THEOREM PendingCorrect ==
    ASSUME ~ MayOverrun, \A a, b \in Sweeps : a = b
    PROVE  Spec => []Pending
<1>1. Orderly
  BY DEF Orderly
<1>2. Init => Inv /\ Pending
  BY Started, BookStarted
<1>3. Inv /\ Pending /\ [Next]_vars => Inv' /\ Pending'
  BY <1>1, Kept, NextBooked DEF BookInv, Booked
<1> QED BY <1>2, <1>3, PTL DEF Spec

(* AIBudgetService implements AIBudgetBook when no turn outlasts its claim   *)
(* or its reservation and one sweep runs at a time: whatever the order of    *)
(* reserve, reconcile, the sweep, crashes and lost races, each commit makes  *)
(* one entry where every ceiling has room for it, or settles one that is     *)
(* still reserved, or releases some that nobody settled.                     *)
THEOREM ImplementsBookCorrect ==
    ASSUME ~ MayOverrun, \A a, b \in Sweeps : a = b
    PROVE  Spec => ImplementsBook
<1>1. Orderly
  BY DEF Orderly
<1>2. Init => Book!Init
  BY BookStarted
<1>3. Inv /\ Pending /\ [Next]_vars => [Book!Next]_rows
  BY <1>1, NextBooked DEF BookInv, Booked
<1> QED BY <1>2, <1>3, Invariant, PendingCorrect, PTL DEF Spec, ImplementsBook, Book!Spec
=============================================================================
