---------------------------- MODULE AIBudgetBook ----------------------------
(***************************************************************************)
(* What the ledger of AI spend promises, without counters, locks,           *)
(* transactions, crashes or retries: one book with at most one entry for a  *)
(* key.  An entry is made only when every ceiling it counts in has room for *)
(* it; it is settled once at what the call cost, or released at nothing,    *)
(* and is final then.  It never moves to another day.                       *)
(***************************************************************************)
EXTENDS Naturals, FiniteSets

CONSTANTS Keys,         \* the calls that may be entered
          Days,
          Windows,      \* what a ceiling is put on
          WindowsFor,   \* the windows an entry counts in, by key and day
          Ceiling,      \* the ceiling of each window, or None
          UnitOf,       \* what a window counts
          Charge,       \* what a call may cost, in each unit
          NoCharge,
          None

VARIABLE entry

Made(k) == entry[k] # None
Against(w) == {k \in Keys : Made(k) /\ w \in WindowsFor[k][entry[k].day]}
Promised(w) == {k \in Against(w) : entry[k].state = "reserved"}
Charged(w) == {k \in Against(w) : entry[k].charge[UnitOf[w]] = 1}
Taken(w) == Cardinality(Promised(w)) + Cardinality(Charged(w))

HasRoom(k, day) ==
    \A w \in WindowsFor[k][day] : Ceiling[w] # None => Taken(w) + 1 <= Ceiling[w]

Init == entry = [k \in Keys |-> None]

Write(k, day, state, charge) ==
    entry' = [entry EXCEPT ![k] = [day |-> day, state |-> state, charge |-> charge]]

Promise(k) ==
    /\ ~ Made(k)
    /\ \E day \in 1 .. Days : HasRoom(k, day) /\ Write(k, day, "reserved", NoCharge)

\* A call that is promised and paid for at once.
Spend(k) ==
    /\ ~ Made(k)
    /\ \E day \in 1 .. Days, charge \in Charge :
          HasRoom(k, day) /\ Write(k, day, "settled", charge)

Settle(k) ==
    /\ Made(k) /\ entry[k].state = "reserved"
    /\ \E charge \in Charge : Write(k, entry[k].day, "settled", charge)

\* Promises that nobody settled are given back together.
Release(stale) ==
    /\ \A k \in stale : Made(k) /\ entry[k].state = "reserved"
    /\ entry' = [k \in Keys |->
                    IF k \in stale THEN [entry[k] EXCEPT !.state = "expired"]
                    ELSE entry[k]]

Next ==
    \/ \E k \in Keys : Promise(k) \/ Spend(k) \/ Settle(k)
    \/ \E stale \in SUBSET Keys : Release(stale)

Spec == Init /\ [][Next]_entry
=============================================================================
