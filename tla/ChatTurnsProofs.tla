-------------------------- MODULE ChatTurnsProofs --------------------------
(***************************************************************************)
(* Theorems about ChatTurns, for every number of messages, requests, tries  *)
(* and faults.                                                              *)
(*                                                                         *)
(* Types, that no change is carried out twice, and that no plan overrides  *)
(* an approval it has not seen hold in every case.  That one request owns  *)
(* the chat and a message is answered once is proved for messages that are *)
(* not sent again while a request at them is open, and requests that do    *)
(* not outlast their lease (Orderly); there the claim of the session alone *)
(* keeps the turns apart, without the row locks of the chat.               *)
(***************************************************************************)
EXTENDS ChatTurns, FiniteSetTheorems, TLAPS

Progress == [at : Stages, seen : Chat, retry : BOOLEAN]

Orderly == ~ MayResend /\ ~ MayOverrun

----------------------------------------------------------------------------
(* What the ways of writing a turn leave behind                              *)

Statuses == NonTerminal \cup Terminal \cup {"NONE"}

LEMMA ReleasedIs ==
    ASSUME NEW turn \in Turn, NEW status \in Statuses
    PROVE  /\ Released(turn, status) \in Turn
           /\ Released(turn, status).status = status
           /\ ~ Released(turn, status).claim
           /\ Released(turn, status).stored = turn.stored
           /\ Released(turn, status).reply = turn.reply
BY DEF Released, Turn, Statuses

LEMMA CompletedIs ==
    ASSUME NEW turn \in Turn
    PROVE  /\ Completed(turn) \in Turn
           /\ Completed(turn).status = "COMPLETED"
           /\ ~ Completed(turn).claim
           /\ Completed(turn).stored = turn.stored
           /\ Completed(turn).reply = "answer"
BY DEF Completed, Released, Turn, Terminal

LEMMA WithResultIs ==
    ASSUME NEW turn \in Turn
    PROVE  /\ WithResult(turn) \in Turn
           /\ WithResult(turn).status = "EXECUTED"
           /\ WithResult(turn).claim = turn.claim
           /\ WithResult(turn).lease = "live"
           /\ WithResult(turn).stored
           /\ WithResult(turn).reply = turn.reply
BY DEF WithResult, Turn, NonTerminal

(* What recovery makes of a turn: it is settled and gives its claim back.    *)
LEMMA SettledIs ==
    ASSUME NEW turn \in Turn
    PROVE  /\ Settled(turn) \in Turn
           /\ Settled(turn).status \in Terminal
           /\ ~ Settled(turn).claim
           /\ Settled(turn).stored = turn.stored
           /\ Settled(turn).status = "ABANDONED" => ~ turn.stored
           /\ \/ Settled(turn).reply = turn.reply
              \/ /\ turn.reply = "none" /\ Settled(turn).reply = "answer"
                 /\ Settled(turn).status = "COMPLETED"
<1>1. \A status \in Terminal :
         /\ Released(turn, status) \in Turn
         /\ Released(turn, status).status = status
         /\ ~ Released(turn, status).claim
         /\ Released(turn, status).stored = turn.stored
         /\ Released(turn, status).reply = turn.reply
  BY ReleasedIs DEF Statuses
<1> QED BY <1>1, CompletedIs DEF Settled, Terminal

----------------------------------------------------------------------------
(* Types                                                                     *)

LEMMA RowWritten ==
    ASSUME TypeOK, NEW a \in Attempts, NEW turn \in Turn, Writes(a, turn)
    PROVE  /\ row' \in [Messages -> Turn]
           /\ row'[Message(a)] = turn
           /\ \A m \in Messages \ {Message(a)} : row'[m] = row[m]
BY ConstantsAssumption DEF TypeOK, Writes, Message

LEMMA AttemptMoved ==
    ASSUME TypeOK, NEW a \in Attempts, NEW at \in Stages, Goes(a, at)
    PROVE  /\ attempt' \in [Attempts -> Progress]
           /\ attempt'[a].at = at
           /\ attempt'[a].seen = attempt[a].seen
           /\ \A b \in Attempts \ {a} : attempt'[b] = attempt[b]
<1>1. attempt \in [Attempts -> Progress]
  BY DEF TypeOK, Progress
<1> QED BY <1>1 DEF Goes, Progress

LEMMA AttemptFailed ==
    ASSUME TypeOK, NEW a \in Attempts, NEW retry \in BOOLEAN, Fails(a, retry)
    PROVE  /\ attempt' \in [Attempts -> Progress]
           /\ attempt'[a].at = "failing"
           /\ \A b \in Attempts \ {a} : attempt'[b] = attempt[b]
<1>1. attempt \in [Attempts -> Progress]
  BY DEF TypeOK, Progress
<1> QED BY <1>1 DEF Fails, Progress, Stages

LEMMA Facts ==
    /\ \A a \in Attempts : Message(a) \in Messages /\ (IsText(a) <=> Message(a) \notin Clicks)
    /\ TypeOK => /\ \A a \in Attempts : Row(a) \in Turn /\ attempt[a].seen \in Chat /\ At(a) \in Stages
                 /\ \A m \in Messages : row[m] \in Turn
    /\ \A s \in Chat, m \in Messages : Changed(s, m) \in Chat
<1>1. \A a \in Attempts : Message(a) \in Messages /\ (IsText(a) <=> Message(a) \notin Clicks)
  BY ConstantsAssumption DEF Message, IsText
<1>2. ASSUME TypeOK
      PROVE  /\ \A a \in Attempts : Row(a) \in Turn /\ attempt[a].seen \in Chat /\ At(a) \in Stages
             /\ \A m \in Messages : row[m] \in Turn
  BY <1>1, <1>2 DEF TypeOK, Row, At
<1>3. \A s \in Chat, m \in Messages : Changed(s, m) \in Chat
  BY DEF Changed, Chat
<1> QED BY <1>1, <1>2, <1>3

----------------------------------------------------------------------------
(* The invariant                                                             *)

(* What is answered is done, and was answered once.                          *)
RowOK(m) ==
    /\ row[m].reply = "answer" => row[m].status = "COMPLETED"
    /\ answers[m] = IF row[m].reply = "answer" THEN 1 ELSE 0

(* Whoever works on a message holds the session with a live lease.           *)
AttemptOK(a) ==
    At(a) \in Working =>
        /\ Row(a).claim
        /\ Row(a).lease = "live"
        /\ At(a) \in {"planning", "executing"} => Row(a).status = "PLANNING"
        /\ At(a) = "executed" => Row(a).status = "EXECUTED"
        /\ At(a) = "talking" => Row(a).status = "COMPOSING"
        /\ At(a) = "clicking" => Row(a).status = "EXECUTING"

Active(a) == At(a) \notin {"idle", "ended", "dead"}

OneClaim == \A m, n \in Messages : (row[m].claim /\ row[n].claim) => m = n
OneRequest ==
    \A a, b \in Attempts :
        (Active(a) /\ Active(b) /\ Message(a) = Message(b)) => a = b

Safe ==
    /\ \A m \in Messages : RowOK(m)
    /\ \A a \in Attempts : AttemptOK(a)
    /\ OneClaim
    /\ OneRequest

Inv == TypeOK /\ (Orderly => Safe)

(* One message is worked on, and by one request.                             *)
LEMMA OwnerIsAlone ==
    ASSUME Safe, NEW a \in Attempts, NEW b \in Attempts,
           At(a) \in Working, Active(b),
           At(b) \in Working \/ Message(a) = Message(b)
    PROVE  a = b
<1>1. Active(a)
  BY DEF Active, Working
<1>2. CASE Message(a) = Message(b)
  BY <1>1, <1>2 DEF Safe, OneRequest
<1>3. CASE At(b) \in Working
  <2>1. Row(a).claim /\ Row(b).claim
    BY <1>3 DEF Safe, AttemptOK
  <2>2. Message(a) = Message(b)
    BY <2>1, Facts DEF Safe, OneClaim, Row
  <2> QED BY <2>2, <1>2
<1> QED BY <1>2, <1>3

----------------------------------------------------------------------------
(* A step of one request                                                     *)

LEMMA OwnStep ==
    ASSUME Safe, NEW a \in Attempts, Active(a),
           \A b \in Attempts \ {a} : attempt'[b] = attempt[b],
           \A m \in Messages \ {Message(a)} : row'[m] = row[m] /\ answers'[m] = answers[m],
           row'[Message(a)].claim => row[Message(a)].claim,
           RowOK(Message(a))', AttemptOK(a)'
    PROVE  Safe'
<1> USE Facts
<1>1. ASSUME NEW m \in Messages PROVE RowOK(m)'
  <2>1. CASE m = Message(a)
    BY <2>1
  <2>2. CASE m # Message(a)
    BY <2>2 DEF Safe, RowOK
  <2> QED BY <2>1, <2>2
<1>2. ASSUME NEW b \in Attempts PROVE AttemptOK(b)'
  <2>1. CASE b = a
    BY <2>1
  <2>2. CASE b # a
    <3> SUFFICES ASSUME At(b)' \in Working PROVE AttemptOK(b)'
      BY DEF AttemptOK
    <3>1. attempt'[b] = attempt[b] /\ At(b) \in Working /\ Active(b)
      BY <2>2 DEF At, Active, Working
    <3>2. Message(b) # Message(a)
      BY <2>2, <3>1, OwnerIsAlone
    <3>3. AttemptOK(b) /\ row'[Message(b)] = row[Message(b)]
      BY <3>2 DEF Safe
    <3> QED BY <3>1, <3>3 DEF AttemptOK, At, Row, Message
  <2> QED BY <2>1, <2>2
<1>3. OneClaim'
  <2>1. \A m \in Messages : row'[m].claim => row[m].claim
    OBVIOUS
  <2> QED BY <2>1 DEF Safe, OneClaim
<1>4. OneRequest'
  <2>1. \A b \in Attempts : Active(b)' => Active(b)
    BY DEF Active, At
  <2> QED BY <2>1 DEF Safe, OneRequest, Message
<1> QED BY <1>1, <1>2, <1>3, <1>4 DEF Safe

----------------------------------------------------------------------------
(* Requests arrive                                                           *)

LEMMA OpenStep ==
    ASSUME Inv, NEW a \in Attempts, Open(a)
    PROVE  Inv'
<1> USE Facts
<1>1. /\ At(a) = "idle" /\ UNCHANGED <<chat, row, approval, answers, escalated, faults>>
      /\ attempt' = [attempt EXCEPT ![a].at = "opened", ![a].seen = chat]
  BY DEF Open
<1>2. attempt \in [Attempts -> Progress]
  BY DEF Inv, TypeOK, Progress
<1>3. /\ attempt' \in [Attempts -> Progress] /\ attempt'[a].at = "opened"
      /\ \A b \in Attempts \ {a} : attempt'[b] = attempt[b]
  BY <1>1, <1>2 DEF Progress, Stages, Inv, TypeOK
<1>4. TypeOK'
  BY <1>1, <1>3 DEF Inv, TypeOK, Progress
<1>5. ASSUME Orderly PROVE Safe'
  <2>1. Safe
    BY <1>5 DEF Inv
  <2>2. \A m \in Messages : RowOK(m)'
    BY <1>1, <2>1 DEF Safe, RowOK
  <2>3. ASSUME NEW b \in Attempts PROVE AttemptOK(b)'
    BY <1>1, <1>3, <2>1 DEF Safe, AttemptOK, At, Row, IsText, Message, Working
  <2>4. OneClaim'
    BY <1>1, <2>1 DEF Safe, OneClaim
  <2>5. OneRequest'
    <3>1. \A b \in Attempts : Message(b) = Message(a) => ~ Active(b)
      BY <1>5 DEF Open, Active, Orderly
    <3>2. \A b \in Attempts \ {a} : Active(b)' => Active(b)
      BY <1>3 DEF Active, At
    <3> QED BY <3>1, <3>2, <2>1 DEF Safe, OneRequest, Message
  <2> QED BY <2>2, <2>3, <2>4, <2>5 DEF Safe
<1> QED BY <1>4, <1>5 DEF Inv

LEMMA ReplayStep ==
    ASSUME Inv, NEW a \in Attempts, Replay(a)
    PROVE  Inv'
<1> USE Facts
<1> DEFINE m == Message(a)
<1>1. /\ At(a) = "opened" /\ Goes(a, "ended") /\ UNCHANGED <<approval, escalated, faults>>
      /\ chat' \in Chat
  BY DEF Replay, Inv, TypeOK
<1>2. /\ attempt' \in [Attempts -> Progress] /\ attempt'[a].at = "ended"
      /\ \A b \in Attempts \ {a} : attempt'[b] = attempt[b]
  BY <1>1, AttemptMoved DEF Inv, Stages
<1>3. /\ row' \in [Messages -> Turn]
      /\ \A n \in Messages \ {m} : row'[n] = row[n] /\ answers'[n] = answers[n]
      /\ row'[m].stored = row[m].stored
      /\ row'[m].claim => row[m].claim
      /\ answers' \in [Messages -> Nat]
      /\ RowOK(m) => RowOK(m)'
  <2>1. CASE UNCHANGED <<row, answers>>
    BY <2>1 DEF Inv, TypeOK, RowOK
  <2>2. CASE /\ HasResult(Row(a)) /\ Row(a).reply # "none"
             /\ Writes(a, [Row(a) EXCEPT !.status = "COMPLETED"]) /\ UNCHANGED answers
    <3> DEFINE turn == [Row(a) EXCEPT !.status = "COMPLETED"]
    <3>1. /\ turn \in Turn /\ turn.status = "COMPLETED" /\ turn.stored = row[m].stored
          /\ turn.claim = row[m].claim /\ turn.reply = row[m].reply
      BY DEF Inv, Row, Turn, Terminal
    <3> HIDE DEF turn
    <3>2. row' \in [Messages -> Turn] /\ row'[m] = turn
          /\ \A n \in Messages \ {m} : row'[n] = row[n]
      BY <2>2, <3>1, RowWritten DEF Inv, turn
    <3> QED BY <2>2, <3>1, <3>2 DEF Inv, TypeOK, RowOK
  <2>3. CASE /\ HasResult(Row(a)) /\ Row(a).reply = "none"
             /\ Writes(a, Completed(Row(a)))
             /\ answers' = [answers EXCEPT ![m] = @ + 1]
    <3>1. row' \in [Messages -> Turn] /\ row'[m] = Completed(row[m])
          /\ \A n \in Messages \ {m} : row'[n] = row[n]
      BY <2>3, CompletedIs, RowWritten DEF Inv, Row
    <3>2. answers \in [Messages -> Nat]
      BY DEF Inv, TypeOK
    <3>3. /\ answers' \in [Messages -> Nat] /\ answers'[m] = answers[m] + 1
          /\ \A n \in Messages \ {m} : answers'[n] = answers[n]
      BY <2>3, <3>2
    <3>4. row[m] \in Turn /\ row[m].reply = "none"
      BY <2>3 DEF Inv, Row
    <3> QED BY <3>1, <3>3, <3>4, CompletedIs DEF RowOK
  <2> QED BY <2>1, <2>2, <2>3 DEF Replay
<1>4. TypeOK'
  BY <1>1, <1>2, <1>3 DEF Inv, TypeOK, Progress
<1>5. ASSUME Orderly PROVE Safe'
  <2>1. Safe
    BY <1>5 DEF Inv
  <2>2. RowOK(m)'
    BY <1>3, <2>1 DEF Safe
  <2>3. AttemptOK(a)' /\ Active(a)
    BY <1>1, <1>2 DEF AttemptOK, Active, At, Working
  <2> QED BY <1>2, <1>3, <2>1, <2>2, <2>3, OwnStep
<1> QED BY <1>4, <1>5 DEF Inv

(* A step of a request that writes no row.                                   *)
LEMMA OnlyMoves ==
    ASSUME Inv, NEW a \in Attempts, Active(a), NEW at \in Stages,
           attempt' \in [Attempts -> Progress], attempt'[a].at = at,
           \A b \in Attempts \ {a} : attempt'[b] = attempt[b],
           UNCHANGED <<chat, row, approval, answers, escalated>>,
           faults' \in 0 .. MaxFaults,
           AttemptOK(a) => AttemptOK(a)'
    PROVE  Inv'
<1> USE Facts
<1>1. TypeOK'
  BY DEF Inv, TypeOK, Progress
<1>2. ASSUME Orderly PROVE Safe'
  <2>1. Safe
    BY <1>2 DEF Inv
  <2>2. RowOK(Message(a))' /\ AttemptOK(a)'
    BY <2>1 DEF Safe, RowOK
  <2> QED BY <2>1, <2>2, OwnStep
<1> QED BY <1>1, <1>2 DEF Inv

LEMMA FailingStep ==
    ASSUME Inv, NEW a \in Attempts, Active(a), NEW retry \in BOOLEAN, Fails(a, retry),
           UNCHANGED <<chat, row, approval, answers, escalated>>,
           faults' \in 0 .. MaxFaults
    PROVE  Inv'
<1>1. /\ attempt' \in [Attempts -> Progress] /\ attempt'[a].at = "failing"
      /\ \A b \in Attempts \ {a} : attempt'[b] = attempt[b]
  BY AttemptFailed DEF Inv
<1>2. AttemptOK(a)' /\ "failing" \in Stages
  BY <1>1 DEF AttemptOK, At, Working, Stages
<1> QED BY <1>1, <1>2, OnlyMoves

LEMMA FaultsKept ==
    ASSUME Inv
    PROVE  /\ UNCHANGED faults => faults' \in 0 .. MaxFaults
           /\ (faults < MaxFaults /\ faults' = faults + 1) => faults' \in 0 .. MaxFaults
BY ConstantsAssumption DEF Inv, TypeOK

LEMMA RefuseStep ==
    ASSUME Inv, NEW a \in Attempts, Refuse(a) \/ Conflict(a) \/ Break(a)
    PROVE  Inv'
<1>1. /\ UNCHANGED <<chat, row, approval, answers, escalated>>
      /\ faults' \in 0 .. MaxFaults
      /\ Active(a)
  BY FaultsKept DEF Refuse, Conflict, Break, Active, Working
<1>2. \E retry \in BOOLEAN : Fails(a, retry)
  <2>1. (Row(a).status = "NONE") \in BOOLEAN
    OBVIOUS
  <2> QED BY <2>1 DEF Refuse, Conflict, Break
<1> QED BY <1>1, <1>2, FailingStep

LEMMA ExecuteStep ==
    ASSUME Inv, NEW a \in Attempts, Execute(a)
    PROVE  Inv'
<1> USE Facts
<1>1. /\ At(a) = "planning" /\ Goes(a, "executing")
      /\ UNCHANGED <<chat, row, approval, answers, escalated, faults>>
  BY DEF Execute
<1>2. /\ attempt' \in [Attempts -> Progress] /\ attempt'[a].at = "executing"
      /\ attempt'[a].seen = attempt[a].seen
      /\ \A b \in Attempts \ {a} : attempt'[b] = attempt[b]
  BY <1>1, AttemptMoved DEF Inv, Stages, Working
<1>3. AttemptOK(a) => AttemptOK(a)'
  BY <1>1, <1>2 DEF AttemptOK, At, Row, Working, IsText, Message
<1>4. Active(a) /\ "executing" \in Stages /\ faults' \in 0 .. MaxFaults
  BY <1>1, FaultsKept DEF Active, Stages, Working
<1> QED BY <1>1, <1>2, <1>3, <1>4, OnlyMoves

LEMMA CrashStep ==
    ASSUME Inv, NEW a \in Attempts, Crash(a)
    PROVE  Inv'
<1>1. /\ At(a) \in Working \cup {"failing"} /\ Goes(a, "dead")
      /\ UNCHANGED <<chat, row, approval, answers, escalated>>
      /\ faults' \in 0 .. MaxFaults
  BY FaultsKept DEF Crash
<1>2. /\ attempt' \in [Attempts -> Progress] /\ attempt'[a].at = "dead"
      /\ \A b \in Attempts \ {a} : attempt'[b] = attempt[b]
  BY <1>1, AttemptMoved DEF Inv, Stages
<1>3. AttemptOK(a)' /\ Active(a) /\ "dead" \in Stages
  BY <1>1, <1>2 DEF AttemptOK, At, Working, Active, Stages
<1> QED BY <1>1, <1>2, <1>3, OnlyMoves

----------------------------------------------------------------------------
(* Work on a message                                                         *)

LEMMA StartStep ==
    ASSUME Inv, NEW a \in Attempts, Start(a)
    PROVE  Inv'
<1> USE Facts
<1> DEFINE m == Message(a)
           status == IF IsText(a) THEN "PLANNING" ELSE "EXECUTING"
           at == IF IsText(a) THEN "planning" ELSE "clicking"
<1>1. /\ At(a) = "opened" /\ MayStart(row[m]) /\ MayClaim(m)
      /\ UNCHANGED <<chat, approval, answers, escalated, faults>>
      /\ row' = [n \in Messages |->
                    IF n = m THEN [row[n] EXCEPT !.status = status, !.claim = TRUE,
                                                 !.lease = "live"]
                    ELSE [row[n] EXCEPT !.claim = FALSE]]
      /\ Goes(a, at)
  BY DEF Start, Row
<1>2. /\ attempt' \in [Attempts -> Progress] /\ attempt'[a].at = at
      /\ \A b \in Attempts \ {a} : attempt'[b] = attempt[b]
  BY <1>1, AttemptMoved DEF Inv, Stages, Working
<1>3. /\ row' \in [Messages -> Turn]
      /\ row'[m].status = status /\ row'[m].claim /\ row'[m].lease = "live"
      /\ row'[m].stored = row[m].stored /\ row'[m].reply = row[m].reply
      /\ \A n \in Messages \ {m} :
            /\ row'[n].status = row[n].status /\ ~ row'[n].claim
            /\ row'[n].lease = row[n].lease
            /\ row'[n].stored = row[n].stored /\ row'[n].reply = row[n].reply
  BY <1>1 DEF Inv, TypeOK, Turn, NonTerminal
<1>4. TypeOK'
  BY <1>1, <1>2, <1>3 DEF Inv, TypeOK, Progress
<1>5. /\ UNCHANGED <<chat, answers>> /\ At(a) = "opened"
      /\ status \in {"PLANNING", "EXECUTING"} /\ at \in {"planning", "clicking"}
      /\ at = "planning" => status = "PLANNING"
      /\ at = "clicking" => status = "EXECUTING"
  BY <1>1
<1> HIDE DEF status, at
<1>6. ASSUME Orderly PROVE Safe'
  <2>1. Safe
    BY <1>6 DEF Inv
  <2>2. row[m].status # "COMPLETED"
    BY <1>1 DEF MayStart
  <2>3. ASSUME NEW n \in Messages PROVE RowOK(n)'
    <3>1. CASE n = m
      <4>1. RowOK(m)
        BY <2>1 DEF Safe
      <4>2. row'[m].reply # "answer" /\ answers'[m] = answers[m]
        BY <4>1, <1>3, <1>5, <2>2 DEF RowOK
      <4> QED BY <3>1, <4>1, <4>2, <1>3 DEF RowOK
    <3>2. CASE n # m
      <4>1. RowOK(n)
        BY <2>1 DEF Safe
      <4> QED BY <3>2, <4>1, <1>3, <1>5 DEF RowOK
    <3> QED BY <3>1, <3>2
  <2>4. ASSUME NEW b \in Attempts \ {a} PROVE At(b) \notin Working
    <3> SUFFICES ASSUME At(b) \in Working PROVE FALSE
      OBVIOUS
    <3>1. Row(b).claim /\ Row(b).status \in NonTerminal
      BY <2>1 DEF Safe, AttemptOK, Working, NonTerminal
    <3>2. Message(b) # m
      BY <1>1, <2>1, OwnerIsAlone DEF Active
    <3>3. Message(b) \in Holders(m) /\ Blocked(m)
      BY <3>1, <3>2 DEF Holders, Blocked, Row
    <3> QED BY <1>1, <3>3 DEF MayClaim
  <2>5. ASSUME NEW b \in Attempts PROVE AttemptOK(b)'
    <3>1. CASE b = a
      <4>1. /\ row'[m].claim /\ row'[m].lease = "live" /\ row'[m].status = status
            /\ attempt'[a].at = at
        BY <1>2, <1>3
      <4> QED BY <3>1, <4>1, <1>5 DEF AttemptOK, At, Row, Message
    <3>2. CASE b # a
      BY <3>2, <1>2, <2>4 DEF AttemptOK, At
    <3> QED BY <3>1, <3>2
  <2>6. OneClaim'
    BY <1>3 DEF OneClaim
  <2>7. OneRequest'
    <3>1. \A b \in Attempts : Active(b)' => Active(b)
      BY <1>1, <1>2 DEF Active, At
    <3> QED BY <3>1, <2>1 DEF Safe, OneRequest, Message
  <2> QED BY <2>3, <2>5, <2>6, <2>7 DEF Safe
<1> QED BY <1>4, <1>6 DEF Inv

LEMMA CheckpointStep ==
    ASSUME Inv, NEW a \in Attempts, Checkpoint(a)
    PROVE  Inv'
<1> USE Facts
<1> DEFINE m == Message(a)
<1>1. /\ At(a) = "executing" /\ Writes(a, WithResult(Row(a)))
      /\ chat' = Changed(attempt[a].seen, m)
      /\ attempt' = [attempt EXCEPT ![a].at = "executed", ![a].seen = chat']
      /\ UNCHANGED <<approval, answers, escalated, faults>>
  BY DEF Checkpoint
<1>2. chat' \in Chat
  BY <1>1 DEF Inv
<1>3. /\ attempt' \in [Attempts -> Progress] /\ attempt'[a].at = "executed"
      /\ attempt'[a].seen = chat'
      /\ \A b \in Attempts \ {a} : attempt'[b] = attempt[b]
  <2>1. attempt \in [Attempts -> Progress]
    BY DEF Inv, TypeOK, Progress
  <2> QED BY <1>1, <1>2, <2>1 DEF Progress, Stages, Working
<1>4. /\ row' \in [Messages -> Turn] /\ row'[m] = WithResult(row[m])
      /\ \A n \in Messages \ {m} : row'[n] = row[n]
  BY <1>1, WithResultIs, RowWritten DEF Inv, Row
<1>5. TypeOK'
  BY <1>1, <1>2, <1>3, <1>4 DEF Inv, TypeOK, Progress
<1>6. ASSUME Orderly PROVE Safe'
  <2>1. Safe /\ row[m].claim /\ row[m].status = "PLANNING"
    BY <1>1, <1>6 DEF Inv, Safe, AttemptOK, Working, Row
  <2>2. row[m] \in Turn /\ row[m].reply # "answer"
    BY <2>1 DEF Inv, Safe, RowOK
  <2>3. RowOK(m)'
    BY <1>1, <1>4, <2>1, <2>2, WithResultIs DEF Safe, RowOK
  <2>4. AttemptOK(a)'
    BY <1>3, <1>4, <2>1, <2>2, WithResultIs DEF AttemptOK, At, Row, Message
  <2>5. Active(a)
    BY <1>1 DEF Active
  <2> QED BY <1>1, <1>3, <1>4, <2>1, <2>2, <2>3, <2>4, <2>5, WithResultIs, OwnStep
<1> QED BY <1>5, <1>6 DEF Inv

LEMMA TalkStep ==
    ASSUME Inv, NEW a \in Attempts, Talk(a)
    PROVE  Inv'
<1> USE Facts
<1> DEFINE m == Message(a)
           turn == [row[m] EXCEPT !.status = "COMPOSING", !.lease = "live"]
<1>1. /\ At(a) = "planning" /\ Goes(a, "talking") /\ Writes(a, turn)
      /\ UNCHANGED <<chat, approval, answers, escalated, faults>>
  BY DEF Talk, Row
<1>2. /\ attempt' \in [Attempts -> Progress] /\ attempt'[a].at = "talking"
      /\ attempt'[a].seen = attempt[a].seen
      /\ \A b \in Attempts \ {a} : attempt'[b] = attempt[b]
  BY <1>1, AttemptMoved DEF Inv, Stages, Working
<1>3. /\ turn \in Turn /\ turn.status = "COMPOSING" /\ turn.lease = "live"
      /\ turn.claim = row[m].claim /\ turn.stored = row[m].stored
      /\ turn.reply = row[m].reply
  BY DEF Inv, Turn, NonTerminal
<1> HIDE DEF turn
<1>4. /\ row' \in [Messages -> Turn] /\ row'[m] = turn
      /\ \A n \in Messages \ {m} : row'[n] = row[n]
  BY <1>1, <1>3, RowWritten DEF Inv
<1>5. TypeOK'
  BY <1>1, <1>2, <1>4 DEF Inv, TypeOK, Progress
<1>6. ASSUME Orderly PROVE Safe'
  <2>1. Safe /\ row[m].claim /\ row[m].status = "PLANNING"
    BY <1>1, <1>6 DEF Inv, Safe, AttemptOK, Working, Row
  <2>2. RowOK(m)'
    BY <1>1, <1>3, <1>4, <2>1 DEF Safe, RowOK
  <2>3. AttemptOK(a)'
    BY <1>1, <1>2, <1>3, <1>4, <2>1 DEF AttemptOK, At, Row, Message
  <2>4. Active(a)
    BY <1>1 DEF Active
  <2> QED BY <1>1, <1>2, <1>3, <1>4, <2>1, <2>2, <2>3, <2>4, OwnStep
<1> QED BY <1>5, <1>6 DEF Inv

(* The end of a request that writes its turn: with or without an answer.     *)
LEMMA EndingStep ==
    ASSUME Inv, NEW a \in Attempts, At(a) \in Working, NEW turn \in Turn, Writes(a, turn),
           attempt' \in [Attempts -> Progress],
           attempt'[a].at \in {"ended", "failing"},
           \A b \in Attempts \ {a} : attempt'[b] = attempt[b],
           ~ turn.claim, turn.stored = Row(a).stored,
           \/ turn.reply = Row(a).reply /\ turn.status # "COMPLETED" /\ UNCHANGED answers
           \/ /\ turn.reply = "answer" /\ turn.status = "COMPLETED"
              /\ answers' = [answers EXCEPT ![Message(a)] = @ + 1],
           chat' \in Chat,
           UNCHANGED <<approval, escalated, faults>>
    PROVE  Inv'
<1> USE Facts
<1> DEFINE m == Message(a)
<1>1. /\ row' \in [Messages -> Turn] /\ row'[m] = turn
      /\ \A n \in Messages \ {m} : row'[n] = row[n]
  BY RowWritten DEF Inv
<1>2. answers \in [Messages -> Nat]
  BY DEF Inv, TypeOK
<1>3. /\ answers' \in [Messages -> Nat]
      /\ \A n \in Messages \ {m} : answers'[n] = answers[n]
      /\ turn.reply = Row(a).reply /\ turn.status # "COMPLETED" => answers'[m] = answers[m]
      /\ turn.status = "COMPLETED" => answers'[m] = answers[m] + 1
  BY <1>2
<1>4. TypeOK'
  BY <1>1, <1>3 DEF Inv, TypeOK, Progress
<1>5. ASSUME Orderly PROVE Safe'
  <2>1. Safe
    BY <1>5 DEF Inv
  <2>2. row[m].status \in NonTerminal /\ row[m].reply # "answer"
    BY <2>1 DEF Safe, AttemptOK, RowOK, Working, NonTerminal, Row
  <2>3. RowOK(m)'
    BY <1>1, <1>3, <2>1, <2>2 DEF Safe, RowOK, Row
  <2>4. AttemptOK(a)' /\ Active(a)
    BY DEF AttemptOK, At, Active, Working
  <2> QED BY <1>1, <1>3, <2>1, <2>3, <2>4, OwnStep
<1> QED BY <1>4, <1>5 DEF Inv

LEMMA FinishStep ==
    ASSUME Inv, NEW a \in Attempts, Finish(a)
    PROVE  Inv'
<1> USE Facts
<1>1. /\ At(a) \in Working /\ Goes(a, "ended") /\ chat' = attempt[a].seen
      /\ Writes(a, Completed(Row(a)))
      /\ answers' = [answers EXCEPT ![Message(a)] = @ + 1]
      /\ UNCHANGED <<approval, escalated, faults>>
  BY DEF Finish, Working
<1>2. /\ attempt' \in [Attempts -> Progress] /\ attempt'[a].at = "ended"
      /\ \A b \in Attempts \ {a} : attempt'[b] = attempt[b]
  BY <1>1, AttemptMoved DEF Inv, Stages
<1>3. Row(a) \in Turn /\ chat' \in Chat
  BY <1>1 DEF Inv
<1> QED BY <1>1, <1>2, <1>3, CompletedIs, EndingStep

LEMMA FailTurnStep ==
    ASSUME Inv, NEW a \in Attempts, FailTurn(a)
    PROVE  Inv'
<1> USE Facts
<1>1. PICK retry \in BOOLEAN :
         /\ Writes(a, Released(Row(a), IF retry THEN "RETRYABLE_FAILURE"
                                                ELSE "PERMANENT_FAILURE"))
         /\ Fails(a, retry)
  BY DEF FailTurn
<1> DEFINE status == IF retry THEN "RETRYABLE_FAILURE" ELSE "PERMANENT_FAILURE"
<1>2. /\ At(a) \in Working /\ chat' = attempt[a].seen
      /\ UNCHANGED <<approval, answers, escalated, faults>>
  BY DEF FailTurn, Working
<1>3. /\ attempt' \in [Attempts -> Progress] /\ attempt'[a].at = "failing"
      /\ \A b \in Attempts \ {a} : attempt'[b] = attempt[b]
  BY <1>1, AttemptFailed DEF Inv
<1>4. Row(a) \in Turn /\ chat' \in Chat
  BY <1>2 DEF Inv
<1>5. /\ status \in Statuses \ {"COMPLETED"}
      /\ Writes(a, Released(Row(a), status))
  BY <1>1 DEF Statuses, Terminal
<1> HIDE DEF status
<1>6. /\ Released(Row(a), status) \in Turn
      /\ Released(Row(a), status).status = status
      /\ ~ Released(Row(a), status).claim
      /\ Released(Row(a), status).stored = Row(a).stored
      /\ Released(Row(a), status).reply = Row(a).reply
  BY <1>4, <1>5, ReleasedIs
<1> DEFINE turn == Released(Row(a), status)
<1> HIDE DEF turn
<1>7. /\ turn \in Turn /\ turn.status = status /\ ~ turn.claim
      /\ turn.stored = Row(a).stored /\ turn.reply = Row(a).reply
      /\ Writes(a, turn)
  BY <1>5, <1>6 DEF turn
<1> QED BY <1>2, <1>3, <1>4, <1>5, <1>7, EndingStep

LEMMA ClickStep ==
    ASSUME Inv, NEW a \in Attempts, Click(a)
    PROVE  Inv'
<1> USE Facts
<1>1. /\ At(a) = "clicking" /\ At(a) \in Working /\ Goes(a, "ended")
      /\ UNCHANGED <<approval, escalated, faults>>
  BY DEF Click, Working
<1>2. /\ attempt' \in [Attempts -> Progress] /\ attempt'[a].at = "ended"
      /\ \A b \in Attempts \ {a} : attempt'[b] = attempt[b]
  BY <1>1, AttemptMoved DEF Inv, Stages
<1>3. Row(a) \in Turn
  BY DEF Inv
<1>4. CASE /\ chat' = Changed(attempt[a].seen, Message(a))
           /\ Writes(a, Completed(Row(a)))
           /\ answers' = [answers EXCEPT ![Message(a)] = @ + 1]
  <2>1. chat' \in Chat
    BY <1>4 DEF Inv
  <2> QED BY <1>1, <1>2, <1>3, <1>4, <2>1, CompletedIs, EndingStep
<1>5. CASE /\ Writes(a, Released(Row(a), "RETRYABLE_FAILURE"))
           /\ UNCHANGED <<chat, answers>>
  <2> DEFINE turn == Released(Row(a), "RETRYABLE_FAILURE")
  <2>1. /\ turn \in Turn /\ turn.status = "RETRYABLE_FAILURE" /\ ~ turn.claim
        /\ turn.stored = Row(a).stored /\ turn.reply = Row(a).reply
        /\ Writes(a, turn)
    BY <1>3, <1>5, ReleasedIs DEF Statuses, Terminal
  <2> HIDE DEF turn
  <2>2. chat' \in Chat
    BY <1>5 DEF Inv, TypeOK
  <2> QED BY <1>1, <1>2, <1>5, <2>1, <2>2, EndingStep
<1> QED BY <1>4, <1>5 DEF Click

LEMMA RecordFailureStep ==
    ASSUME Inv, NEW a \in Attempts, RecordFailure(a)
    PROVE  Inv'
<1> USE Facts
<1> DEFINE m == Message(a)
<1>1. /\ At(a) = "failing" /\ Goes(a, "ended")
      /\ UNCHANGED <<chat, approval, answers, escalated, faults>>
  BY DEF RecordFailure
<1>2. /\ attempt' \in [Attempts -> Progress] /\ attempt'[a].at = "ended"
      /\ \A b \in Attempts \ {a} : attempt'[b] = attempt[b]
  BY <1>1, AttemptMoved DEF Inv, Stages
<1>3. /\ row' \in [Messages -> Turn]
      /\ \A n \in Messages \ {m} : row'[n] = row[n]
      /\ row'[m].stored = row[m].stored
      /\ row'[m].claim => row[m].claim
      /\ RowOK(m) => RowOK(m)'
  <2>1. CASE UNCHANGED row
    BY <2>1, <1>1 DEF Inv, TypeOK, RowOK
  <2>2. CASE IsText(a) /\ MayFail(Row(a))
    <3> DEFINE status == IF attempt[a].retry THEN "RETRYABLE_FAILURE" ELSE "COMPLETED"
               released == Released(Row(a), status)
               turn == [released EXCEPT !.reply = "error"]
    <3>1. Row(a) \in Turn /\ Row(a).status # "COMPLETED" /\ Writes(a, turn)
      BY <2>2 DEF MayFail, Inv, RecordFailure
    <3>2. status \in Statuses /\ status \in {"RETRYABLE_FAILURE", "COMPLETED"}
      BY DEF Statuses, Terminal
    <3> HIDE DEF status
    <3>3. /\ released \in Turn /\ released.status = status /\ ~ released.claim
          /\ released.stored = Row(a).stored
      BY <3>1, <3>2, ReleasedIs
    <3> HIDE DEF released
    <3>4. /\ turn \in Turn /\ turn.status = status /\ ~ turn.claim
          /\ turn.stored = Row(a).stored /\ turn.reply = "error"
      BY <3>3 DEF Turn
    <3> HIDE DEF turn
    <3>5. row' \in [Messages -> Turn] /\ row'[m] = turn
          /\ \A n \in Messages \ {m} : row'[n] = row[n]
      BY <3>1, <3>4, RowWritten DEF Inv
    <3>6. RowOK(m) => RowOK(m)'
      BY <1>1, <3>1, <3>2, <3>4, <3>5 DEF RowOK, Row
    <3> QED BY <3>4, <3>5, <3>6 DEF Row
  <2> QED BY <2>1, <2>2 DEF RecordFailure
<1>4. TypeOK'
  BY <1>1, <1>2, <1>3 DEF Inv, TypeOK, Progress
<1>5. ASSUME Orderly PROVE Safe'
  <2>1. Safe
    BY <1>5 DEF Inv
  <2>2. RowOK(m)'
    BY <1>1, <1>3, <2>1 DEF Safe
  <2>3. AttemptOK(a)' /\ Active(a)
    BY <1>1, <1>2 DEF AttemptOK, Active, At, Working
  <2> QED BY <1>1, <1>2, <1>3, <2>1, <2>2, <2>3, OwnStep
<1> QED BY <1>4, <1>5 DEF Inv

----------------------------------------------------------------------------
(* Recovery, approval                                                        *)

(* A step that writes the row of a message that nobody works on.             *)
LEMMA RowStep ==
    ASSUME Inv, NEW m \in Messages, NEW turn \in Turn, row' = [row EXCEPT ![m] = turn],
           answers' \in [Messages -> Nat],
           \A n \in Messages \ {m} : answers'[n] = answers[n],
           UNCHANGED <<chat, attempt, approval, faults>>,
           escalated' \subseteq Messages,
           turn.stored = row[m].stored, turn.claim => row[m].claim,
           Safe => RowOK(m)',
           (Orderly /\ Safe) =>
               \A a \in Attempts : Message(a) = m => At(a) \notin Working
    PROVE  Inv'
<1> USE Facts
<1>1. /\ row' \in [Messages -> Turn] /\ row'[m] = turn
      /\ \A n \in Messages \ {m} : row'[n] = row[n]
  BY DEF Inv, TypeOK
<1>2. TypeOK'
  BY <1>1 DEF Inv, TypeOK
<1>3. ASSUME Orderly PROVE Safe'
  <2>1. Safe
    BY <1>3 DEF Inv
  <2>2. ASSUME NEW n \in Messages PROVE RowOK(n)'
    <3>1. CASE n = m
      BY <3>1, <2>1
    <3>2. CASE n # m
      BY <3>2, <1>1, <2>1 DEF Safe, RowOK
    <3> QED BY <3>1, <3>2
  <2>3. ASSUME NEW a \in Attempts PROVE AttemptOK(a)'
    <3>1. CASE Message(a) = m
      BY <3>1, <1>3, <2>1 DEF AttemptOK, At
    <3>2. CASE Message(a) # m
      <4>1. row'[Message(a)] = row[Message(a)] /\ AttemptOK(a)
        BY <3>2, <1>1, <2>1 DEF Safe
      <4> QED BY <4>1 DEF AttemptOK, At, Row, IsText, Message
    <3> QED BY <3>1, <3>2
  <2>4. OneClaim'
    <3>1. \A n \in Messages : row'[n].claim => row[n].claim
      BY <1>1
    <3> QED BY <3>1, <2>1 DEF Safe, OneClaim
  <2>5. OneRequest'
    BY <2>1 DEF Safe, OneRequest, Active, At, Message
  <2> QED BY <2>2, <2>3, <2>4, <2>5 DEF Safe
<1> QED BY <1>2, <1>3 DEF Inv

LEMMA LeaseExpiresStep ==
    ASSUME Inv, NEW m \in Messages, LeaseExpires(m)
    PROVE  Inv'
<1> USE Facts
<1> DEFINE turn == [row[m] EXCEPT !.lease = "expired"]
<1>1. /\ row' = [row EXCEPT ![m] = turn]
      /\ UNCHANGED <<chat, attempt, approval, answers, escalated, faults>>
      /\ MayOverrun \/ \A a \in Attempts : Message(a) = m => At(a) \notin Working
  BY DEF LeaseExpires
<1>2. /\ turn \in Turn /\ turn.status = row[m].status /\ turn.claim = row[m].claim
      /\ turn.stored = row[m].stored /\ turn.reply = row[m].reply
  BY DEF Inv, Turn
<1> HIDE DEF turn
<1>3. /\ answers' \in [Messages -> Nat] /\ \A n \in Messages : answers'[n] = answers[n]
      /\ escalated' \subseteq Messages
  BY <1>1 DEF Inv, TypeOK
<1>4. ASSUME Safe PROVE RowOK(m)'
  <2>1. row'[m] = turn
    BY <1>1 DEF Inv, TypeOK
  <2> QED BY <1>2, <1>3, <1>4, <2>1 DEF Safe, RowOK
<1> QED BY <1>1, <1>2, <1>3, <1>4, RowStep DEF Orderly

(* A stalled turn is nobody's.                                               *)
LEMMA StalledIsIdle ==
    ASSUME Safe, NEW m \in Messages, Stalled(row[m])
    PROVE  \A a \in Attempts : Message(a) = m => At(a) \notin Working
BY DEF Safe, AttemptOK, Stalled, Row

LEMMA RecoverStep ==
    ASSUME Inv, NEW m \in Messages, Recover(m)
    PROVE  Inv'
<1> USE Facts
<1> DEFINE turn == [row[m] EXCEPT !.tries = @ + 1]
<1>1. /\ Stalled(row[m]) /\ row' = [row EXCEPT ![m] = Settled(turn)]
      /\ answers' = IF turn.reply = "none" /\ Settled(turn).reply = "answer"
                    THEN [answers EXCEPT ![m] = @ + 1] ELSE answers
      /\ escalated' = IF turn.tries > MaxTries THEN escalated \cup {m} ELSE escalated
      /\ UNCHANGED <<chat, attempt, approval, faults>>
  BY DEF Recover
<1>2. row[m] \in Turn
  BY DEF Inv
<1>3. /\ turn \in Turn /\ turn.status = row[m].status /\ turn.claim = row[m].claim
      /\ turn.stored = row[m].stored /\ turn.reply = row[m].reply
  BY <1>2 DEF Turn
<1> HIDE DEF turn
<1>4. answers \in [Messages -> Nat] /\ escalated \subseteq Messages
  BY DEF Inv, TypeOK
<1>5. /\ answers' \in [Messages -> Nat]
      /\ \A n \in Messages \ {m} : answers'[n] = answers[n]
      /\ answers'[m] = IF turn.reply = "none" /\ Settled(turn).reply = "answer"
                       THEN answers[m] + 1 ELSE answers[m]
      /\ escalated' \subseteq Messages
  BY <1>1, <1>4
<1>6. ASSUME Safe PROVE RowOK(m)'
  <2>1. row'[m] = Settled(turn)
    BY <1>1 DEF Inv, TypeOK
  <2>2. turn.reply # "answer" /\ answers[m] = 0
    BY <1>1, <1>3, <1>6 DEF Safe, RowOK, Stalled, NonTerminal
  <2>3. /\ Settled(turn).status \in Terminal
        /\ Settled(turn).stored = turn.stored
        /\ Settled(turn).status = "ABANDONED" => ~ turn.stored
        /\ \/ Settled(turn).reply = turn.reply
           \/ /\ turn.reply = "none" /\ Settled(turn).reply = "answer"
              /\ Settled(turn).status = "COMPLETED"
    BY <1>3, SettledIs
  <2> QED BY <1>5, <2>1, <2>2, <2>3 DEF RowOK, Terminal
<1>7. /\ Settled(turn) \in Turn /\ ~ Settled(turn).claim
      /\ Settled(turn).stored = row[m].stored
  BY <1>3, SettledIs
<1>8. Safe => \A a \in Attempts : Message(a) = m => At(a) \notin Working
  BY <1>1, StalledIsIdle
<1> QED BY <1>1, <1>5, <1>6, <1>7, <1>8, RowStep

(* Steps that change neither a row nor a request, and no draft.              *)
LEMMA ElsewhereStep ==
    ASSUME Inv, UNCHANGED <<row, attempt, answers>>,
           chat' \in Chat,
           approval' \subseteq Chat, escalated' \subseteq Messages,
           faults' \in 0 .. MaxFaults
    PROVE  Inv'
<1> USE Facts
<1>1. TypeOK'
  BY DEF Inv, TypeOK
<1>2. ASSUME Orderly PROVE Safe'
  <2>1. Safe
    BY <1>2 DEF Inv
  <2>2. \A m \in Messages : RowOK(m)'
    BY <2>1 DEF Safe, RowOK
  <2>3. \A a \in Attempts : AttemptOK(a)'
    BY <2>1 DEF Safe, AttemptOK, At, Row, IsText, Message
  <2>4. OneClaim' /\ OneRequest'
    BY <2>1 DEF Safe, OneClaim, OneRequest, Active, At, Message
  <2> QED BY <2>2, <2>3, <2>4 DEF Safe
<1> QED BY <1>1, <1>2 DEF Inv

LEMMA RecoverRaisesStep ==
    ASSUME Inv, NEW m \in Messages, RecoverRaises(m)
    PROVE  Inv'
<1>1. /\ UNCHANGED <<chat, row, attempt, approval, answers>>
      /\ faults' \in 0 .. MaxFaults /\ escalated' = escalated \cup {m}
  BY FaultsKept DEF RecoverRaises
<1>2. chat' \in Chat /\ approval' \subseteq Chat /\ escalated' \subseteq Messages
  BY <1>1 DEF Inv, TypeOK
<1> QED BY <1>1, <1>2, ElsewhereStep

LEMMA ApprovalStep ==
    ASSUME Inv, OpenApproval \/ Approve
    PROVE  Inv'
<1>1. /\ UNCHANGED <<row, attempt, answers, escalated, faults>>
      /\ chat' \in Chat /\ approval' \subseteq Chat
  <2>1. chat \in Chat /\ approval \subseteq Chat
    BY DEF Inv, TypeOK
  <2>2. \A seen \in Chat : [seen EXCEPT !.approved = TRUE] \in Chat
    BY DEF Chat
  <2> QED BY <2>1, <2>2 DEF OpenApproval, Approve
<1> QED BY <1>1, ElsewhereStep DEF Inv, TypeOK

----------------------------------------------------------------------------
(* What the drafts carry                                                     *)

Within(draft, rows) ==
    \A m \in Messages \ Clicks : Copies(draft, m) <= IF rows[m].stored THEN 1 ELSE 0

Unmade == {"NONE", "PLANNING", "ABANDONED"}
Drafting == {"planning", "executing"}

(* No copy of the draft, however old, carries more than the rows record, and *)
(* a message that is being planned is not in the copy it works on.           *)
Ledger ==
    /\ \A m \in Messages : row[m].status \in Unmade => ~ row[m].stored
    /\ Within(chat.draft, row)
    /\ \A seen \in approval : Within(seen.draft, row)
    /\ \A a \in Attempts :
          /\ Within(attempt[a].seen.draft, row)
          /\ attempt[a].at \in Drafting =>
                 Message(a) \notin Clicks /\ Copies(attempt[a].seen.draft, Message(a)) = 0
          /\ attempt[a].at = "clicking" => Message(a) \in Clicks

LEMMA CopiesOf ==
    ASSUME NEW draft \in Seq(Messages), NEW m
    PROVE  IsFiniteSet({i \in DOMAIN draft : draft[i] = m}) /\ Copies(draft, m) \in Nat
<1>1. DOMAIN draft = 1 .. Len(draft) /\ Len(draft) \in Nat
  OBVIOUS
<1>2. IsFiniteSet(1 .. Len(draft))
  BY <1>1, FS_Interval
<1>3. {i \in DOMAIN draft : draft[i] = m} \subseteq 1 .. Len(draft)
  BY <1>1
<1>4. IsFiniteSet({i \in DOMAIN draft : draft[i] = m})
  BY <1>2, <1>3, FS_Subset
<1> QED BY <1>4, FS_CardinalityType DEF Copies

LEMMA OneMore ==
    ASSUME NEW draft \in Seq(Messages), NEW m \in Messages, NEW n \in Messages
    PROVE  Copies(Append(draft, n), m) = Copies(draft, m) + (IF m = n THEN 1 ELSE 0)
<1> DEFINE new == Append(draft, n)
           k == Len(draft) + 1
           was == {i \in DOMAIN draft : draft[i] = m}
           is == {i \in DOMAIN new : new[i] = m}
<1>1. /\ Len(draft) \in Nat /\ DOMAIN draft = 1 .. Len(draft) /\ DOMAIN new = 1 .. k
      /\ new[k] = n /\ \A i \in 1 .. Len(draft) : new[i] = draft[i]
  OBVIOUS
<1>2. /\ IsFiniteSet(was) /\ Cardinality(was) \in Nat
      /\ Copies(draft, m) = Cardinality(was) /\ Copies(new, m) = Cardinality(is)
  BY CopiesOf DEF Copies
<1>3. CASE m = n
  <2>1. is = was \cup {k} /\ k \notin was
    BY <1>1, <1>3
  <2> HIDE DEF new, k, was, is
  <2>2. Cardinality(is) = Cardinality(was) + 1
    BY <2>1, <1>2, FS_AddElement
  <2> QED BY <2>2, <1>2, <1>3 DEF new
<1>4. CASE m # n
  <2>1. is = was
    BY <1>1, <1>4
  <2> HIDE DEF new, was, is
  <2> QED BY <2>1, <1>2, <1>4 DEF new
<1> QED BY <1>3, <1>4

(* What a step may do to the rows: a stored result stays, and a turn that is *)
(* back at its beginning has none.                                           *)
RowsKept ==
    \A m \in Messages :
        /\ row[m].stored => row'[m].stored
        /\ row'[m].status \in Unmade => ~ row'[m].stored

LEMMA WriteKeeps ==
    ASSUME TypeOK, Ledger, NEW a \in Attempts, NEW turn \in Turn, Writes(a, turn),
           Row(a).stored => turn.stored, turn.status \in Unmade => ~ turn.stored
    PROVE  RowsKept
<1>1. /\ row'[Message(a)] = turn
      /\ \A m \in Messages \ {Message(a)} : row'[m] = row[m]
  BY RowWritten
<1> QED BY <1>1 DEF RowsKept, Ledger, Row

LEMMA WithinStays ==
    ASSUME NEW draft \in Seq(Messages), Within(draft, row), RowsKept
    PROVE  Within(draft, row')
<1> SUFFICES ASSUME NEW m \in Messages \ Clicks
             PROVE  Copies(draft, m) <= IF row'[m].stored THEN 1 ELSE 0
  BY DEF Within
<1>1. /\ Copies(draft, m) \in Nat
      /\ Copies(draft, m) <= IF row[m].stored THEN 1 ELSE 0
      /\ row[m].stored => row'[m].stored
  BY CopiesOf DEF Within, RowsKept
<1> QED BY <1>1

(* A step that only passes copies on.                                        *)
LEMMA LedgerStep ==
    ASSUME TypeOK, Ledger, RowsKept,
           \A seen \in approval' : seen \in approval \/ seen = chat,
           Within(chat'.draft, row'),
           \A a \in Attempts :
               /\ attempt'[a].seen \in {attempt[a].seen, chat, chat'}
               /\ attempt'[a].at \in Drafting =>
                      /\ attempt'[a].seen = attempt[a].seen
                      /\ \/ attempt[a].at \in Drafting
                         \/ /\ Message(a) \notin Clicks
                            /\ Copies(attempt[a].seen.draft, Message(a)) = 0
               /\ attempt'[a].at = "clicking" =>
                      attempt[a].at = "clicking" \/ Message(a) \in Clicks
    PROVE  Ledger'
<1>1. /\ chat.draft \in Seq(Messages)
      /\ \A seen \in approval : seen.draft \in Seq(Messages)
      /\ \A a \in Attempts : attempt[a].seen.draft \in Seq(Messages)
  BY DEF TypeOK, Chat
<1>2. /\ Within(chat.draft, row')
      /\ \A seen \in approval : Within(seen.draft, row')
      /\ \A a \in Attempts : Within(attempt[a].seen.draft, row')
  BY <1>1, WithinStays DEF Ledger
<1>3. \A seen \in approval' : Within(seen.draft, row')
  BY <1>2
<1>4. ASSUME NEW a \in Attempts
      PROVE  /\ Within(attempt'[a].seen.draft, row')
             /\ attempt'[a].at \in Drafting =>
                    /\ Message(a) \notin Clicks
                    /\ Copies(attempt'[a].seen.draft, Message(a)) = 0
             /\ attempt'[a].at = "clicking" => Message(a) \in Clicks
  BY <1>2 DEF Ledger
<1>5. \A m \in Messages : row'[m].status \in Unmade => ~ row'[m].stored
  BY DEF RowsKept
<1> QED BY <1>3, <1>4, <1>5 DEF Ledger, Message

(* A step that writes the chat back from a copy, or not at all, and moves at *)
(* most one request on.                                                      *)
LEMMA CopyStep ==
    ASSUME TypeOK, Ledger, RowsKept,
           \/ chat' = chat
           \/ \E a \in Attempts : chat' = attempt[a].seen
           \/ \E seen \in approval : chat'.draft = seen.draft,
           \A seen \in approval' : seen \in approval \/ seen = chat,
           \A a \in Attempts :
               \/ attempt'[a] = attempt[a]
               \/ /\ attempt'[a].at \notin Drafting \cup {"clicking"}
                  /\ attempt'[a].seen \in {attempt[a].seen, chat}
               \/ /\ attempt[a].at \in Drafting /\ attempt'[a].at \in Drafting
                  /\ attempt'[a].seen = attempt[a].seen
    PROVE  Ledger'
<1>1. /\ chat.draft \in Seq(Messages)
      /\ \A seen \in approval : seen.draft \in Seq(Messages)
      /\ \A a \in Attempts : attempt[a].seen.draft \in Seq(Messages)
  BY DEF TypeOK, Chat
<1>2. Within(chat'.draft, row')
  BY <1>1, WithinStays DEF Ledger
<1>3. ASSUME NEW a \in Attempts
      PROVE  /\ attempt'[a].seen \in {attempt[a].seen, chat, chat'}
             /\ attempt'[a].at \in Drafting =>
                    attempt'[a].seen = attempt[a].seen /\ attempt[a].at \in Drafting
             /\ attempt'[a].at = "clicking" => attempt[a].at = "clicking"
  BY DEF Drafting
<1> QED BY <1>2, <1>3, LedgerStep

(* A request changes the draft it has read.                                  *)
LEMMA ChangedIsWithin ==
    ASSUME NEW seen \in Chat, NEW n \in Messages, Within(seen.draft, row), RowsKept,
           n \notin Clicks => Copies(seen.draft, n) = 0 /\ row'[n].stored
    PROVE  Within(Changed(seen, n).draft, row')
<1>1. seen.draft \in Seq(Messages) /\ Changed(seen, n).draft = Append(seen.draft, n)
  BY DEF Chat, Changed
<1>2. Within(seen.draft, row')
  BY <1>1, WithinStays
<1> SUFFICES ASSUME NEW m \in Messages \ Clicks
             PROVE  Copies(Append(seen.draft, n), m) <= IF row'[m].stored THEN 1 ELSE 0
  BY <1>1 DEF Within
<1>3. /\ Copies(Append(seen.draft, n), m) = Copies(seen.draft, m) + (IF m = n THEN 1 ELSE 0)
      /\ Copies(seen.draft, m) \in Nat
      /\ Copies(seen.draft, m) <= IF row'[m].stored THEN 1 ELSE 0
  BY <1>1, <1>2, OneMore, CopiesOf DEF Within
<1> QED BY <1>3

LEMMA RowsSame ==
    ASSUME Ledger, UNCHANGED row
    PROVE  RowsKept
BY DEF Ledger, RowsKept

(* The request goes on, or fails, and its row ends up with what it had.      *)
LEMMA RequestLedger ==
    ASSUME TypeOK, Ledger, NEW a \in Attempts,
           \/ Replay(a) \/ Refuse(a) \/ Execute(a) \/ Conflict(a) \/ Talk(a)
           \/ Finish(a) \/ FailTurn(a) \/ RecordFailure(a) \/ Break(a) \/ Crash(a)
    PROVE  Ledger'
<1> USE Facts
<1> DEFINE turn == Row(a)
<1>1. turn \in Turn
  OBVIOUS
<1>2. RowsKept
  <2>1. CASE UNCHANGED row
    BY <2>1, RowsSame
  <2>2. CASE Writes(a, Completed(turn))
    BY <2>2, <1>1, CompletedIs, WriteKeeps DEF Unmade
  <2>3. CASE Writes(a, [turn EXCEPT !.status = "COMPLETED"])
    <3> DEFINE new == [turn EXCEPT !.status = "COMPLETED"]
    <3>1. new \in Turn /\ new.status = "COMPLETED" /\ new.stored = turn.stored
      BY <1>1 DEF Turn, Terminal
    <3> QED BY <2>3, <3>1, WriteKeeps DEF Unmade
  <2>4. CASE Writes(a, [turn EXCEPT !.status = "COMPOSING", !.lease = "live"])
    <3> DEFINE new == [turn EXCEPT !.status = "COMPOSING", !.lease = "live"]
    <3>1. new \in Turn /\ new.status = "COMPOSING" /\ new.stored = turn.stored
      BY <1>1 DEF Turn, NonTerminal
    <3> QED BY <2>4, <3>1, WriteKeeps DEF Unmade
  <2>5. CASE FailTurn(a)
    <3>1. PICK status \in {"RETRYABLE_FAILURE", "PERMANENT_FAILURE"} :
             Writes(a, Released(turn, status))
      BY <2>5 DEF FailTurn
    <3>2. /\ Released(turn, status) \in Turn /\ Released(turn, status).status = status
          /\ Released(turn, status).stored = turn.stored
      BY <1>1, ReleasedIs DEF Statuses, Terminal
    <3> QED BY <3>1, <3>2, WriteKeeps DEF Unmade
  <2>6. CASE RecordFailure(a) /\ ~ UNCHANGED row
    <3>1. PICK status \in {"RETRYABLE_FAILURE", "COMPLETED"} :
             Writes(a, [Released(turn, status) EXCEPT !.reply = "error"])
      BY <2>6 DEF RecordFailure
    <3> DEFINE released == Released(turn, status)
               new == [released EXCEPT !.reply = "error"]
    <3>2. /\ released \in Turn /\ released.status = status
          /\ released.stored = turn.stored
      BY <1>1, ReleasedIs DEF Statuses, Terminal
    <3> HIDE DEF released
    <3>3. new \in Turn /\ new.status = status /\ new.stored = turn.stored
      BY <3>2 DEF Turn
    <3> QED BY <3>1, <3>3, WriteKeeps DEF Unmade, released
  <2>7. CASE Refuse(a) \/ Execute(a) \/ Conflict(a) \/ Break(a) \/ Crash(a)
    BY <2>1, <2>7 DEF Refuse, Execute, Conflict, Break, Crash
  <2>8. CASE Replay(a)
    BY <2>1, <2>2, <2>3, <2>8 DEF Replay
  <2>9. CASE Talk(a) \/ Finish(a)
    BY <2>2, <2>4, <2>9 DEF Talk, Finish
  <2> QED BY <2>5, <2>6, <2>1, <2>7, <2>8, <2>9
<1>3. /\ chat' = chat \/ chat' = attempt[a].seen
      /\ approval' = approval
  BY DEF Replay, Refuse, Execute, Conflict, Talk, Finish, FailTurn, RecordFailure,
         Break, Crash
<1>4. /\ \A b \in Attempts \ {a} : attempt'[b] = attempt[b]
      /\ attempt'[a].seen = attempt[a].seen
      /\ attempt'[a].at \in Drafting => attempt[a].at \in Drafting
      /\ attempt'[a].at # "clicking"
  <2>1. attempt \in [Attempts -> Progress]
    BY DEF TypeOK, Progress
  <2>2. \/ \E at \in {"ended", "talking", "dead"} : Goes(a, at)
        \/ \E retry : Fails(a, retry)
        \/ attempt[a].at \in Drafting /\ Goes(a, "executing")
    BY DEF Replay, Refuse, Execute, Conflict, Talk, Finish, FailTurn, RecordFailure,
           Break, Crash, Stages, Working, Drafting, At
  <2> QED BY <2>1, <2>2 DEF Goes, Fails, Progress, Drafting
<1> QED BY <1>2, <1>3, <1>4, CopyStep

LEMMA StartLedger ==
    ASSUME TypeOK, Ledger, NEW a \in Attempts, Open(a) \/ Start(a)
    PROVE  Ledger'
<1> USE Facts
<1>1. attempt \in [Attempts -> Progress]
  BY DEF TypeOK, Progress
<1>2. CASE Open(a)
  <2>1. /\ UNCHANGED <<chat, row, approval>>
        /\ attempt' = [attempt EXCEPT ![a].at = "opened", ![a].seen = chat]
    BY <1>2 DEF Open
  <2>2. /\ attempt'[a].at = "opened" /\ attempt'[a].seen = chat
        /\ \A b \in Attempts \ {a} : attempt'[b] = attempt[b]
    BY <1>1, <2>1 DEF Progress
  <2>3. RowsKept
    BY <2>1, RowsSame
  <2>4. \A seen \in approval' : seen \in approval \/ seen = chat
    BY <2>1
  <2> QED BY <2>1, <2>2, <2>3, <2>4, CopyStep DEF Drafting
<1>3. CASE Start(a)
  <2> DEFINE m == Message(a)
  <2>1. /\ MayStart(row[m]) /\ UNCHANGED <<chat, approval>>
        /\ \A n \in Messages : row'[n].stored = row[n].stored
        /\ \A n \in Messages \ {m} : row'[n].status = row[n].status
        /\ Goes(a, IF IsText(a) THEN "planning" ELSE "clicking")
    BY <1>3 DEF Start, Row, TypeOK, Turn
  <2>2. ~ row[m].stored
    BY <2>1 DEF MayStart, Ledger, Unmade
  <2>3. RowsKept
    BY <2>1, <2>2 DEF RowsKept, Ledger
  <2>4. /\ attempt'[a].seen = attempt[a].seen
        /\ attempt'[a].at \in Drafting => m \notin Clicks
        /\ attempt'[a].at = "clicking" => m \in Clicks
        /\ \A b \in Attempts \ {a} : attempt'[b] = attempt[b]
    BY <1>1, <2>1 DEF Goes, Progress, Drafting, IsText
  <2>5. m \notin Clicks => Copies(attempt[a].seen.draft, m) = 0
    <3>1. attempt[a].seen.draft \in Seq(Messages)
      BY DEF TypeOK, Chat
    <3>2. Copies(attempt[a].seen.draft, m) \in Nat
      BY <3>1, CopiesOf
    <3> QED BY <3>2, <2>2 DEF Ledger, Within
  <2>6. Within(chat'.draft, row')
    <3>1. chat.draft \in Seq(Messages)
      BY DEF TypeOK, Chat
    <3> QED BY <3>1, <2>1, <2>3, WithinStays DEF Ledger
  <2> QED BY <2>1, <2>3, <2>4, <2>5, <2>6, LedgerStep
<1> QED BY <1>2, <1>3

(* Checkpoint and Click write a draft that nobody has had before.            *)
LEMMA ChangeLedger ==
    ASSUME TypeOK, Ledger, NEW a \in Attempts, Checkpoint(a) \/ Click(a)
    PROVE  Ledger'
<1> USE Facts
<1> DEFINE m == Message(a)
<1>1. /\ attempt \in [Attempts -> Progress] /\ Row(a) \in Turn
      /\ Within(attempt[a].seen.draft, row)
  BY DEF TypeOK, Progress, Ledger
<1>2. CASE Checkpoint(a)
  <2>1. /\ attempt[a].at \in Drafting /\ Writes(a, WithResult(Row(a)))
        /\ chat' = Changed(attempt[a].seen, m)
        /\ attempt' = [attempt EXCEPT ![a].at = "executed", ![a].seen = chat']
        /\ UNCHANGED approval
    BY <1>2 DEF Checkpoint, Drafting, At
  <2>2. RowsKept /\ row'[m].stored
    BY <1>1, <2>1, WithResultIs, WriteKeeps, RowWritten DEF Unmade
  <2>3. Within(chat'.draft, row')
    BY <1>1, <2>1, <2>2, ChangedIsWithin DEF Ledger
  <2>4. /\ attempt'[a].at = "executed" /\ attempt'[a].seen = chat'
        /\ \A b \in Attempts \ {a} : attempt'[b] = attempt[b]
    BY <1>1, <2>1 DEF Progress
  <2> QED BY <2>1, <2>2, <2>3, <2>4, LedgerStep DEF Drafting
<1>3. CASE Click(a)
  <2>1. /\ attempt[a].at = "clicking" /\ Goes(a, "ended") /\ UNCHANGED approval
    BY <1>3 DEF Click, At
  <2>2. /\ attempt'[a].at = "ended" /\ attempt'[a].seen = attempt[a].seen
        /\ \A b \in Attempts \ {a} : attempt'[b] = attempt[b]
    BY <1>1, <2>1 DEF Goes, Progress
  <2>3. CASE chat' = Changed(attempt[a].seen, m) /\ Writes(a, Completed(Row(a)))
    <3>1. RowsKept
      BY <1>1, <2>3, CompletedIs, WriteKeeps DEF Unmade
    <3>2. m \in Clicks
      BY <2>1 DEF Ledger
    <3>3. Within(chat'.draft, row')
      BY <1>1, <2>3, <3>1, <3>2, ChangedIsWithin
    <3> QED BY <2>1, <2>2, <3>1, <3>3, LedgerStep DEF Drafting
  <2>4. CASE Writes(a, Released(Row(a), "RETRYABLE_FAILURE")) /\ UNCHANGED chat
    <3>1. RowsKept
      BY <1>1, <2>4, ReleasedIs, WriteKeeps DEF Unmade, Statuses, Terminal
    <3> QED BY <2>1, <2>2, <2>4, <3>1, CopyStep DEF Drafting
  <2> QED BY <1>3, <2>3, <2>4 DEF Click
<1> QED BY <1>2, <1>3

LEMMA ElsewhereLedger ==
    ASSUME TypeOK, Ledger,
           \/ OpenApproval \/ Approve \/ UNCHANGED vars
           \/ \E m \in Messages : LeaseExpires(m) \/ Recover(m) \/ RecoverRaises(m)
    PROVE  Ledger'
<1> USE Facts
<1>1. /\ UNCHANGED attempt
      /\ chat' = chat \/ \E seen \in approval : chat'.draft = seen.draft
      /\ \A seen \in approval' : seen \in approval \/ seen = chat
  <2>1. CASE Approve
    <3>1. PICK seen \in approval : chat' = [seen EXCEPT !.approved = TRUE]
      BY <2>1 DEF Approve
    <3>2. chat'.draft = seen.draft
      BY <3>1 DEF TypeOK, Chat
    <3> QED BY <2>1, <3>2 DEF Approve
  <2>2. CASE ~ Approve
    BY <2>2 DEF OpenApproval, LeaseExpires, Recover, RecoverRaises, vars
  <2> QED BY <2>1, <2>2
<1>2. RowsKept
  <2>1. CASE UNCHANGED row
    BY <2>1, RowsSame
  <2>2. ASSUME NEW m \in Messages, LeaseExpires(m) PROVE RowsKept
    BY <2>2 DEF LeaseExpires, RowsKept, Ledger, TypeOK, Turn
  <2>3. ASSUME NEW m \in Messages, Recover(m) PROVE RowsKept
    <3> DEFINE turn == [row[m] EXCEPT !.tries = @ + 1]
    <3>1. row' = [row EXCEPT ![m] = Settled(turn)]
      BY <2>3 DEF Recover
    <3>2. turn \in Turn /\ turn.stored = row[m].stored
      BY DEF Turn
    <3> HIDE DEF turn
    <3>3. /\ row'[m] = Settled(turn) /\ \A n \in Messages \ {m} : row'[n] = row[n]
      BY <3>1 DEF TypeOK
    <3>4. /\ Settled(turn).stored = row[m].stored
          /\ Settled(turn).status \in Terminal
          /\ Settled(turn).status = "ABANDONED" => ~ row[m].stored
      BY <3>2, SettledIs
    <3> QED BY <3>3, <3>4 DEF RowsKept, Ledger, Unmade, Terminal
  <2> QED BY <2>1, <2>2, <2>3 DEF OpenApproval, Approve, RecoverRaises, vars
<1> QED BY <1>1, <1>2, CopyStep

----------------------------------------------------------------------------
(* What the row lock holds                                                   *)

(* One request at a time is between its check of the chat and its            *)
(* checkpoint, and it has seen the approval that stands there.               *)
Guarded ==
    /\ \A a, b \in Attempts : (At(a) = "executing" /\ At(b) = "executing") => a = b
    /\ \A a \in Attempts : At(a) = "executing" => attempt[a].seen.approved = chat.approved

(* A request that takes the lock has looked at the approval; one that writes *)
(* the chat finds the lock free, or has it and gives it back.                *)
LEMMA RequestGuarded ==
    ASSUME TypeOK, Guarded, NEW a \in Attempts, Open(a) \/ Request(a) \/ Break(a) \/ Crash(a)
    PROVE  Guarded'
<1>1. attempt \in [Attempts -> Progress]
  BY DEF TypeOK, Progress
<1>2. \A b \in Attempts \ {a} : attempt'[b] = attempt[b]
  <2>1. \/ \E at : Goes(a, at)
        \/ \E retry : Fails(a, retry)
        \/ \E at, seen : attempt' = [attempt EXCEPT ![a].at = at, ![a].seen = seen]
    BY DEF Request, Open, Replay, Start, Refuse, Execute, Conflict, Checkpoint, Talk,
           Finish, FailTurn, RecordFailure, Click, Break, Crash
  <2> QED BY <1>1, <2>1 DEF Goes, Fails
<1>3. CASE Execute(a)
  <2>1. /\ attempt'[a].at = "executing" /\ attempt'[a].seen = attempt[a].seen
        /\ attempt[a].seen.approved = chat.approved /\ chat' = chat
    BY <1>1, <1>3 DEF Execute, Goes, Fresh, MayRebase, Progress
  <2>2. \A b \in Attempts \ {a} : attempt[b].at # "executing"
    BY <1>3 DEF Execute, Unlocked, At
  <2> QED BY <1>2, <2>1, <2>2 DEF Guarded, At
<1>4. CASE ~ Execute(a)
  <2>1. attempt'[a].at # "executing"
    <3>1. \/ \E at \in Stages \ {"executing"} : Goes(a, at)
          \/ \E retry : Fails(a, retry)
          \/ \E at \in {"opened", "executed"} : \E seen :
                 attempt' = [attempt EXCEPT ![a].at = at, ![a].seen = seen]
      BY <1>4 DEF Request, Open, Replay, Start, Refuse, Conflict, Checkpoint, Talk,
                  Finish, FailTurn, RecordFailure, Click, Break, Crash, Stages, Working
    <3> QED BY <1>1, <3>1 DEF Goes, Fails, Progress
  <2>2. chat' = chat \/ \A b \in Attempts \ {a} : attempt[b].at # "executing"
    BY <1>4 DEF Request, Open, Replay, Start, Refuse, Conflict, Checkpoint, Talk, Finish,
                FailTurn, RecordFailure, Click, Break, Crash, Unlocked, Guarded, At
  <2> QED BY <1>2, <2>1, <2>2 DEF Guarded, At
<1> QED BY <1>3, <1>4

(* Recovery, leases and the other tab.                                       *)
LEMMA ElsewhereGuarded ==
    ASSUME Guarded,
           \/ OpenApproval \/ Approve \/ UNCHANGED vars
           \/ \E m \in Messages : LeaseExpires(m) \/ Recover(m) \/ RecoverRaises(m)
    PROVE  Guarded'
<1>1. UNCHANGED attempt
  BY DEF OpenApproval, Approve, LeaseExpires, Recover, RecoverRaises, vars
<1>2. chat' = chat \/ \A a \in Attempts : At(a) # "executing"
  BY DEF OpenApproval, Approve, LeaseExpires, Recover, RecoverRaises, vars
<1> QED BY <1>1, <1>2 DEF Guarded, At

----------------------------------------------------------------------------
(* Theorems                                                                  *)

LEMMA Started ==
    ASSUME Init
    PROVE  Inv
<1> USE Facts
<1>1. EmptyChat \in Chat /\ NoTurn \in Turn /\ MaxFaults \in Nat
  BY ConstantsAssumption DEF EmptyChat, Chat, NoTurn, Turn
<1>2. /\ row \in [Messages -> Turn] /\ \A m \in Messages : row[m] = NoTurn
      /\ \A a \in Attempts : At(a) = "idle"
      /\ answers \in [Messages -> Nat] /\ \A m \in Messages : answers[m] = 0
  BY <1>1 DEF Init, At
<1>3. TypeOK
  BY <1>1, <1>2 DEF Init, TypeOK, Stages
<1>4. Safe
  <2>1. \A m \in Messages : RowOK(m)
    BY <1>2 DEF RowOK, NoTurn
  <2>2. \A a \in Attempts : AttemptOK(a) /\ ~ Active(a)
    BY <1>2 DEF AttemptOK, Active, Working
  <2>3. OneClaim /\ OneRequest
    BY <1>2, <2>2 DEF OneClaim, OneRequest, NoTurn
  <2> QED BY <2>1, <2>2, <2>3 DEF Safe
<1> QED BY <1>3, <1>4 DEF Inv

LEMMA Kept ==
    ASSUME Inv, [Next]_vars
    PROVE  Inv'
<1>1. ASSUME NEW a \in Attempts, Open(a) \/ Request(a) \/ Break(a) \/ Crash(a)
      PROVE  Inv'
  BY <1>1, OpenStep, ReplayStep, StartStep, RefuseStep, ExecuteStep, CheckpointStep,
     TalkStep, FinishStep, FailTurnStep, RecordFailureStep, ClickStep, CrashStep
     DEF Request
<1>2. ASSUME NEW m \in Messages, LeaseExpires(m) \/ Recover(m) \/ RecoverRaises(m)
      PROVE  Inv'
  BY <1>2, LeaseExpiresStep, RecoverStep, RecoverRaisesStep
<1>3. CASE OpenApproval \/ Approve
  BY <1>3, ApprovalStep
<1>4. CASE UNCHANGED vars
  BY <1>4, ElsewhereStep DEF vars, Inv, TypeOK
<1> QED BY <1>1, <1>2, <1>3, <1>4 DEF Next

(* The invariant holds in every reachable state.                             *)
LEMMA Invariant ==
    Spec => []Inv
<1>1. Init => Inv
  BY Started
<1>2. Inv /\ [Next]_vars => Inv'
  BY Kept
<1> QED BY <1>1, <1>2, PTL DEF Spec

(* Chat, turns and requests keep their shapes, whatever is sent again, fails *)
(* or is recovered, with or without resends and overruns.                     *)
THEOREM TypeCorrect ==
    Spec => []TypeOK
<1>1. Inv => TypeOK
  BY DEF Inv
<1> QED BY <1>1, Invariant, PTL

(* Whatever is sent again, overruns its lease, crashes or is written over by *)
(* an older copy: a text message is not applied twice, and never without its *)
(* result on record (the checkpoint's commit, _replayed_turn, _settle).      *)
THEOREM AppliedOnRecordCorrect ==
    Spec => []AppliedOnRecord
<1>1. Init => Ledger
  <2> SUFFICES ASSUME Init PROVE Ledger
    OBVIOUS
  <2>1. Within(<<>>, row)
    <3>1. \A m : {i \in DOMAIN <<>> : <<>>[i] = m} = {}
      OBVIOUS
    <3>2. \A m : Copies(<<>>, m) = 0
      BY <3>1, FS_EmptySet DEF Copies
    <3> QED BY <3>2 DEF Within
  <2> QED BY <2>1 DEF Init, Ledger, EmptyChat, NoTurn, Drafting
<1>2. TypeOK /\ Ledger /\ [Next]_vars => Ledger'
  BY StartLedger, RequestLedger, ChangeLedger, ElsewhereLedger DEF Next, Request
<1>3. Ledger => AppliedOnRecord
  BY DEF Ledger, Within, AppliedOnRecord
<1>4. Spec => []TypeOK
  BY TypeCorrect
<1> QED BY <1>1, <1>2, <1>3, <1>4, PTL DEF Spec

(* A plan that was made before an approval, and one whose request has not    *)
(* seen that an approval is gone, is refused: the check under the row lock   *)
(* holds until the checkpoint writes the draft (_turn_stage_callback).       *)
THEOREM PlansRespectApprovalCorrect ==
    Spec => PlansRespectApproval
<1>1. Init => Guarded
  BY DEF Init, Guarded, At
<1>2. TypeOK /\ Guarded /\ [Next]_vars => Guarded'
  BY RequestGuarded, ElsewhereGuarded DEF Next
<1>3. Guarded => \A a \in Attempts : Checkpoint(a) => chat.approved = attempt[a].seen.approved
  BY DEF Guarded, Checkpoint
<1>4. TypeOK /\ Guarded /\ [Next]_vars =>
          [\A a \in Attempts : Checkpoint(a) => chat.approved = attempt[a].seen.approved]_vars
  BY <1>3
<1>5. Spec => []TypeOK
  BY TypeCorrect
<1> QED BY <1>1, <1>2, <1>4, <1>5, PTL DEF Spec, PlansRespectApproval

(* session_claim and the lease admit one working request per chat, as long   *)
(* as a message is not sent again while a request at it is open, and no      *)
(* request outlasts its lease.                                               *)
THEOREM OneOwnerCorrect ==
    ASSUME ~ MayResend, ~ MayOverrun
    PROVE  Spec => []OneOwner
<1>1. Inv => OneOwner
  <2> SUFFICES ASSUME Safe, NEW a \in Attempts, NEW b \in Attempts,
                      At(a) \in Working, At(b) \in Working
               PROVE  a = b
    BY DEF Orderly, Inv, OneOwner
  <2> QED BY OwnerIsAlone DEF Active, Working
<1> QED BY <1>1, Invariant, PTL

(* Requests, replays and the recovery worker answer a message at most once,  *)
(* under the same two conditions.                                            *)
THEOREM AnsweredOnceCorrect ==
    ASSUME ~ MayResend, ~ MayOverrun
    PROVE  Spec => []AnsweredOnce
<1>1. Inv => AnsweredOnce
  BY DEF Orderly, Inv, Safe, RowOK, AnsweredOnce
<1> QED BY <1>1, Invariant, PTL
=============================================================================
