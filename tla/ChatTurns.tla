------------------------------ MODULE ChatTurns ------------------------------
(***************************************************************************)
(* The turns of one setup chat.                                            *)
(*                                                                         *)
(* Every message of the user is one row, a turn, that records how far the  *)
(* message has come; while it is worked on the turn holds the session, and *)
(* other messages are refused.  The whole draft is one JSON column of the  *)
(* chat row, read without a lock when a request arrives and written back   *)
(* as a whole.  A text message is planned by a slow paid call, carried out *)
(* under the chat's row lock and answered in a later transaction; a click  *)
(* is carried out at once.  A message that is sent again, an approval from *)
(* another tab and the recovery worker all meet the same rows.             *)
(*                                                                         *)
(* A draft is the sequence of the messages whose changes it carries.  A    *)
(* row is written as the database shows it to others: what one transaction *)
(* writes and overwrites in itself does not appear.  RECEIVED, PLANNED and *)
(* RECOVERING are never committed by this code.                            *)
(***************************************************************************)
EXTENDS Integers, Sequences, FiniteSets

CONSTANTS
    Messages,     \* client_message_ids of one chat
    Clicks,       \* those that are builder actions; the others are text
    Attempts,     \* the requests
    MessageOf,    \* the message a request carries; two requests are a resend
    Broken,       \* messages whose stored result recovery cannot read
    MaxTries,     \* MAX_RECOVERY_ATTEMPTS
    MaxFaults,    \* bound: crashes and unexpected exceptions
    MayResend,    \* may a message be sent again while a request at it is open?
    MayOverrun    \* may a request outlast the lease of its turn?

ASSUME ConstantsAssumption ==
    /\ Clicks \subseteq Messages
    /\ Broken \subseteq Messages
    /\ MessageOf \in [Attempts -> Messages]
    /\ {MaxTries, MaxFaults} \subseteq Nat
    /\ {MayResend, MayOverrun} \subseteq BOOLEAN

VARIABLES
    chat,       \* the chat row: the draft, and whether it is approved
    row,        \* the setup_chat_turns rows
    attempt,    \* how far each request has come, and the chat as it has it
    approval,   \* the chat as an approval in another tab has read it
    answers,    \* the replies to each message that are not errors
    escalated,  \* the turns in the operators' queue
    faults

vars == <<chat, row, attempt, approval, answers, escalated, faults>>

NonTerminal == {"PLANNING", "EXECUTING", "EXECUTED", "COMPOSING"}
Terminal == {"COMPLETED", "RETRYABLE_FAILURE", "PERMANENT_FAILURE", "ABANDONED"}

Chat == [draft : Seq(Messages), approved : BOOLEAN]
Turn == [status : NonTerminal \cup Terminal \cup {"NONE"},
         claim : BOOLEAN,                          \* session_claim
         lease : {"none", "live", "expired"},      \* lease_expires_at
         stored : BOOLEAN,                         \* execution_result_json
         reply : {"none", "error", "answer"},      \* assistant_message_id, reply_json
         tries : Nat]                              \* recovery_attempts

Working == {"planning", "executing", "executed", "talking", "clicking"}
Stages == Working \cup {"idle", "opened", "failing", "ended", "dead"}

EmptyChat == [draft |-> <<>>, approved |-> FALSE]
NoTurn == [status |-> "NONE", claim |-> FALSE, lease |-> "none",
           stored |-> FALSE, reply |-> "none", tries |-> 0]

Init ==
    /\ chat = EmptyChat
    /\ row = [m \in Messages |-> NoTurn]
    /\ attempt = [a \in Attempts |-> [at |-> "idle", seen |-> EmptyChat, retry |-> FALSE]]
    /\ approval = {}
    /\ answers = [m \in Messages |-> 0]
    /\ escalated = {}
    /\ faults = 0

At(a) == attempt[a].at
Message(a) == MessageOf[a]
Row(a) == row[Message(a)]
IsText(a) == Message(a) \notin Clicks

\* From the flush of EXECUTING to the checkpoint a request holds the row locks
\* of the chat and of its turn, and everybody who writes either waits.
Unlocked(a) == \A b \in Attempts \ {a} : At(b) # "executing"

Goes(a, at) == attempt' = [attempt EXCEPT ![a].at = at]
Fails(a, retry) == attempt' = [attempt EXCEPT ![a].at = "failing", ![a].retry = retry]
Writes(a, turn) == row' = [row EXCEPT ![Message(a)] = turn]

\* _release_claim, together with the status a turn ends in
Released(turn, status) ==
    [turn EXCEPT !.status = status, !.claim = FALSE, !.lease = "none"]

\* The turn has its reply and gives the session back: _complete_db_turn.
Completed(turn) == [Released(turn, "COMPLETED") EXCEPT !.reply = "answer"]

-----------------------------------------------------------------------------
(* A request arrives *)

\* owned_session reads the chat, without a lock.  Nothing reads it again when
\* the message is admitted: the request goes on with this copy.
Open(a) ==
    /\ At(a) = "idle"
    /\ MayResend \/ \A b \in Attempts : Message(b) = Message(a) =>
                                            At(b) \in {"idle", "ended", "dead"}
    /\ attempt' = [attempt EXCEPT ![a].at = "opened", ![a].seen = chat]
    /\ UNCHANGED <<chat, row, approval, answers, escalated, faults>>

Holders(m) == {n \in Messages \ {m} : row[n].claim}

\* _active_turn, and the unique claim behind it: an expired lease still holds.
Blocked(m) == \E n \in Holders(m) : row[n].status \in NonTerminal

\* The first part of _replayed_turn: what was done is on record.
HasResult(turn) ==
    turn.status \in {"EXECUTED", "COMPOSING", "RETRYABLE_FAILURE"} /\ turn.stored

\* A turn that has a result is only read, and answered if it is not yet.  The
\* note about the replay writes the whole context back.
Replay(a) ==
    /\ At(a) = "opened"
    /\ Unlocked(a)
    /\ \/ /\ Row(a).status = "COMPLETED"
          /\ UNCHANGED <<row, answers>>
       \/ /\ HasResult(Row(a))
          /\ IF Row(a).reply # "none"
             THEN /\ Writes(a, [Row(a) EXCEPT !.status = "COMPLETED"])
                  /\ UNCHANGED answers
             ELSE /\ Writes(a, Completed(Row(a)))
                  /\ answers' = [answers EXCEPT ![Message(a)] = @ + 1]
    /\ chat' = IF IsText(a) THEN attempt[a].seen ELSE chat
    /\ Goes(a, "ended")
    /\ UNCHANGED <<approval, escalated, faults>>

\* The rest of _replayed_turn: may this message be worked on (again)?
MayStart(turn) ==
    \/ turn.status \in {"NONE", "ABANDONED"}
    \/ turn.status = "RETRYABLE_FAILURE" /\ ~ turn.stored
    \/ turn.status = "PLANNING" /\ turn.lease = "expired"

\* A new message takes a claim that was left on a settled turn away; a message
\* that is sent again writes its own and fails if there is another.
MayClaim(m) ==
    IF row[m].status = "NONE" THEN ~ Blocked(m) ELSE Holders(m) = {}

\* _get_or_create_turn and the commit before the planner is called.
Start(a) ==
    /\ At(a) = "opened"
    /\ Unlocked(a)
    /\ MayStart(Row(a))
    /\ MayClaim(Message(a))
    /\ row' = [m \in Messages |->
                  IF m = Message(a)
                  THEN [row[m] EXCEPT !.status = IF IsText(a) THEN "PLANNING" ELSE "EXECUTING",
                                      !.claim = TRUE, !.lease = "live"]
                  ELSE [row[m] EXCEPT !.claim = FALSE]]
    /\ Goes(a, IF IsText(a) THEN "planning" ELSE "clicking")
    /\ UNCHANGED <<chat, approval, answers, escalated, faults>>

\* TURN_IN_PROGRESS, TURN_RECOVERY_PENDING and the claim of another message ask
\* the user to try again.  A turn that failed for good does not, and neither
\* does the unique key that a message sent again runs into.
Refuse(a) ==
    /\ At(a) = "opened"
    /\ Unlocked(a)
    /\ \/ /\ Row(a).status \in NonTerminal /\ ~ MayStart(Row(a)) /\ ~ HasResult(Row(a))
          /\ Fails(a, TRUE)
       \/ Row(a).status = "PERMANENT_FAILURE" /\ Fails(a, FALSE)
       \/ /\ MayStart(Row(a)) /\ ~ MayClaim(Message(a))
          /\ Fails(a, Row(a).status = "NONE")
    /\ UNCHANGED <<chat, row, approval, answers, escalated, faults>>

-----------------------------------------------------------------------------
(* A text message *)

\* plan_freshness.  The plan may be about what has moved or not; an approval
\* that has moved is always refused.
Fresh(a) == attempt[a].seen = chat

\* Mutant: an approval is rebased like any other change
MayRebase_Always(a) == TRUE

MayRebase(a) == attempt[a].seen.approved = chat.approved

\* The plan changes the draft: take the chat's row lock, look what has moved.
\* A plan that is rebased still works on the draft it was made from.
Execute(a) ==
    /\ At(a) = "planning"
    /\ Unlocked(a)
    /\ Fresh(a) \/ MayRebase(a)
    /\ Goes(a, "executing")
    /\ UNCHANGED <<chat, row, approval, answers, escalated, faults>>

\* SETUP_TURN_CONFLICT
Conflict(a) ==
    /\ At(a) = "planning"
    /\ Unlocked(a)
    /\ ~ Fresh(a)
    /\ Fails(a, TRUE)
    /\ UNCHANGED <<chat, row, approval, answers, escalated, faults>>

Changed(seen, m) == [draft |-> Append(seen.draft, m), approved |-> FALSE]

\* Mutant: the checkpoint gives the session back
WithResult_GivesBack(turn) == [Released(turn, "EXECUTED") EXCEPT !.stored = TRUE]

\* The draft and what was done to it are committed together.
WithResult(turn) ==
    [turn EXCEPT !.status = "EXECUTED", !.lease = "live", !.stored = TRUE]

Checkpoint(a) ==
    /\ At(a) = "executing"
    /\ chat' = Changed(attempt[a].seen, Message(a))
    /\ Writes(a, WithResult(Row(a)))
    /\ attempt' = [attempt EXCEPT ![a].at = "executed", ![a].seen = chat']
    /\ UNCHANGED <<approval, answers, escalated, faults>>

\* The plan changes nothing: the turn goes to its reply without the lock.
Talk(a) ==
    /\ At(a) = "planning"
    /\ Unlocked(a)
    /\ Writes(a, [Row(a) EXCEPT !.status = "COMPOSING", !.lease = "live"])
    /\ Goes(a, "talking")
    /\ UNCHANGED <<chat, approval, answers, escalated, faults>>

\* The final transaction writes the chat again, from memory, and the reply.
Finish(a) ==
    /\ At(a) \in {"executed", "talking"}
    /\ Unlocked(a)
    /\ chat' = attempt[a].seen
    /\ Writes(a, Completed(Row(a)))
    /\ answers' = [answers EXCEPT ![Message(a)] = @ + 1]
    /\ Goes(a, "ended")
    /\ UNCHANGED <<approval, escalated, faults>>

\* _fail_db_turn, after the planner or a gate of the execution said no.  It
\* writes the chat as it was when the turn began.
FailTurn(a) ==
    /\ At(a) \in {"planning", "executing"}
    /\ Unlocked(a)
    /\ \E retry \in BOOLEAN :
           /\ Writes(a, Released(Row(a), IF retry THEN "RETRYABLE_FAILURE"
                                                  ELSE "PERMANENT_FAILURE"))
           /\ Fails(a, retry)
    /\ chat' = attempt[a].seen
    /\ UNCHANGED <<approval, answers, escalated, faults>>

MayFail(turn) == turn.status \notin {"NONE", "COMPLETED"} /\ ~ turn.stored

\* record_turn_failure, in a transaction of its own.  The builder's route has
\* no such step.
RecordFailure(a) ==
    /\ At(a) = "failing"
    /\ Unlocked(a)
    /\ IF IsText(a) /\ MayFail(Row(a))
       THEN Writes(a, [Released(Row(a), IF attempt[a].retry THEN "RETRYABLE_FAILURE"
                                                            ELSE "COMPLETED")
                          EXCEPT !.reply = "error"])
       ELSE UNCHANGED row
    /\ Goes(a, "ended")
    /\ UNCHANGED <<chat, approval, answers, escalated, faults>>

-----------------------------------------------------------------------------
(* A click, an approval *)

\* handle_builder_action, after its turn was committed as EXECUTING.
Click(a) ==
    /\ At(a) = "clicking"
    /\ Unlocked(a)
    /\ \/ /\ chat' = Changed(attempt[a].seen, Message(a))
          /\ Writes(a, Completed(Row(a)))
          /\ answers' = [answers EXCEPT ![Message(a)] = @ + 1]
       \/ /\ Writes(a, Released(Row(a), "RETRYABLE_FAILURE"))
          /\ UNCHANGED <<chat, answers>>
    /\ Goes(a, "ended")
    /\ UNCHANGED <<approval, escalated, faults>>

\* approve_draft reads the chat and validates it again before it writes back
\* what it has read; it does not ask whether a turn is being worked on.
OpenApproval ==
    /\ approval = {}
    /\ chat.draft # <<>> /\ ~ chat.approved
    /\ approval' = {chat}
    /\ UNCHANGED <<chat, row, attempt, answers, escalated, faults>>

Approve ==
    /\ \A a \in Attempts : At(a) # "executing"
    /\ \E seen \in approval : chat' = [seen EXCEPT !.approved = TRUE]
    /\ approval' = {}
    /\ UNCHANGED <<row, attempt, answers, escalated, faults>>

-----------------------------------------------------------------------------
(* Faults and recovery *)

\* An exception that nobody expects, and the rollback.
Break(a) ==
    /\ faults < MaxFaults
    /\ At(a) \in Working
    /\ Fails(a, FALSE)
    /\ faults' = faults + 1
    /\ UNCHANGED <<chat, row, approval, answers, escalated>>

Crash(a) ==
    /\ faults < MaxFaults
    /\ At(a) \in Working \cup {"failing"}
    /\ Goes(a, "dead")
    /\ faults' = faults + 1
    /\ UNCHANGED <<chat, row, approval, answers, escalated>>

\* A turn is shorter than its lease: the deadline of the whole turn is 45
\* seconds, or 120 at most, and the leases are 60 seconds and more.
LeaseExpires(m) ==
    /\ row[m].lease = "live"
    /\ MayOverrun \/ \A a \in Attempts : Message(a) = m => At(a) \notin Working
    /\ row' = [row EXCEPT ![m].lease = "expired"]
    /\ UNCHANGED <<chat, attempt, approval, answers, escalated, faults>>

\* Mutant: the conditional update forgets the lease
Stalled_AnyLease(turn) == turn.status \in NonTerminal

\* Mutant: a turn that only waits for its reply is left alone
Stalled_NoReply(turn) == turn.status \in NonTerminal \ {"COMPOSING"} /\ turn.lease # "live"

\* _stalled_turn_ids, and again the condition of the update in _claim
Stalled(turn) == turn.status \in NonTerminal /\ turn.lease # "live"

\* Mutant: a turn that was carried out is released like one that was not
Settled_Abandoned(turn) == Released(turn, "ABANDONED")

\* Mutant: a turn without a result is put back to its beginning
Settled_Restarted(turn) ==
    IF turn.stored THEN Completed(turn) ELSE [turn EXCEPT !.status = "RECEIVED"]

\* The one rule for each state: _settle and _finish_committed_turn.
Settled(turn) ==
    IF turn.tries > MaxTries THEN Released(turn, "PERMANENT_FAILURE")
    ELSE IF ~ turn.stored THEN Released(turn, "ABANDONED")
    ELSE IF turn.reply # "none" THEN Released(turn, "COMPLETED")
    ELSE Completed(turn)

\* One turn of run_once: the claim and the settlement are one transaction.
Recover(m) ==
    LET turn == [row[m] EXCEPT !.tries = @ + 1]
    IN  /\ Stalled(row[m])
        /\ \A a \in Attempts : At(a) # "executing"
        /\ ~ (m \in Broken /\ turn.stored /\ turn.tries <= MaxTries)
        /\ row' = [row EXCEPT ![m] = Settled(turn)]
        /\ answers' = IF turn.reply = "none" /\ Settled(turn).reply = "answer"
                      THEN [answers EXCEPT ![m] = @ + 1] ELSE answers
        /\ escalated' = IF turn.tries > MaxTries THEN escalated \cup {m} ELSE escalated
        /\ UNCHANGED <<chat, attempt, approval, faults>>

\* It raises: the claim is rolled back with everything else, its count of the
\* attempt included, and the turn is reported.
RecoverRaises(m) ==
    /\ Stalled(row[m])
    /\ \A a \in Attempts : At(a) # "executing"
    /\ \/ m \in Broken /\ row[m].stored /\ UNCHANGED faults
       \/ faults < MaxFaults /\ faults' = faults + 1
    /\ escalated' = escalated \cup {m}
    /\ UNCHANGED <<chat, row, attempt, approval, answers>>

Request(a) ==
    \/ Replay(a) \/ Start(a) \/ Refuse(a)
    \/ Execute(a) \/ Conflict(a) \/ Checkpoint(a) \/ Talk(a) \/ Finish(a)
    \/ FailTurn(a) \/ RecordFailure(a)
    \/ Click(a)

Next ==
    \/ \E a \in Attempts : Open(a) \/ Request(a) \/ Break(a) \/ Crash(a)
    \/ OpenApproval \/ Approve
    \/ \E m \in Messages : LeaseExpires(m) \/ Recover(m) \/ RecoverRaises(m)

Spec == Init /\ [][Next]_vars

\* A request ends at its deadline at the latest, leases run out, and the
\* recovery worker runs every minute.
Fairness ==
    /\ \A a \in Attempts : WF_vars(Request(a))
    /\ \A m \in Messages : WF_vars(LeaseExpires(m)) /\ WF_vars(Recover(m))

FairSpec == Spec /\ Fairness

-----------------------------------------------------------------------------
(* Properties *)

\* Rows and requests have the values their code can write.
TypeOK ==
    /\ chat \in Chat
    /\ row \in [Messages -> Turn]
    /\ attempt \in [Attempts -> [at : Stages, seen : Chat, retry : BOOLEAN]]
    /\ approval \subseteq Chat
    /\ answers \in [Messages -> Nat]
    /\ escalated \subseteq Messages
    /\ faults \in 0 .. MaxFaults

Copies(draft, m) == Cardinality({i \in DOMAIN draft : draft[i] = m})

\* A text message is applied at most once, and never without its result on
\* record: whatever older copy of the draft is written over a newer one, no
\* retry, resend or recovery carries out again what was carried out before.
AppliedOnRecord ==
    \A m \in Messages \ Clicks :
        Copies(chat.draft, m) <= IF row[m].stored THEN 1 ELSE 0

\* Nobody writes the draft but the turn that holds the session: two requests
\* are never between their claim and their last write at the same time.
OneOwner ==
    \A a, b \in Attempts :
        (At(a) \in Working /\ At(b) \in Working) => a = b

\* However often a message is sent and wherever it was interrupted, it is
\* answered at most once.
AnsweredOnce == \A m \in Messages : answers[m] <= 1

\* new carries every change of old, in its place
Extends(new, old) == \A i \in DOMAIN old : i \in DOMAIN new /\ new[i] = old[i]

\* A change that was committed stays in the draft.
ChangesAreKept == [][Extends(chat'.draft, chat.draft)]_vars

\* A plan that is carried out although the draft has moved on is applied to the
\* newer draft, as plan_freshness says.
RebaseKeepsTheDraft ==
    [][\A a \in Attempts : Checkpoint(a) => Extends(chat'.draft, chat.draft)]_vars

\* A plan is never carried out over an approval that its request has not seen:
\* the verdict on what has moved still stands when the draft is written.
PlansRespectApproval ==
    [][\A a \in Attempts :
           Checkpoint(a) => chat.approved = attempt[a].seen.approved]_vars

\* A turn that holds the session settles, so that no chat is locked for ever:
\* by its request, by the recovery worker, or by giving up.
TurnsSettle ==
    \A m \in Messages : row[m].status \in NonTerminal ~> row[m].status \in Terminal

\* A message whose change was made is answered by what was done, not by an
\* error of an earlier attempt.
AnswersTheChange ==
    \A m \in Messages :
        (row[m].status = "COMPLETED" /\ row[m].stored) => row[m].reply = "answer"

\* A message that may be tried again is closed by an answer only, never because
\* it was refused while another one held the session.
RetryStaysOpen ==
    [][\A m \in Messages :
           (row[m].status = "RETRYABLE_FAILURE" /\ row'[m].status = "COMPLETED")
               => row'[m].reply = "answer"]_vars
=============================================================================
