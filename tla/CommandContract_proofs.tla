------------------------ MODULE CommandContract_proofs ------------------------
(***************************************************************************)
(* What holds of the cancellation of a command run, and of what the run    *)
(* promises its caller, for any number of runs, cancel calls, retries and  *)
(* crashes of the backend.  Each theorem names what it needs of the sweeps *)
(* of list requests, of kills, waits and database calls.                   *)
(***************************************************************************)
EXTENDS MCCommandRunner, CommandRunner_proofs

-----------------------------------------------------------------------------
(* What each kind of step leaves alone *)

RunAction(r) ==
  \/ StartInsert(r) \/ StartRegister(r) \/ TaskStep(r)
  \/ WaitBreaks(r) \/ ShellExits(r) \/ PipesClose(r) \/ BackgroundEnds(r)

\* What a step of one run leaves of the others.
Elsewhere(r) ==
  /\ \A q \in Runs : q # r =>
       /\ task'[q] = task[q] /\ proc'[q] = proc[q] /\ row'[q] = row[q] /\ chan'[q] = chan[q]
       /\ q \in cancellers' <=> q \in cancellers
       /\ q \in cancelled' <=> q \in cancelled
  /\ sweep' = sweep

\* A step of a run does to a cancel call of it no more than to answer its request.
Answered(r, a) ==
  \A c \in Callers :
    /\ call'[c].pc = call[c].pc /\ call'[c].run = call[c].run
    /\ call'[c].queued = call[c].queued /\ call'[c].took = call[c].took
    /\ call'[c].ack = call[c].ack \/ (call'[c].ack = a /\ call[c].run = r)

LEMMA InvParts ==
  ASSUME Inv
  PROVE  /\ task \in [Runs -> [pc : TaskPc, retry : BOOLEAN, timed : BOOLEAN, parked : BOOLEAN,
                     attempt : Nat, result : Outcome, verdict : {"none"} \cup Terminal]]
         /\ chan \in [Runs -> [state : {"none", "open", "sent", "taken", "closed", "spent"},
                     by : Callers \cup {Nobody}]]
         /\ proc \in [Runs -> [state : {"none", "running", "lingering", "background", "gone"},
                     exit : {"none", "zero", "nonzero", "signal", "killed"}, spawned : Nat]]
         /\ row \in [Runs -> [status : Status, attempts : Nat]]
         /\ call \in [Callers -> [pc : CallPc, run : Runs, queued : BOOLEAN, took : BOOLEAN,
                        ack : {"none", "pending", "ok", "err", "dropped"}]]
         /\ cancellers \subseteq Runs /\ cancelled \subseteq Runs
BY Zenon DEF Inv, TypeOK, TaskType, ChanType, ProcType, RowType, CallType

LEMMA AnswerParts ==
  ASSUME Inv, NEW r \in Runs, NEW a \in {"ok", "err", "dropped"}, Answer(r, a)
  PROVE  /\ \A q \in Runs : q # r => chan'[q] = chan[q]
         /\ chan'[r].state = IF chan[r].state = "sent" THEN "taken" ELSE chan[r].state
         /\ Answered(r, a)
<1>1. /\ chan \in [Runs -> [state : {"none", "open", "sent", "taken", "closed", "spent"},
                     by : Callers \cup {Nobody}]]
      /\ call \in [Callers -> [pc : CallPc, run : Runs, queued : BOOLEAN, took : BOOLEAN,
                        ack : {"none", "pending", "ok", "err", "dropped"}]]
  BY InvParts
<1>2. /\ \A q \in Runs : q # r => chan'[q] = chan[q]
      /\ chan'[r].state = IF chan[r].state = "sent" THEN "taken" ELSE chan[r].state
  BY <1>1 DEF Answer
<1>3. CASE chan[r].state = "sent"
  <2>1. chan[r].by \in Callers /\ call[chan[r].by].run = r
    BY <1>3 DEF Inv, RequestsMatch
  <2>2. call' = [call EXCEPT ![chan[r].by].ack = a]
    BY <1>3 DEF Answer
  <2> QED BY <1>1, <1>2, <2>1, <2>2 DEF Answered
<1>4. CASE chan[r].state # "sent"
  BY <1>2, <1>4 DEF Answer, Answered
<1> QED BY <1>2, <1>3, <1>4

LEMMA Unanswered ==
  ASSUME NEW r, NEW a, call' = call
  PROVE  Answered(r, a)
BY DEF Answered

\* The steps that go on without a word to the calls.
LEMMA SilentFrame ==
  ASSUME Inv, NEW r \in Runs,
         \/ StartInsert(r) \/ StartRegister(r) \/ CheckWaits(r) \/ CheckPasses(r)
         \/ RecordAttempt(r) \/ SpawnChild(r) \/ SpawnFails(r) \/ WaitSucceeds(r)
         \/ WaitFails(r) \/ WaitTimesOut(r) \/ WaitBreaks(r) \/ DelayEnds(r)
         \/ ClearBeforeFail(r) \/ FinishJudge(r) \/ FinishDrop(r)
         \/ ShellExits(r) \/ PipesClose(r) \/ BackgroundEnds(r)
  PROVE  Elsewhere(r) /\ call' = call
<1> USE InvParts DEF Elsewhere
<1>1. CASE StartInsert(r)
  BY <1>1 DEF StartInsert
<1>2. CASE StartRegister(r)
  BY <1>2 DEF StartRegister
<1>3. CASE CheckWaits(r)
  BY <1>3 DEF CheckWaits
<1>4. CASE CheckPasses(r)
  BY <1>4 DEF CheckPasses
<1>5. CASE RecordAttempt(r)
  BY <1>5 DEF RecordAttempt
<1>6. CASE SpawnChild(r)
  BY <1>6 DEF SpawnChild
<1>7. CASE SpawnFails(r)
  BY <1>7 DEF SpawnFails
<1>8. CASE WaitSucceeds(r)
  BY <1>8 DEF WaitSucceeds
<1>9. CASE WaitFails(r)
  BY <1>9 DEF WaitFails, TerminateProcessTree
<1>10. CASE WaitTimesOut(r)
  BY <1>10 DEF WaitTimesOut, TerminateProcessTree
<1>11. CASE WaitBreaks(r)
  BY <1>11 DEF WaitBreaks
<1>12. CASE DelayEnds(r)
  BY <1>12 DEF DelayEnds
<1>13. CASE ClearBeforeFail(r)
  BY <1>13 DEF ClearBeforeFail
<1>14. CASE FinishJudge(r)
  BY <1>14 DEF FinishJudge
<1>15. CASE FinishDrop(r)
  BY <1>15 DEF FinishDrop, DropCanceller
<1>16. CASE ShellExits(r)
  BY <1>16 DEF ShellExits
<1>17. CASE PipesClose(r)
  BY <1>17 DEF PipesClose
<1>18. CASE BackgroundEnds(r)
  BY <1>18 DEF BackgroundEnds
<1> QED BY <1>1, <1>2, <1>3, <1>4, <1>5, <1>6, <1>7, <1>8, <1>9, <1>10, <1>11, <1>12, <1>13,
           <1>14, <1>15, <1>16, <1>17, <1>18

\* The steps that take the request out of the channel, or may.
LEMMA AnsweringFrame ==
  ASSUME Inv, NEW r \in Runs,
         \/ CheckCancels(r) \/ MarkRunning(r) \/ WaitCancelled(r) \/ DelayCancelled(r)
         \/ SelectPanics(r) \/ FinishRead(r) \/ FinishWrite(r) \/ FinishClear(r)
  PROVE  /\ Elsewhere(r)
         /\ \/ call' = call /\ chan' = chan
            \/ Answer(r, "ok") /\ (CheckCancels(r) \/ WaitCancelled(r) \/ DelayCancelled(r))
            \/ Answer(r, "err") /\ WaitCancelled(r)
            \/ Answer(r, "dropped") /\ TaskEnds(r)
<1> DEFINE Said == \/ call' = call /\ chan' = chan
                   \/ Answer(r, "ok") /\ (CheckCancels(r) \/ WaitCancelled(r) \/ DelayCancelled(r))
                   \/ Answer(r, "err") /\ WaitCancelled(r)
                   \/ Answer(r, "dropped") /\ TaskEnds(r)
<1>1. Said
  BY Zenon DEF CheckCancels, MarkRunning, WaitCancelled, DelayCancelled, SelectPanics, FinishRead,
     FinishWrite, FinishClear, TaskEnds
<1>2. \A q \in Runs : q # r => chan'[q] = chan[q]
  BY <1>1, AnswerParts
<1> HIDE DEF Said
<1>3. \A q \in Runs : q # r =>
       /\ task'[q] = task[q] /\ proc'[q] = proc[q] /\ row'[q] = row[q]
       /\ q \in cancellers' <=> q \in cancellers
       /\ q \in cancelled' <=> q \in cancelled
  <2> USE InvParts
  <2>1. CASE CheckCancels(r)
    BY <2>1 DEF CheckCancels
  <2>2. CASE MarkRunning(r)
    BY <2>2 DEF MarkRunning, TaskEnds
  <2>3. CASE WaitCancelled(r)
    BY <2>3 DEF WaitCancelled, TerminateProcessTree
  <2>4. CASE DelayCancelled(r)
    BY <2>4 DEF DelayCancelled
  <2>5. CASE FinishRead(r)
    BY <2>5 DEF FinishRead, TaskEnds
  <2>6. CASE FinishWrite(r)
    BY <2>6 DEF FinishWrite, TaskEnds
  <2>7. CASE FinishClear(r)
    BY <2>7 DEF FinishClear, TaskEnds
  <2>8. CASE SelectPanics(r)
    BY <2>8 DEF SelectPanics, TaskEnds
  <2> QED BY <2>1, <2>2, <2>3, <2>4, <2>5, <2>6, <2>7, <2>8
<1>4. sweep' = sweep
  BY DEF CheckCancels, MarkRunning, WaitCancelled, DelayCancelled, SelectPanics, FinishRead,
     FinishWrite, FinishClear
<1> QED BY <1>1, <1>2, <1>3, <1>4 DEF Elsewhere, Said

\* A step of a cancel call concerns that call and its run.
LEMMA CallFrame ==
  ASSUME Inv, NEW c \in Callers, CancelStep(c)
  PROVE  /\ call[c].run \in Runs
         /\ UNCHANGED <<task, proc, sweep>>
         /\ \A d \in Callers : d # c => call'[d] = call[d]
         /\ call'[c].run = call[c].run
         /\ \A q \in Runs : q # call[c].run =>
              /\ row'[q] = row[q] /\ chan'[q] = chan[q]
              /\ q \in cancellers' <=> q \in cancellers
              /\ q \in cancelled' <=> q \in cancelled
<1> USE InvParts
<1>1. CASE CancelFind(c)
  BY <1>1 DEF CancelFind
<1>2. CASE CancelMark(c)
  BY <1>2 DEF CancelMark
<1>3. CASE CancelTake(c)
  BY <1>3 DEF CancelTake
<1>4. CASE CancelSend(c)
  BY <1>4 DEF CancelSend
<1>5. CASE CancelGivesUp(c)
  BY <1>5 DEF CancelGivesUp
<1>6. CASE CancelConfirmed(c)
  BY <1>6 DEF CancelConfirmed
<1>7. CASE CancelRefused(c)
  BY <1>7 DEF CancelRefused
<1>8. CASE CancelDropped(c)
  BY <1>8 DEF CancelDropped
<1>9. CASE CancelRecheck(c)
  BY <1>9 DEF CancelRecheck
<1>10. CASE CancelTimesOut(c)
  BY <1>10 DEF CancelTimesOut
<1>11. CASE CancelUpdate(c)
  BY <1>11 DEF CancelUpdate
<1>12. CASE CancelPollEnds(c)
  BY <1>12 DEF CancelPollEnds
<1> QED BY <1>1, <1>2, <1>3, <1>4, <1>5, <1>6, <1>7, <1>8, <1>9, <1>10, <1>11, <1>12 DEF CancelStep

\* A sweep concerns a row and the registries, and the channel of a canceller it drops.
LEMMA SweepFrame ==
  ASSUME Inv, NEW s \in Sweepers, SweepStep(s)
  PROVE  /\ UNCHANGED <<task, proc, call>>
         /\ cancellers' \subseteq cancellers /\ cancelled' \subseteq cancelled
         /\ \A q \in Runs :
              chan'[q] = chan[q] \/ (q \in cancellers /\ q \notin cancellers'
                                      /\ chan'[q].state = "closed")
<1>1. CASE SweepDrop(s)
  <2>1. DropCanceller(sweep[s].run) /\ UNCHANGED <<cancelled, task, proc, call>>
    BY <1>1 DEF SweepDrop
  <2> QED BY <2>1, InvParts DEF DropCanceller
<1>2. CASE SweepClear(s)
  BY <1>2 DEF SweepClear
<1>3. CASE SweepStep(s) /\ ~SweepDrop(s) /\ ~SweepClear(s)
  BY <1>3 DEF SweepStep, SweepList, SweepNext, SweepEnds, SweepRead, SweepJudge, SweepWrite
<1> QED BY <1>1, <1>2, <1>3

\* The kinds of steps there are.
LEMMA Kinds ==
  ASSUME [Next]_vars
  PROVE  \/ \E r \in Runs : RunAction(r)
         \/ \E c \in Callers : CancelStep(c)
         \/ \E s \in Sweepers : SweepStep(s)
         \/ Crash
         \/ UNCHANGED vars
BY Zenon DEF Next, RunAction

-----------------------------------------------------------------------------
(* The registries after the task *)

Holding == {"take", "send", "giveup"}

\* A run is in the map of cancellers from start_command_run to finish_run, and its channel
\* waits for a request as long as it is.
Left(r) ==
  /\ task[r].pc \in {"none", "inserted", "clear", "ended"} => r \notin cancellers
  /\ r \in cancellers => chan[r].state = "open"

\* No request for the run has been sent that its task could still answer.
Unheard(r) ==
  \/ task[r].pc \in {"none", "inserted", "ended"}
  \/ r \in cancellers
  \/ chan[r].state \in {"closed", "spent"}

\* Then it is in the set of cancelled runs only while a call is about to send the request or
\* to take the flag back.
Held(r) ==
  Unheard(r) /\ r \in cancelled =>
    \E c \in Callers : call[c].run = r /\ call[c].pc \in Holding

\* A call that holds a sender took it from a run that was registered.
Sending(c) ==
  call[c].pc = "send" =>
    call[c].run \notin cancellers /\ task[call[c].run].pc \notin {"none", "inserted"}

Cleared ==
  /\ \A r \in Runs : Left(r) /\ Held(r)
  /\ \A c \in Callers : Sending(c)

\* What a step of a run means to its registration and to its flag.
LEMMA RunClears ==
  ASSUME Inv, ~DbMayFail, NEW r \in Runs, Left(r), RunAction(r)
  PROVE  /\ Left(r)'
         /\ Unheard(r)' /\ r \in cancelled' => Unheard(r) /\ r \in cancelled
         /\ r \notin cancellers /\ task[r].pc \notin {"none", "inserted"} =>
              r \notin cancellers' /\ task'[r].pc \notin {"none", "inserted"}
<1> USE InvParts DEF Left, Unheard
<1>1. CASE StartInsert(r)
  BY <1>1 DEF StartInsert
<1>2. CASE StartRegister(r)
  BY <1>2 DEF StartRegister
<1>3. CASE CheckWaits(r)
  BY <1>3 DEF CheckWaits, Checkpoint
<1>4. CASE CheckPasses(r)
  <2>1. PassedCheck(r) \in {"start", "record", "spawn", "delay", "fail", "finish"}
    BY <1>4 DEF CheckPasses, PassedCheck, Checkpoint
  <2>2. /\ task[r].pc \in Checkpoint /\ task'[r].pc = PassedCheck(r)
        /\ UNCHANGED <<cancellers, cancelled>>
        /\ chan'[r].state = IF chan[r].state = "closed" THEN "spent" ELSE chan[r].state
    BY <1>4 DEF CheckPasses
  <2> QED BY <2>1, <2>2 DEF Checkpoint
<1>5. CASE \/ CheckCancels(r) \/ WaitCancelled(r) \/ DelayCancelled(r) \/ MarkRunning(r)
           \/ FinishRead(r) \/ FinishWrite(r)
  <2>1. /\ UNCHANGED <<cancellers, cancelled>>
        /\ task[r].pc \in Checkpoint \cup {"start", "wait", "delay", "finish", "write"}
        /\ task'[r].pc \in {"finish", "after", "top", "judge", "drop"}
    <3>1. CASE CheckCancels(r) \/ DelayCancelled(r) \/ MarkRunning(r)
      BY <3>1 DEF CheckCancels, DelayCancelled, MarkRunning
    <3>2. CASE WaitCancelled(r)
      BY <3>2 DEF WaitCancelled
    <3>3. CASE FinishRead(r) \/ FinishWrite(r)
      BY <3>3 DEF FinishRead, FinishWrite
    <3> QED BY <1>5, <3>1, <3>2, <3>3
  <2>2. chan'[r].state = chan[r].state \/ (chan[r].state = "sent" /\ chan'[r].state = "taken")
    BY <1>5, AnsweringFrame, AnswerParts
  <2> QED BY <2>1, <2>2 DEF Checkpoint
<1>6. CASE SelectPanics(r)
  <2>1. /\ UNCHANGED <<cancellers, cancelled>> /\ task[r].pc \in {"wait", "delay"}
        /\ chan[r].state = "spent" /\ task'[r].pc = "ended" /\ Answer(r, "dropped")
    BY <1>6 DEF SelectPanics, TaskEnds
  <2>2. chan'[r].state = "spent"
    BY <2>1, AnswerParts
  <2> QED BY <2>1, <2>2
<1>7. CASE FinishDrop(r)
  <2>1. /\ task[r].pc = "drop" /\ task'[r].pc = "clear" /\ cancelled' = cancelled
        /\ r \notin cancellers'
        /\ chan'[r].state = IF chan[r].state = "open" /\ r \in cancellers THEN "closed"
                            ELSE chan[r].state
    BY <1>7 DEF FinishDrop, DropCanceller
  <2> QED BY <2>1
<1>8. CASE FinishClear(r)
  BY <1>8 DEF FinishClear, TaskEnds
<1>9. CASE RecordAttempt(r) \/ SpawnChild(r) \/ SpawnFails(r) \/ DelayEnds(r)
  BY <1>9 DEF RecordAttempt, SpawnChild, SpawnFails, DelayEnds
<1>10. CASE WaitSucceeds(r) \/ WaitFails(r) \/ WaitTimesOut(r) \/ WaitBreaks(r)
  BY <1>10 DEF WaitSucceeds, WaitFails, WaitTimesOut, WaitBreaks
<1>11. CASE ClearBeforeFail(r) \/ FinishJudge(r)
  BY <1>11 DEF ClearBeforeFail, FinishJudge
<1>12. CASE ShellExits(r) \/ PipesClose(r) \/ BackgroundEnds(r)
  BY <1>12 DEF ShellExits, PipesClose, BackgroundEnds
<1> QED BY <1>1, <1>2, <1>3, <1>4, <1>5, <1>6, <1>7, <1>8, <1>9, <1>10, <1>11, <1>12
     DEF RunAction, TaskStep

\* A step of a run.
LEMMA ClearedRun ==
  ASSUME Inv, Cleared, ~DbMayFail, NEW r \in Runs, RunAction(r)
  PROVE  Cleared'
<1>1. Elsewhere(r)
  BY SilentFrame, AnsweringFrame DEF RunAction, TaskStep
<1>2. PICK a \in {"ok", "err", "dropped"} : Answered(r, a)
  BY SilentFrame, AnsweringFrame, AnswerParts, Unanswered DEF RunAction, TaskStep
<1>3. /\ Left(r)'
      /\ Unheard(r)' /\ r \in cancelled' => Unheard(r) /\ r \in cancelled
      /\ r \notin cancellers /\ task[r].pc \notin {"none", "inserted"} =>
           r \notin cancellers' /\ task'[r].pc \notin {"none", "inserted"}
  BY RunClears DEF Cleared
<1>4. ASSUME NEW q \in Runs, q # r PROVE Left(q)' /\ Held(q)'
  <2>1. Left(q) /\ Held(q)
    BY DEF Cleared
  <2> QED BY <1>1, <1>2, <1>4, <2>1 DEF Left, Held, Unheard, Elsewhere, Answered
<1>5. Held(r)'
  <2>1. Held(r)
    BY DEF Cleared
  <2> QED BY <1>2, <1>3, <2>1 DEF Held, Answered
<1>6. ASSUME NEW c \in Callers PROVE Sending(c)'
  <2> PICK q : q = call[c].run
    OBVIOUS
  <2>1. Sending(c) /\ q \in Runs /\ call'[c].pc = call[c].pc /\ call'[c].run = q
    BY <1>2, InvParts DEF Cleared, Answered
  <2>2. CASE q = r
    BY <1>3, <2>1, <2>2 DEF Sending
  <2>3. CASE q # r
    BY <1>1, <2>1, <2>3 DEF Sending, Elsewhere
  <2> QED BY <2>2, <2>3
<1> QED BY <1>3, <1>4, <1>5, <1>6 DEF Cleared

\* A step of a cancel call: a flag that stands for no request is taken back by the call that
\* raised it, or by one that goes on to send.
LEMMA ClearedCall ==
  ASSUME Inv, Cleared, NEW c \in Callers, CancelStep(c)
  PROVE  Cleared'
<1> PICK r : r = call[c].run
  OBVIOUS
<1>1. /\ r \in Runs /\ UNCHANGED <<task, proc, sweep>>
      /\ \A d \in Callers : d # c => call'[d] = call[d]
      /\ call'[c].run = r
      /\ \A q \in Runs : q # r =>
           /\ row'[q] = row[q] /\ chan'[q] = chan[q]
           /\ q \in cancellers' <=> q \in cancellers
           /\ q \in cancelled' <=> q \in cancelled
  BY CallFrame
<1>2. Left(r) /\ Held(r) /\ Sending(c)
  BY <1>1 DEF Cleared
<1>3. ASSUME NEW q \in Runs, q # r PROVE Left(q)' /\ Held(q)'
  <2>1. Left(q) /\ Held(q)
    BY DEF Cleared
  <2>2. Left(q)'
    BY <1>1, <1>3, <2>1 DEF Left
  <2>3. ASSUME NEW d \in Callers, call[d].run = q /\ call[d].pc \in Holding
        PROVE  call'[d] = call[d]
    BY <1>1, <1>3, <2>3
  <2> QED BY <1>1, <1>3, <2>1, <2>2, <2>3 DEF Held, Unheard
<1>4. /\ cancellers' \subseteq cancellers
      /\ chan'[r] = chan[r] \/ CancelSend(c)
      /\ call'[c].pc = "send" => CancelTake(c)
  <2> USE InvParts
  <2>1. CASE CancelFind(c) \/ CancelTake(c)
    <3>1. CancelFind(c) => call'[c].pc # "send" /\ UNCHANGED <<cancellers, chan>>
      BY DEF CancelFind
    <3>2. CancelTake(c) => chan' = chan /\ cancellers' \subseteq cancellers
      BY DEF CancelTake
    <3> QED BY <2>1, <3>1, <3>2
  <2>2. CASE CancelMark(c)
    <3>1. /\ call'[c].pc = (IF r \in cancelled THEN "poll" ELSE "take")
          /\ UNCHANGED <<cancellers, chan>>
      BY <2>2 DEF CancelMark
    <3> QED BY <3>1
  <2>3. CASE CancelSend(c)
    <3>1. call'[c].pc \in {"await", "poll"} /\ UNCHANGED cancellers
      BY <2>3 DEF CancelSend
    <3> QED BY <2>3, <3>1
  <2>4. CASE CancelGivesUp(c) \/ CancelConfirmed(c) \/ CancelRefused(c) \/ CancelDropped(c)
    BY <2>4 DEF CancelGivesUp, CancelConfirmed, CancelRefused, CancelDropped
  <2>5. CASE CancelRecheck(c) \/ CancelTimesOut(c) \/ CancelUpdate(c) \/ CancelPollEnds(c)
    BY <2>5 DEF CancelRecheck, CancelTimesOut, CancelUpdate, CancelPollEnds
  <2> QED BY <2>1, <2>2, <2>3, <2>4, <2>5 DEF CancelStep
<1>5. ASSUME CancelSend(c), task[r].pc # "ended"
      PROVE  ~Unheard(r)' /\ r \notin cancellers' /\ call'[c].pc = "await"
  <2>1. r \notin cancellers /\ task[r].pc \notin {"none", "inserted"}
    BY <1>2, <1>5 DEF CancelSend, Sending
  <2>2. chan'[r].state = "sent" /\ cancellers' = cancellers /\ call'[c].pc = "await"
    BY <1>1, <1>5, InvParts DEF CancelSend
  <2> QED BY <1>1, <1>5, <2>1, <2>2 DEF Unheard
<1>6. ASSUME CancelSend(c), task[r].pc = "ended"
      PROVE  r \notin cancelled' /\ chan' = chan /\ call'[c].pc = "poll"
  BY <1>1, <1>6, InvParts DEF CancelSend
<1>7. Left(r)'
  <2>1. CASE CancelSend(c) /\ task[r].pc # "ended"
    BY <1>1, <1>4, <1>2, <1>5, <2>1 DEF Left
  <2>2. CASE chan'[r] = chan[r]
    BY <1>1, <1>2, <1>4, <2>2 DEF Left
  <2> QED BY <1>4, <1>6, <2>1, <2>2
<1>8. \/ call'[c].pc \in Holding
      \/ ~Unheard(r)'
      \/ r \notin cancelled'
      \/ call[c].pc \notin Holding /\ cancelled' \subseteq cancelled /\ chan' = chan
           /\ cancellers' = cancellers
  <2> USE InvParts
  <2>1. CASE CancelMark(c)
    <3>1. CASE r \notin cancelled
      BY <2>1, <3>1 DEF CancelMark, Holding
    <3>2. CASE r \in cancelled
      BY <2>1, <3>2 DEF CancelMark, Holding
    <3> QED BY <3>1, <3>2
  <2>2. CASE CancelTake(c)
    BY <2>2 DEF CancelTake, Holding
  <2>3. CASE CancelSend(c)
    BY <1>5, <1>6, <2>3
  <2>4. CASE CancelGivesUp(c)
    BY <2>4 DEF CancelGivesUp
  <2>5. CASE CancelFind(c) \/ CancelConfirmed(c) \/ CancelRefused(c) \/ CancelDropped(c)
    BY <2>5 DEF CancelFind, CancelConfirmed, CancelRefused, CancelDropped, Holding
  <2>6. CASE CancelRecheck(c) \/ CancelTimesOut(c) \/ CancelUpdate(c) \/ CancelPollEnds(c)
    BY <2>6 DEF CancelRecheck, CancelTimesOut, CancelUpdate, CancelPollEnds, Holding
  <2> QED BY <2>1, <2>2, <2>3, <2>4, <2>5, <2>6 DEF CancelStep
<1>9. Held(r)'
  <2>1. CASE call'[c].pc \in Holding
    BY <1>1, <2>1 DEF Held
  <2>2. CASE ~Unheard(r)' \/ r \notin cancelled'
    BY <2>2 DEF Held
  <2>3. CASE /\ call[c].pc \notin Holding /\ cancelled' \subseteq cancelled /\ chan' = chan
             /\ cancellers' = cancellers
    <3>1. ASSUME NEW d \in Callers, call[d].run = r /\ call[d].pc \in Holding
          PROVE  call'[d] = call[d]
      BY <1>1, <2>3, <3>1
    <3>2. Unheard(r)' <=> Unheard(r)
      BY <1>1, <2>3 DEF Unheard
    <3> QED BY <1>1, <1>2, <2>3, <3>1, <3>2 DEF Held
  <2> QED BY <1>8, <2>1, <2>2, <2>3
<1>10. ASSUME NEW d \in Callers PROVE Sending(d)'
  <2>1. CASE d # c
    <3>1. Sending(d) /\ call'[d] = call[d] /\ call[d].run \in Runs
      BY <1>1, <2>1, InvParts DEF Cleared
    <3> QED BY <1>1, <1>4, <3>1 DEF Sending
  <2>2. CASE d = c /\ CancelTake(c)
    <3>1. cancellers' = cancellers \ {r} /\ (call'[c].pc = "send" => r \in cancellers)
      BY <1>1, <2>2, InvParts DEF CancelTake
    <3> QED BY <1>1, <1>2, <2>2, <3>1 DEF Sending, Left
  <2>3. CASE d = c /\ ~CancelTake(c)
    BY <1>4, <2>3 DEF Sending
  <2> QED BY <2>1, <2>2, <2>3
<1> QED BY <1>3, <1>7, <1>9, <1>10 DEF Cleared

LEMMA ClearedNext ==
  ASSUME Inv, Cleared, ~DbMayFail, [Next]_vars
  PROVE  Cleared'
<1>1. CASE \E s \in Sweepers : SweepStep(s)
  <2>1. /\ UNCHANGED <<task, proc, call>>
        /\ cancellers' \subseteq cancellers /\ cancelled' \subseteq cancelled
        /\ \A q \in Runs :
             chan'[q] = chan[q] \/ (q \in cancellers /\ q \notin cancellers'
                                     /\ chan'[q].state = "closed")
    BY <1>1, SweepFrame
  <2>2. ASSUME NEW q \in Runs PROVE Left(q)' /\ Held(q)'
    <3>1. Left(q) /\ Held(q)
      BY DEF Cleared
    <3>2. Left(q)'
      BY <2>1, <3>1 DEF Left
    <3>3. Unheard(q)' => Unheard(q)
      BY <2>1 DEF Unheard
    <3> QED BY <2>1, <3>1, <3>2, <3>3 DEF Held
  <2>3. ASSUME NEW c \in Callers PROVE Sending(c)'
    BY <2>1 DEF Cleared, Sending
  <2> QED BY <2>2, <2>3 DEF Cleared
<1>2. CASE Crash
  <2>1. cancellers' = {} /\ cancelled' = {}
    BY <1>2 DEF Crash
  <2>2. \A c \in Callers : call'[c].pc # "send"
    BY <1>2, InvParts DEF Crash
  <2> QED BY <2>1, <2>2 DEF Cleared, Left, Held, Sending
<1>3. CASE UNCHANGED vars
  BY <1>3 DEF vars, Cleared, Left, Held, Unheard, Sending
<1> QED BY <1>1, <1>2, <1>3, Kinds, ClearedRun, ClearedCall

\* When a task has returned, or panicked, and no cancel call of its run is between marking and
\* answering, the run has left RUN_CANCELLERS and RUN_CANCELLED.  Sweeps, crashes, failing
\* kills and failing waits cannot change that; a failing final update can, for then
\* finish_run returns before it takes the run out of either.
THEOREM LeavesRegistries ==
  ASSUME ~DbMayFail
  PROVE  Spec => []RegistriesClean
<1>1. Init => Cleared
  <2> SUFFICES ASSUME Init PROVE Cleared
    OBVIOUS
  <2>1. cancellers = {} /\ cancelled = {} /\ \A c \in Callers : call[c].pc = "idle"
    BY DEF Init
  <2> QED BY <2>1 DEF Cleared, Left, Held, Sending
<1>2. Inv /\ Cleared /\ [Next]_vars => Cleared'
  BY ClearedNext
<1>3. Cleared => RegistriesClean
  BY DEF Cleared, Left, Held, Unheard, Holding, RegistriesClean
<1> QED BY <1>1, <1>2, <1>3, Invariance, PTL DEF Spec

-----------------------------------------------------------------------------
(* A run that is cancelled while it is queued *)

\* No sweep is about to settle a run it found stale: the sweeps list runs and find their
\* cancellers or flags.
QuietSweeps == \A s \in Sweepers : sweep[s].pc \in {"idle", "next"}

\* The script has not started, and a checkpoint is still ahead of its start.
Fresh(r) ==
  \/ task[r].pc \in {"none", "inserted", "admit", "start"}
  \/ task[r].pc = "top" /\ proc[r].spawned = 0

\* A task that waits has started the script, a queued record is of a run that did not.
Begun(r) ==
  /\ task[r].pc \in {"wait", "delay"} => proc[r].spawned > 0
  /\ task[r].pc = "after" /\ task[r].result # "error" => proc[r].spawned > 0
  /\ row[r].status = "queued" =>
       proc[r].spawned = 0 /\ task[r].pc \in {"inserted", "admit", "start"} \cup Finishing
  /\ task[r].pc \in {"none", "inserted"} => r \notin cancellers

\* While a run is fresh, its flag is up and belongs to one call: the one that marked it.
Owned(c) ==
  call[c].pc \in Holding /\ Fresh(call[c].run) =>
    /\ call[c].run \in cancelled
    /\ \A d \in Callers : call[d].pc \in Holding /\ call[d].run = call[c].run => d = c

\* A call that clears the flag because of an answer clears that of a run that is not fresh.
TooLate(c) ==
  /\ call[c].ack \in {"err", "dropped"} \/ call[c].pc = "recheck" => ~Fresh(call[c].run)
  /\ call[c].pc \in {"idle", "mark"} => ~call[c].queued

Doomed(r) == proc[r].spawned = 0 /\ task[r].pc \in Finishing
Flagged(r) == proc[r].spawned = 0 /\ task[r].pc \in {"admit", "start", "top"} /\ r \in cancelled
Early(r) == proc[r].spawned = 0 /\ task[r].pc = "inserted" /\ r \in cancelled
Requested(r) ==
  proc[r].spawned = 0 /\ task[r].pc \in {"admit", "start", "top"} /\ chan[r].state = "sent"

\* A call that marked a queued run keeps it from its start by the flag until the request is
\* in the channel, and by the request from then on.
Caught(c) ==
  call[c].queued /\ (call[c].took \/ call[c].pc = "take") =>
    \/ Doomed(call[c].run)
    \/ call[c].pc = "take" /\ Early(call[c].run)
    \/ call[c].pc \in {"take", "send"} /\ Flagged(call[c].run)
    \/ call[c].pc \notin {"take", "send"} /\ Requested(call[c].run)

Caution ==
  /\ \A r \in Runs : Begun(r)
  /\ \A c \in Callers : Owned(c) /\ TooLate(c) /\ Caught(c)

\* What a step of a run means to the calls that cancel it.
LEMMA RunCaution ==
  ASSUME Inv, NEW r \in Runs, Begun(r), RunAction(r)
  PROVE  /\ Begun(r)'
         /\ Fresh(r)' => Fresh(r)
         /\ Fresh(r) /\ r \in cancelled => r \in cancelled'
         /\ Doomed(r) => Doomed(r)'
         /\ Early(r) => Flagged(r)' \/ Early(r)'
         /\ Flagged(r) => Flagged(r)' \/ Doomed(r)'
         /\ Requested(r) => Requested(r)' \/ Doomed(r)'
<1> DEFINE Goal == /\ Begun(r)'
                   /\ Fresh(r)' => Fresh(r)
                   /\ Fresh(r) /\ r \in cancelled => r \in cancelled'
                   /\ Doomed(r) => Doomed(r)'
                   /\ Early(r) => Flagged(r)' \/ Early(r)'
                   /\ Flagged(r) => Flagged(r)' \/ Doomed(r)'
                   /\ Requested(r) => Requested(r)' \/ Doomed(r)'
<1>a. /\ AttemptCountedFor(r) /\ ResultTrueFor(r) /\ proc[r].spawned \in Nat
  BY InvParts DEF Inv, AttemptCounted, ResultTrue
<1> USE InvParts, <1>a DEF Begun, Fresh, Doomed, Early, Flagged, Requested, Finishing
<1>1. CASE StartInsert(r)
  BY <1>1 DEF StartInsert, AttemptCountedFor
<1>2. CASE StartRegister(r)
  BY <1>2 DEF StartRegister, AttemptCountedFor
<1>3. CASE CheckWaits(r)
  BY <1>3 DEF CheckWaits, Checkpoint
<1>4. CASE CheckCancels(r)
  BY <1>4 DEF CheckCancels, Checkpoint
<1>5. CASE CheckPasses(r)
  BY <1>5 DEF CheckPasses, PassedCheck, ShouldRetry, CancelNotSeen, Checkpoint
<1>6. CASE MarkRunning(r)
  BY <1>6 DEF MarkRunning, TaskEnds, AttemptCountedFor
<1>7. CASE RecordAttempt(r)
  BY <1>7 DEF RecordAttempt
<1>8. CASE SpawnChild(r)
  BY <1>8 DEF SpawnChild
<1>9. CASE SpawnFails(r)
  BY <1>9 DEF SpawnFails
<1>10. CASE WaitSucceeds(r)
  BY <1>10 DEF WaitSucceeds
<1>11. CASE WaitFails(r)
  <2>1. /\ proc'[r].spawned = proc[r].spawned /\ UNCHANGED <<row, cancellers, cancelled, chan>>
    BY <1>11 DEF WaitFails, TerminateProcessTree
  <2>2. task[r].pc = "wait" /\ task'[r].pc = "after"
    BY <1>11 DEF WaitFails
  <2> QED BY <2>1, <2>2
<1>12. CASE WaitTimesOut(r)
  BY <1>12 DEF WaitTimesOut, TerminateProcessTree
<1>13. CASE WaitBreaks(r)
  BY <1>13 DEF WaitBreaks
<1>14. CASE WaitCancelled(r)
  BY <1>14 DEF WaitCancelled, TerminateProcessTree
<1>15. CASE DelayEnds(r)
  BY <1>15 DEF DelayEnds
<1>16. CASE DelayCancelled(r)
  BY <1>16 DEF DelayCancelled
<1>17. CASE ClearBeforeFail(r)
  BY <1>17 DEF ClearBeforeFail
<1>18. CASE FinishRead(r)
  BY <1>18 DEF FinishRead, TaskEnds
<1>19. CASE FinishJudge(r)
  BY <1>19 DEF FinishJudge
<1>20. CASE FinishWrite(r)
  <2>1. /\ UNCHANGED <<proc, cancellers, cancelled>>
        /\ task[r].pc = "write" /\ task'[r].pc \in {"drop", "ended"}
    BY <1>20 DEF FinishWrite, TaskEnds
  <2>2. row'[r].status = task[r].verdict \/ row' = row
    BY <1>20 DEF FinishWrite
  <2>3. row[r].status = "queued" \/ row'[r].status # "queued"
    BY <2>2 DEF Terminal
  <2> QED BY <2>1, <2>3
<1>21. CASE FinishDrop(r)
  BY <1>21 DEF FinishDrop, DropCanceller
<1>22. CASE FinishClear(r)
  BY <1>22 DEF FinishClear, TaskEnds
<1>23. CASE ShellExits(r)
  BY <1>23 DEF ShellExits
<1>24. CASE PipesClose(r)
  BY <1>24 DEF PipesClose
<1>25. CASE BackgroundEnds(r)
  BY <1>25 DEF BackgroundEnds
<1>26. CASE SelectPanics(r)
  BY <1>26 DEF SelectPanics, TaskEnds
<1> QED BY <1>1, <1>2, <1>3, <1>4, <1>5, <1>6, <1>7, <1>8, <1>9, <1>10, <1>11, <1>12, <1>13,
           <1>14, <1>15, <1>16, <1>17, <1>18, <1>19, <1>20, <1>21, <1>22, <1>23, <1>24, <1>25,
           <1>26
           DEF RunAction, TaskStep

LEMMA CautionRun ==
  ASSUME Inv, Caution, NEW r \in Runs, RunAction(r)
  PROVE  Caution'
<1>1. Elsewhere(r)
  BY SilentFrame, AnsweringFrame DEF RunAction, TaskStep
<1>2. /\ Begun(r)'
      /\ Fresh(r)' => Fresh(r)
      /\ Fresh(r) /\ r \in cancelled => r \in cancelled'
      /\ Doomed(r) => Doomed(r)'
      /\ Early(r) => Flagged(r)' \/ Early(r)'
      /\ Flagged(r) => Flagged(r)' \/ Doomed(r)'
      /\ Requested(r) => Requested(r)' \/ Doomed(r)'
  BY RunCaution DEF Caution
<1>3. \E a : Answered(r, a) /\ (a = "ok" \/ ~Fresh(r)')
  <2>1. CASE call' = call
    BY <2>1, Unanswered
  <2>2. CASE Answer(r, "ok")
    BY <2>2, AnswerParts
  <2>3. CASE Answer(r, "err") /\ WaitCancelled(r)
    <3>1. ~Fresh(r)
      BY <2>3 DEF WaitCancelled, Fresh
    <3> QED BY <1>2, <2>3, <3>1, AnswerParts
  <2>4. CASE Answer(r, "dropped") /\ TaskEnds(r)
    <3>1. ~Fresh(r)'
      BY <2>4, InvParts DEF TaskEnds, Fresh
    <3> QED BY <2>4, <3>1, AnswerParts
  <2> QED BY <2>1, <2>2, <2>3, <2>4, SilentFrame, AnsweringFrame DEF RunAction, TaskStep
<1>4. PICK a : Answered(r, a) /\ (a = "ok" \/ ~Fresh(r)')
  BY <1>3
<1>5. ASSUME NEW q \in Runs PROVE Begun(q)'
  <2>1. CASE q = r
    BY <1>2, <2>1
  <2>2. CASE q # r
    <3>1. Begun(q)
      BY DEF Caution
    <3> QED BY <1>1, <2>2, <3>1 DEF Elsewhere, Begun
  <2> QED BY <2>1, <2>2
<1>6. ASSUME NEW c \in Callers PROVE Owned(c)' /\ TooLate(c)' /\ Caught(c)'
  <2>1. Owned(c) /\ TooLate(c) /\ Caught(c) /\ call[c].run \in Runs
    BY InvParts DEF Caution
  <2>2. /\ call'[c].pc = call[c].pc /\ call'[c].run = call[c].run
        /\ call'[c].queued = call[c].queued /\ call'[c].took = call[c].took
        /\ call'[c].ack = call[c].ack \/ (call'[c].ack = a /\ call[c].run = r)
        /\ \A d \in Callers : call'[d].pc = call[d].pc /\ call'[d].run = call[d].run
    BY <1>4 DEF Answered
  <2>3. CASE call[c].run # r
    <3> PICK q : q = call[c].run
      OBVIOUS
    <3>1. /\ task'[q] = task[q] /\ proc'[q] = proc[q] /\ chan'[q] = chan[q]
          /\ q \in cancelled' <=> q \in cancelled
      BY <1>1, <2>1, <2>3 DEF Elsewhere
    <3>2. Owned(c)'
      BY <2>1, <2>2, <3>1 DEF Owned, Fresh
    <3>3. TooLate(c)'
      BY <2>1, <2>2, <2>3, <3>1 DEF TooLate, Fresh
    <3>4. Caught(c)'
      BY <2>1, <2>2, <3>1 DEF Caught, Doomed, Early, Flagged, Requested
    <3> QED BY <3>2, <3>3, <3>4
  <2>4. CASE call[c].run = r
    <3>1. Owned(c)'
      BY <1>2, <2>1, <2>2, <2>4 DEF Owned
    <3>2. TooLate(c)'
      BY <1>2, <1>4, <2>1, <2>2, <2>4 DEF TooLate
    <3>3. Caught(c)'
      BY <1>2, <2>1, <2>2, <2>4 DEF Caught
    <3> QED BY <3>1, <3>2, <3>3
  <2> QED BY <2>3, <2>4
<1> QED BY <1>5, <1>6 DEF Caution

\* What a step of a cancel call means to the other calls of the run, and to itself.
LEMMA CautionCall ==
  ASSUME Inv, Caution, NEW c \in Callers, CancelStep(c)
  PROVE  Caution'
<1> PICK r : r = call[c].run
  OBVIOUS
<1>1. /\ r \in Runs /\ UNCHANGED <<task, proc, sweep>>
      /\ \A d \in Callers : d # c => call'[d] = call[d]
      /\ call'[c].run = r
      /\ \A q \in Runs : q # r =>
           /\ row'[q] = row[q] /\ chan'[q] = chan[q]
           /\ q \in cancellers' <=> q \in cancellers
           /\ q \in cancelled' <=> q \in cancelled
  BY CallFrame
<1>2. /\ Begun(r) /\ Owned(c) /\ TooLate(c) /\ Caught(c)
      /\ \A d \in Callers : Owned(d) /\ TooLate(d) /\ Caught(d)
      /\ \A q \in Runs : Begun(q)
  BY <1>1 DEF Caution
<1>3. \A q \in Runs : (Fresh(q)' <=> Fresh(q)) /\ (Doomed(q)' <=> Doomed(q))
  BY <1>1 DEF Fresh, Doomed
<1>4. cancellers' \subseteq cancellers
  BY DEF CancelStep, CancelFind, CancelMark, CancelTake, CancelSend, CancelGivesUp,
     CancelConfirmed, CancelRefused, CancelDropped, CancelRecheck, CancelTimesOut, CancelUpdate,
     CancelPollEnds
<1>5. row'[r].status = "queued" => row[r].status = "queued"
  <2>1. CASE CancelUpdate(c)
    BY <1>1, <2>1, InvParts DEF CancelUpdate
  <2>2. CASE row' = row
    BY <2>2
  <2> QED BY <2>1, <2>2 DEF CancelStep, CancelFind, CancelMark, CancelTake, CancelSend,
       CancelGivesUp, CancelConfirmed, CancelRefused, CancelDropped, CancelRecheck,
       CancelTimesOut, CancelPollEnds
<1>6. ASSUME NEW q \in Runs PROVE Begun(q)'
  <2>1. CASE q = r
    BY <1>1, <1>2, <1>4, <1>5, <2>1 DEF Begun
  <2>2. CASE q # r
    BY <1>1, <1>2, <2>2 DEF Begun
  <2> QED BY <2>1, <2>2
<1>7. /\ call'[c].pc \in Holding /\ Fresh(r) =>
           /\ r \in cancelled'
           /\ \A d \in Callers : d # c => ~(call[d].pc \in Holding /\ call[d].run = r)
      /\ \A d \in Callers : d # c /\ call[d].pc \in Holding /\ call[d].run = r /\ Fresh(r) =>
           r \in cancelled' /\ call'[c].pc \notin Holding
  <2>1. \A d \in Callers : call[d].pc \in Holding /\ call[d].run = r /\ Fresh(r) =>
          /\ r \in cancelled
          /\ \A e \in Callers : call[e].pc \in Holding /\ call[e].run = r => e = d
    BY <1>2 DEF Owned
  <2> USE InvParts
  <2>2. CASE CancelMark(c)
    <3>1. r \in cancelled' /\ call'[c].pc = (IF r \in cancelled THEN "poll" ELSE "take")
      BY <2>2 DEF CancelMark
    <3> QED BY <2>1, <3>1 DEF Holding
  <2>3. CASE CancelTake(c)
    <3>1. cancelled' = cancelled /\ call[c].pc = "take"
      BY <2>3 DEF CancelTake
    <3>2. call[c].pc \in Holding
      BY <3>1 DEF Holding
    <3> QED BY <2>1, <3>1, <3>2
  <2>4. CASE CancelSend(c) \/ CancelGivesUp(c)
    <3>1. call[c].pc \in Holding /\ call'[c].pc \notin Holding
      BY <2>4 DEF CancelSend, CancelGivesUp, Holding
    <3> QED BY <2>1, <3>1
  <2>5. CASE CancelRefused(c) \/ CancelRecheck(c)
    <3>1. ~Fresh(r)
      BY <1>2, <2>5 DEF CancelRefused, CancelRecheck, TooLate
    <3> QED BY <3>1
  <2>6. CASE CancelFind(c) \/ CancelConfirmed(c) \/ CancelDropped(c)
    <3>1. cancelled' = cancelled /\ call'[c].pc \notin Holding
      BY <2>6 DEF CancelFind, CancelConfirmed, CancelDropped, Holding
    <3> QED BY <2>1, <3>1
  <2>7. CASE CancelTimesOut(c) \/ CancelUpdate(c) \/ CancelPollEnds(c)
    <3>1. cancelled' = cancelled /\ call'[c].pc \notin Holding
      BY <2>7 DEF CancelTimesOut, CancelUpdate, CancelPollEnds, Holding
    <3> QED BY <2>1, <3>1
  <2> QED BY <2>2, <2>3, <2>4, <2>5, <2>6, <2>7 DEF CancelStep
<1>8. ASSUME NEW d \in Callers PROVE Owned(d)'
  <2>1. CASE call[d].run # r
    <3>1. d # c
      BY <2>1
    <3>2. call'[d] = call[d] /\ call[d].run \in Runs
      BY <1>1, <3>1, InvParts
    <3>3. \A e \in Callers : call'[e].pc \in Holding /\ call'[e].run = call[d].run =>
            call[e].pc \in Holding /\ call[e].run = call[d].run
      BY <1>1, <2>1
    <3> QED BY <1>1, <1>2, <1>3, <2>1, <3>2, <3>3 DEF Owned
  <2>2. CASE call[d].run = r /\ d = c
    <3>1. \A e \in Callers : e # c => call'[e] = call[e]
      BY <1>1
    <3> QED BY <1>1, <1>3, <1>7, <2>2, <3>1 DEF Owned
  <2>3. CASE call[d].run = r /\ d # c
    <3>1. call'[d] = call[d]
      BY <1>1, <2>3
    <3>2. ASSUME call[d].pc \in Holding, Fresh(r)
          PROVE  /\ r \in cancelled'
                 /\ \A e \in Callers : call'[e].pc \in Holding /\ call'[e].run = r => e = d
      <4>1. r \in cancelled' /\ call'[c].pc \notin Holding
        BY <1>7, <2>3, <3>2
      <4> QED BY <1>1, <1>2, <2>3, <3>2, <4>1 DEF Owned
    <3> QED BY <1>1, <1>3, <2>3, <3>1, <3>2 DEF Owned
  <2> QED BY <2>1, <2>2, <2>3
<1>9. TooLate(c)'
  <2> USE InvParts
  <2>1. /\ call'[c].ack = call[c].ack \/ call'[c].ack = "pending"
        /\ call'[c].pc = "recheck" => call[c].ack = "dropped"
        /\ call'[c].pc \in {"idle", "mark"} =>
             call[c].pc = "idle" /\ call'[c].queued = call[c].queued
    <3>1. CASE CancelFind(c) \/ CancelMark(c) \/ CancelTake(c)
      BY <3>1 DEF CancelFind, CancelMark, CancelTake
    <3>2. CASE CancelSend(c) \/ CancelGivesUp(c) \/ CancelConfirmed(c) \/ CancelRefused(c)
      BY <3>2 DEF CancelSend, CancelGivesUp, CancelConfirmed, CancelRefused
    <3>3. CASE CancelDropped(c) \/ CancelRecheck(c) \/ CancelTimesOut(c)
      BY <3>3 DEF CancelDropped, CancelRecheck, CancelTimesOut
    <3>4. CASE CancelUpdate(c) \/ CancelPollEnds(c)
      BY <3>4 DEF CancelUpdate, CancelPollEnds
    <3> QED BY <3>1, <3>2, <3>3, <3>4 DEF CancelStep
  <2> QED BY <1>1, <1>2, <1>3, <2>1 DEF TooLate

<1>10. ASSUME NEW d \in Callers, d # c PROVE TooLate(d)'
  BY <1>1, <1>2, <1>3, <1>10, InvParts DEF TooLate
<1>11. chan'[r] = chan[r] \/ (task[r].pc # "ended" /\ chan'[r].state = "sent")
  <2>1. CASE CancelSend(c)
    BY <1>1, <2>1, InvParts DEF CancelSend
  <2> QED BY <2>1 DEF CancelStep, CancelFind, CancelMark, CancelTake, CancelGivesUp,
       CancelConfirmed, CancelRefused, CancelDropped, CancelRecheck, CancelTimesOut,
       CancelUpdate, CancelPollEnds
<1>12. Requested(r) => Requested(r)'
  BY <1>1, <1>11 DEF Requested
<1>13. ASSUME NEW d \in Callers, d # c PROVE Caught(d)'
  <2>1. call'[d] = call[d] /\ call[d].run \in Runs
    BY <1>1, <1>13, InvParts
  <2>2. CASE call[d].run # r
    <3> PICK q : q = call[d].run
      OBVIOUS
    <3>1. /\ task'[q] = task[q] /\ proc'[q] = proc[q] /\ chan'[q] = chan[q]
          /\ q \in cancelled' <=> q \in cancelled
      BY <1>1, <2>1, <2>2
    <3>2. Caught(d)
      BY <1>2
    <3> QED BY <2>1, <3>1, <3>2 DEF Caught, Doomed, Early, Flagged, Requested
  <2>3. CASE call[d].run = r
    <3>1. Caught(d) /\ Owned(d)'
      BY <1>2, <1>8
    <3>2. ASSUME call[d].pc \in {"take", "send"}, Early(r)
          PROVE  Early(r)'
      <4>1. Fresh(r)' /\ call'[d].pc \in Holding
        BY <1>1, <1>3, <2>1, <3>2 DEF Early, Fresh, Holding
      <4> QED BY <1>1, <2>1, <2>3, <3>1, <3>2, <4>1 DEF Owned, Early
    <3>3. ASSUME call[d].pc \in {"take", "send"}, Flagged(r)
          PROVE  Flagged(r)'
      <4>1. Fresh(r)' /\ call'[d].pc \in Holding
        BY <1>1, <1>3, <2>1, <3>3 DEF Flagged, Fresh, Holding
      <4> QED BY <1>1, <2>1, <2>3, <3>1, <3>3, <4>1 DEF Owned, Flagged
    <3>4. Doomed(r) => Doomed(r)'
      BY <1>1, <1>3
    <3> QED BY <1>12, <2>1, <2>3, <3>1, <3>2, <3>3, <3>4 DEF Caught
  <2> QED BY <2>2, <2>3
<1>14. ASSUME CancelSend(c)
       PROVE  /\ call'[c].queued = call[c].queued /\ call'[c].took = call[c].took
              /\ call[c].pc = "send" /\ call'[c].pc \in {"await", "poll"}
  <2> USE InvParts
  <2>1. CASE task[r].pc # "ended"
    <3>1. call' = [call EXCEPT ![c].pc = "await", ![c].ack = "pending"] /\ call[c].pc = "send"
      BY <1>14, <2>1 DEF CancelSend
    <3> QED BY <3>1
  <2>2. CASE task[r].pc = "ended"
    <3>1. call' = [call EXCEPT ![c].pc = "poll"] /\ call[c].pc = "send"
      BY <1>14, <2>2 DEF CancelSend
    <3> QED BY <3>1
  <2> QED BY <2>1, <2>2
<1>15. ASSUME \/ CancelGivesUp(c) \/ CancelConfirmed(c) \/ CancelRefused(c)
              \/ CancelDropped(c) \/ CancelRecheck(c) \/ CancelTimesOut(c)
              \/ CancelUpdate(c) \/ CancelPollEnds(c)
       PROVE  /\ call'[c].queued = call[c].queued /\ call'[c].took = call[c].took
              /\ call[c].pc \notin {"take", "send"} /\ call'[c].pc \notin {"take", "send"}
  <2> USE InvParts
  <2>1. CASE CancelGivesUp(c) \/ CancelConfirmed(c) \/ CancelRefused(c) \/ CancelDropped(c)
    BY <2>1 DEF CancelGivesUp, CancelConfirmed, CancelRefused, CancelDropped
  <2>2. CASE CancelRecheck(c) \/ CancelTimesOut(c)
    BY <2>2 DEF CancelRecheck, CancelTimesOut
  <2>3. CASE CancelUpdate(c) \/ CancelPollEnds(c)
    BY <2>3 DEF CancelUpdate, CancelPollEnds
  <2> QED BY <1>15, <2>1, <2>2, <2>3
<1>16. Caught(c)'
  <2> SUFFICES ASSUME call'[c].queued /\ (call'[c].took \/ call'[c].pc = "take")
               PROVE  \/ Doomed(r)'
                      \/ call'[c].pc = "take" /\ Early(r)'
                      \/ call'[c].pc \in {"take", "send"} /\ Flagged(r)'
                      \/ call'[c].pc \notin {"take", "send"} /\ Requested(r)'
    BY <1>1 DEF Caught
  <2> USE InvParts
  <2>1. Doomed(r) => Doomed(r)'
    BY <1>1, <1>3
  <2>2. CASE CancelFind(c)
    <3>1. call[c].queued /\ call[c].pc = "idle"
      BY <2>2 DEF CancelFind
    <3> QED BY <1>2, <3>1 DEF TooLate
  <2>3. CASE CancelMark(c)
    <3>1. /\ r \notin cancelled /\ row[r].status = "queued" /\ r \in cancelled'
          /\ call'[c].pc = "take"
      BY <1>1, <2>3 DEF CancelMark
    <3>2. proc[r].spawned = 0 /\ task[r].pc \in {"inserted", "admit", "start"} \cup Finishing
      BY <1>2, <3>1 DEF Begun
    <3> QED BY <1>1, <3>1, <3>2 DEF Doomed, Early, Flagged
  <2>4. CASE CancelTake(c)
    <3>1. /\ call[c].queued /\ call[c].pc = "take" /\ cancelled' = cancelled
          /\ r \in cancellers => call'[c].pc = "send"
          /\ call'[c].took = (r \in cancellers) /\ call'[c].pc # "take"
      BY <1>1, <2>4 DEF CancelTake
    <3>2. r \in cancellers
      BY <3>1
    <3>3. ~Early(r)
      BY <1>2, <3>2 DEF Begun, Early
    <3>4. Doomed(r) \/ Flagged(r)
      BY <1>2, <3>1, <3>3 DEF Caught
    <3> QED BY <1>1, <2>1, <3>1, <3>2, <3>4 DEF Flagged
  <2>5. CASE CancelSend(c)
    <3>1. /\ call'[c].queued = call[c].queued /\ call'[c].took = call[c].took
          /\ call[c].pc = "send" /\ call'[c].pc # "take"
      BY <1>14, <2>5
    <3>2. Doomed(r) \/ Flagged(r)
      BY <1>2, <3>1 DEF Caught
    <3>3. CASE Flagged(r)
      <4>1. task[r].pc # "ended"
        BY <3>3 DEF Flagged
      <4>2. chan'[r].state = "sent" /\ call'[c].pc = "await"
        BY <1>1, <2>5, <4>1 DEF CancelSend
      <4> QED BY <1>1, <3>3, <4>2 DEF Flagged, Requested
    <3> QED BY <2>1, <3>2, <3>3
  <2>6. ASSUME call'[c].queued = call[c].queued, call'[c].took = call[c].took,
               call[c].pc \notin {"take", "send"}, call'[c].pc \notin {"take", "send"}
        PROVE  call'[c].pc \notin {"take", "send"} /\ (Doomed(r)' \/ Requested(r)')
    BY <1>2, <1>12, <2>1, <2>6 DEF Caught
  <2>7. CASE CancelGivesUp(c) \/ CancelConfirmed(c) \/ CancelRefused(c) \/ CancelDropped(c)
    <3>1. /\ call'[c].queued = call[c].queued /\ call'[c].took = call[c].took
          /\ call[c].pc \notin {"take", "send"} /\ call'[c].pc \notin {"take", "send"}
      BY <1>15, <2>7
    <3> QED BY <2>6, <3>1
  <2>8. CASE CancelRecheck(c) \/ CancelTimesOut(c)
    <3>1. /\ call'[c].queued = call[c].queued /\ call'[c].took = call[c].took
          /\ call[c].pc \notin {"take", "send"} /\ call'[c].pc \notin {"take", "send"}
      BY <1>15, <2>8
    <3> QED BY <2>6, <3>1
  <2>9. CASE CancelUpdate(c) \/ CancelPollEnds(c)
    <3>1. /\ call'[c].queued = call[c].queued /\ call'[c].took = call[c].took
          /\ call[c].pc \notin {"take", "send"} /\ call'[c].pc \notin {"take", "send"}
      BY <1>15, <2>9
    <3> QED BY <2>6, <3>1
  <2> QED BY <2>2, <2>3, <2>4, <2>5, <2>7, <2>8, <2>9 DEF CancelStep
<1> QED BY <1>6, <1>8, <1>9, <1>10, <1>13, <1>16 DEF Caution

\* A sweep that finds a canceller or a flag of every run it listed leaves all else alone.
LEMMA QuietStep ==
  ASSUME QuietSweeps, NEW s \in Sweepers, SweepStep(s)
  PROVE  UNCHANGED <<row, cancellers, cancelled, chan, task, proc, call>>
<1>1. sweep[s].pc \in {"idle", "next"}
  BY DEF QuietSweeps
<1>2. SweepList(s) \/ (\E r \in Runs : SweepNext(s, r)) \/ SweepEnds(s)
  BY <1>1 DEF SweepStep, SweepRead, SweepJudge, SweepWrite, SweepDrop, SweepClear
<1> QED BY <1>2 DEF SweepList, SweepNext, SweepEnds

LEMMA CautionNext ==
  ASSUME Inv, Caution, QuietSweeps, [Next]_vars
  PROVE  Caution'
<1>1. ASSUME UNCHANGED <<row, cancellers, cancelled, chan, task, proc, call>>
      PROVE  Caution'
  BY <1>1 DEF Caution, Begun, Owned, TooLate, Caught, Fresh, Doomed, Early, Flagged, Requested
<1>2. CASE \E s \in Sweepers : SweepStep(s)
  BY <1>1, <1>2, QuietStep
<1>3. CASE UNCHANGED vars
  BY <1>1, <1>3 DEF vars
<1>4. CASE Crash
  <2> USE InvParts
  <2>1. /\ \A r \in Runs : /\ task[r].pc = "none" => task'[r] = task[r]
                           /\ task[r].pc # "none" => task'[r].pc = "ended"
        /\ cancellers' = {} /\ cancelled' = {} /\ UNCHANGED <<row, proc>>
        /\ \A c \in Callers : /\ call[c].pc = "idle" => call'[c] = call[c]
                              /\ call[c].pc # "idle" => call'[c].pc = "done"
                              /\ call'[c].run = call[c].run
                              /\ call'[c].queued = call[c].queued
                              /\ call'[c].took = call[c].took
                              /\ call'[c].ack = call[c].ack
    <3>1. ASSUME NEW r \in Runs
          PROVE  /\ task[r].pc = "none" => task'[r] = task[r]
                 /\ task[r].pc # "none" => task'[r].pc = "ended"
      <4>1. task'[r] = IF task[r].pc = "none" THEN task[r]
                       ELSE [task[r] EXCEPT !.pc = "ended", !.parked = FALSE]
        BY <1>4, <3>1 DEF Crash
      <4> QED BY <3>1, <4>1
    <3>2. ASSUME NEW c \in Callers
          PROVE  /\ call[c].pc = "idle" => call'[c] = call[c]
                 /\ call[c].pc # "idle" => call'[c].pc = "done"
                 /\ call'[c].run = call[c].run /\ call'[c].queued = call[c].queued
                 /\ call'[c].took = call[c].took /\ call'[c].ack = call[c].ack
      BY <1>4, <3>2 DEF Crash
    <3>3. cancellers' = {} /\ cancelled' = {} /\ UNCHANGED <<row, proc>>
      BY <1>4 DEF Crash
    <3> QED BY Zenon, <3>1, <3>2, <3>3
  <2>2. ASSUME NEW r \in Runs PROVE Begun(r)' /\ (Fresh(r)' => Fresh(r))
    <3>1. Begun(r)
      BY DEF Caution
    <3> QED BY <2>1, <3>1 DEF Begun, Fresh, Finishing
  <2>3. ASSUME NEW c \in Callers PROVE Owned(c)' /\ TooLate(c)' /\ Caught(c)'
    <3>1. TooLate(c) /\ Caught(c) /\ call[c].run \in Runs
      BY DEF Caution
    <3>2. call'[c].pc \in {"idle", "done"}
      BY <2>1
    <3>3. Owned(c)'
      BY <3>2 DEF Owned, Holding
    <3>4. TooLate(c)'
      BY <2>1, <2>2, <3>1, <3>2 DEF TooLate
    <3>5. ASSUME call'[c].queued, call'[c].took PROVE Doomed(call[c].run)'
      <4>1. call[c].queued /\ call[c].took
        BY <2>1, <3>5
      <4>2. /\ proc[call[c].run].spawned = 0 /\ task[call[c].run].pc # "none"
        BY <3>1, <4>1 DEF Caught, Doomed, Early, Flagged, Requested, Finishing
      <4> QED BY <2>1, <3>1, <4>2 DEF Doomed, Finishing
    <3>6. Caught(c)'
      BY <2>1, <3>2, <3>5 DEF Caught
    <3> QED BY <3>3, <3>4, <3>6
  <2> QED BY <2>2, <2>3 DEF Caution
<1> QED BY <1>2, <1>3, <1>4, Kinds, CautionRun, CautionCall

\* A cancel request that marked the run while its record was queued, and found its
\* canceller, keeps the script from ever starting: as long as no sweep settles the run, and
\* whatever fails or crashes.
THEOREM QueuedCancelStops == Spec /\ []QuietSweeps => []QueuedCancelNeverStarts
<1>1. Init => Caution
  <2> SUFFICES ASSUME Init PROVE Caution
    OBVIOUS
  <2>1. \A r \in Runs : Begun(r)
    BY DEF Init, Begun
  <2>2. ASSUME NEW c \in Callers PROVE Owned(c) /\ TooLate(c) /\ Caught(c)
    <3>1. /\ call[c].pc = "idle" /\ call[c].queued = FALSE /\ call[c].took = FALSE
          /\ call[c].ack = "none"
      BY DEF Init
    <3> QED BY <3>1 DEF Owned, TooLate, Caught, Holding
  <2> QED BY <2>1, <2>2 DEF Caution
<1>2. Inv /\ Caution /\ QuietSweeps /\ [Next]_vars => Caution'
  BY CautionNext
<1>3. Caution => QueuedCancelNeverStarts
  BY DEF Caution, Caught, Doomed, Early, Flagged, Requested, QueuedCancelNeverStarts
<1> QED BY <1>1, <1>2, <1>3, Invariance, PTL DEF Spec

-----------------------------------------------------------------------------
(* The contract *)

Unsettled == {"queued", "running", "cancelled"}

\* The record follows the task until the task writes a final status.  The script of the run
\* is open only while the task waits for it, or after the task died, and nothing is left of
\* its processes when the task goes on with a failure.
Flow(r) ==
  /\ task[r].pc = "none" => row[r].status = "none"
  /\ task[r].pc \in {"inserted", "admit", "start"} => row[r].status = "queued"
  /\ task[r].pc \in {"top", "record", "armed", "spawn", "wait", "after", "delay", "fail"} =>
       row[r].status = "running"
  /\ task[r].pc \in {"finish", "judge", "write"} =>
       /\ row[r].status \in Unsettled
       /\ task[r].result # "cancelled" => row[r].status = "running"
  /\ task[r].pc = "write" =>
       /\ task[r].verdict \in Terminal
       /\ task[r].result = "cancelled" => task[r].verdict = "cancelled"
  /\ task[r].pc \notin {"wait", "ended"} => Script(r) # "open"
  /\ /\ task[r].pc \in {"after", "fail", "finish", "judge"}
     /\ task[r].result \notin {"zero", "cancelled"}
     => ~GroupAlive(r)
  /\ task[r].pc = "write" /\ task[r].verdict = "failed" => ~GroupAlive(r)
  /\ proc[r].state # "none" \/ proc[r].exit # "none" \/ task[r].pc = "wait" =>
       proc[r].spawned > 0

\* The run ended because of a cancel request, and its script is over.
Stopped(r) ==
  /\ task[r].pc \in Finishing /\ task[r].result = "cancelled"
  /\ Script(r) # "open" /\ row[r].status \in Unsettled

\* A confirmed request is of a stopped run, and so is the record a call is to update.
Acked(c) == call[c].ack = "ok" \/ call[c].pc = "update" => Stopped(call[c].run)

Promised ==
  /\ \A r \in Runs : Flow(r)
  /\ \A c \in Callers : Acked(c)

\* The script follows the process group.
LEMMA ScriptIs ==
  ASSUME NEW r \in Runs
  PROVE  /\ Script(r) = "idle" <=> ~GroupAlive(r)
         /\ Script(r) = "open" <=>
              GroupAlive(r) /\ ~(proc[r].state = "background" /\ proc[r].exit = "zero")
         /\ Script(r) \in {"idle", "open", "left"}
BY DEF Script, GroupAlive

LEMMA ScriptStays ==
  ASSUME NEW r \in Runs, proc'[r] = proc[r]
  PROVE  Script(r)' = Script(r) /\ (GroupAlive(r)' <=> GroupAlive(r))
BY DEF Script, GroupAlive

\* A kill that cannot fail leaves nothing of the group.
LEMMA KillWorks ==
  ASSUME Inv, ~KillMayFail, NEW r \in Runs, NEW ok, TerminateProcessTree(r, ok)
  PROVE  /\ ok /\ ~GroupAlive(r)' /\ Script(r)' = "idle"
         /\ proc'[r].state = "gone" /\ proc'[r].spawned = proc[r].spawned
<1>1. ok
  BY DEF TerminateProcessTree
<1>2. proc'[r].state = "gone" /\ proc'[r].spawned = proc[r].spawned
  BY <1>1, InvParts DEF TerminateProcessTree
<1> QED BY <1>1, <1>2 DEF GroupAlive, Script

\* A wait ends with the script, and nothing is left of the group unless the shell succeeded.
LEMMA WaitEnds ==
  ASSUME Inv, ~KillMayFail, ~WaitMayFail, NEW r \in Runs,
         WaitSucceeds(r) \/ WaitFails(r) \/ WaitTimesOut(r) \/ WaitBreaks(r) \/ WaitCancelled(r)
  PROVE  /\ task[r].pc = "wait" /\ task'[r].pc \in {"after", "finish"} /\ row' = row
         /\ task'[r].pc = "finish" => WaitCancelled(r)
         /\ WaitCancelled(r) => task'[r].pc = "finish" /\ task'[r].result = "cancelled"
         /\ \/ WaitSucceeds(r) /\ task'[r].result = "zero" /\ proc' = proc
            \/ ~GroupAlive(r)' /\ Script(r)' = "idle"
         /\ Script(r)' # "open" /\ proc'[r].spawned = proc[r].spawned
<1> USE InvParts
<1>1. ASSUME WaitCancelled(r)
      PROVE  /\ task[r].pc = "wait" /\ task'[r].pc = "finish" /\ row' = row
             /\ task'[r].result = "cancelled"
             /\ ~GroupAlive(r)' /\ Script(r)' = "idle"
             /\ proc'[r].spawned = proc[r].spawned
  <2>1. PICK ok \in BOOLEAN :
          /\ TerminateProcessTree(r, ok)
          /\ task' = IF ok THEN [task EXCEPT ![r].pc = "finish", ![r].result = "cancelled"]
                     ELSE [task EXCEPT ![r].pc = "after", ![r].result = "error"]
    BY <1>1 DEF WaitCancelled
  <2>2. ok /\ ~GroupAlive(r)' /\ Script(r)' = "idle" /\ proc'[r].spawned = proc[r].spawned
    BY <2>1, KillWorks
  <2>3. task'[r].pc = "finish" /\ task'[r].result = "cancelled"
    BY <2>1, <2>2
  <2>4. task[r].pc = "wait" /\ row' = row
    BY <1>1 DEF WaitCancelled
  <2> QED BY <2>2, <2>3, <2>4
<1>2. CASE WaitSucceeds(r)
  <2>1. /\ task[r].pc = "wait" /\ row' = row /\ proc' = proc
        /\ task'[r].pc = "after" /\ task'[r].result = "zero"
        /\ proc[r].exit = "zero" /\ ~ScriptOpen(r)
    BY <1>2 DEF WaitSucceeds
  <2>2. Script(r) # "open"
    BY <2>1 DEF Script, GroupAlive, ScriptOpen
  <2>3. Script(r)' # "open"
    BY <2>1, <2>2, ScriptStays
  <2> QED BY <1>1, <1>2, <2>1, <2>3
<1>3. CASE WaitFails(r) \/ WaitTimesOut(r)
  <2>1. PICK ok \in BOOLEAN : TerminateProcessTree(r, ok)
    BY <1>3 DEF WaitFails, WaitTimesOut
  <2>2. ~GroupAlive(r)' /\ Script(r)' = "idle" /\ proc'[r].spawned = proc[r].spawned
    BY <2>1, KillWorks
  <2>3. task[r].pc = "wait" /\ task'[r].pc = "after" /\ row' = row
    BY <1>3 DEF WaitFails, WaitTimesOut
  <2> QED BY <1>1, <2>2, <2>3
<1>4. CASE WaitBreaks(r)
  BY <1>4 DEF WaitBreaks
<1> QED BY <1>1, <1>2, <1>3, <1>4

LEMMA FlowRun ==
  ASSUME Inv, ~KillMayFail, ~WaitMayFail, NEW r \in Runs, Flow(r), RunAction(r)
  PROVE  Flow(r)'
<1> USE InvParts
<1>a. task[r].pc \in {"top", "record", "armed", "spawn", "delay"} => ~GroupAlive(r)
  <2>1. ResultTrueFor(r) /\ proc[r].spawned \in Nat
    BY DEF Inv, ResultTrue
  <2> QED BY <2>1 DEF ResultTrueFor, Failed, Flow, GroupAlive
<1>b. proc'[r] = proc[r] => Script(r)' = Script(r) /\ (GroupAlive(r)' <=> GroupAlive(r))
  BY ScriptStays
<1>c. Script(r) = "idle" <=> ~GroupAlive(r)
  BY ScriptIs
<1> USE <1>a, <1>b, <1>c DEF Flow, Unsettled
<1>1. CASE StartInsert(r)
  BY <1>1 DEF StartInsert
<1>2. CASE StartRegister(r)
  BY <1>2 DEF StartRegister
<1>3. CASE CheckWaits(r)
  BY <1>3 DEF CheckWaits, Checkpoint
<1>4. CASE CheckCancels(r)
  BY <1>4 DEF CheckCancels, Checkpoint
<1>5. CASE CheckPasses(r)
  BY <1>5 DEF CheckPasses, PassedCheck, Checkpoint
<1>6. CASE MarkRunning(r)
  BY <1>6 DEF MarkRunning, TaskEnds
<1>7. CASE RecordAttempt(r)
  BY <1>7 DEF RecordAttempt
<1>8. CASE SpawnChild(r)
  <2>1. proc'[r].spawned > 0
    BY <1>8 DEF SpawnChild
  <2>2. task[r].pc = "spawn" /\ task'[r].pc = "wait" /\ row' = row
    BY <1>8 DEF SpawnChild
  <2> QED BY <2>1, <2>2
<1>9. CASE SpawnFails(r)
  BY <1>9 DEF SpawnFails
<1>10. CASE WaitSucceeds(r) \/ WaitFails(r) \/ WaitTimesOut(r) \/ WaitBreaks(r) \/ WaitCancelled(r)
  <2>1. /\ task[r].pc = "wait" /\ task'[r].pc \in {"after", "finish"} /\ row' = row
        /\ task'[r].pc = "finish" => task'[r].result = "cancelled"
        /\ task'[r].result = "zero" \/ ~GroupAlive(r)'
        /\ Script(r)' # "open" /\ proc'[r].spawned = proc[r].spawned
    BY <1>10, WaitEnds
  <2>2. proc'[r].spawned > 0
    BY <2>1
  <2> QED BY <2>1, <2>2
<1>11. CASE DelayEnds(r)
  BY <1>11 DEF DelayEnds
<1>12. CASE DelayCancelled(r)
  BY <1>12 DEF DelayCancelled
<1>13. CASE ClearBeforeFail(r)
  BY <1>13 DEF ClearBeforeFail
<1>14. CASE FinishRead(r)
  BY <1>14 DEF FinishRead, TaskEnds
<1>15. CASE FinishJudge(r)
  <2>1. /\ task[r].pc = "judge" /\ task'[r].pc = "write" /\ task'[r].result = task[r].result
        /\ UNCHANGED <<row, proc>>
        /\ task'[r].verdict = FinishVerdict(r, task[r].verdict, AskedStatus(task[r].result))
    BY <1>15 DEF FinishJudge
  <2>2. /\ task'[r].verdict \in Terminal
        /\ task[r].result = "cancelled" => task'[r].verdict = "cancelled"
        /\ task[r].result = "zero" => task'[r].verdict # "failed"
    BY <2>1 DEF FinishVerdict, AskedStatus, Terminal
  <2> QED BY <2>1, <2>2
<1>16. CASE FinishWrite(r)
  BY <1>16 DEF FinishWrite, TaskEnds
<1>17. CASE FinishDrop(r)
  BY <1>17 DEF FinishDrop
<1>18. CASE FinishClear(r)
  BY <1>18 DEF FinishClear, TaskEnds
<1>19. CASE ShellExits(r)
  BY <1>19 DEF ShellExits, GroupAlive, Script
<1>20. CASE PipesClose(r)
  BY <1>20 DEF PipesClose, GroupAlive, Script
<1>21. CASE BackgroundEnds(r)
  BY <1>21 DEF BackgroundEnds, GroupAlive, Script
<1>22. CASE SelectPanics(r)
  BY <1>22 DEF SelectPanics, TaskEnds
<1> QED BY <1>1, <1>2, <1>3, <1>4, <1>5, <1>6, <1>7, <1>8, <1>9, <1>10, <1>11, <1>12, <1>13,
           <1>14, <1>15, <1>16, <1>17, <1>18, <1>19, <1>20, <1>21, <1>22 DEF RunAction, TaskStep

LEMMA StoppedRun ==
  ASSUME Inv, ~KillMayFail, ~WaitMayFail, NEW r \in Runs, Flow(r), Stopped(r), RunAction(r)
  PROVE  Stopped(r)'
<1> USE InvParts
<1>a. proc'[r] = proc[r] => Script(r)' = Script(r)
  BY ScriptStays
<1> USE <1>a DEF Flow, Stopped, Finishing
<1>1. CASE FinishRead(r)
  BY <1>1 DEF FinishRead, TaskEnds
<1>2. CASE FinishJudge(r)
  BY <1>2 DEF FinishJudge
<1>3. CASE FinishWrite(r)
  <2>1. /\ task[r].pc = "write" /\ task'[r].pc \in {"drop", "ended"}
        /\ task'[r].result = task[r].result /\ proc' = proc
    BY <1>3 DEF FinishWrite, TaskEnds
  <2>2. row'[r].status = task[r].verdict \/ row' = row
    BY <1>3 DEF FinishWrite
  <2>3. row'[r].status \in Unsettled
    BY <2>1, <2>2 DEF Unsettled
  <2> QED BY <2>1, <2>3
<1>4. CASE FinishDrop(r)
  BY <1>4 DEF FinishDrop
<1>5. CASE FinishClear(r)
  BY <1>5 DEF FinishClear, TaskEnds
<1>6. CASE ShellExits(r) \/ PipesClose(r)
  BY <1>6 DEF ShellExits, PipesClose, Script, GroupAlive
<1>7. CASE BackgroundEnds(r)
  BY <1>7 DEF BackgroundEnds, Script, GroupAlive
<1> QED BY <1>1, <1>2, <1>3, <1>4, <1>5, <1>6, <1>7 DEF RunAction, TaskStep, StartInsert, StartRegister,
     CheckWaits, CheckCancels, CheckPasses, Checkpoint, MarkRunning, RecordAttempt, SpawnChild,
     SpawnFails, WaitSucceeds, WaitFails, WaitTimesOut, WaitBreaks, WaitCancelled, DelayEnds,
     DelayCancelled, SelectPanics, ClearBeforeFail

\* Confirming a request stops the run.
LEMMA ConfirmStops ==
  ASSUME Inv, ~KillMayFail, ~WaitMayFail, NEW r \in Runs, Flow(r),
         CheckCancels(r) \/ WaitCancelled(r) \/ DelayCancelled(r)
  PROVE  Stopped(r)'
<1> USE InvParts
<1>1. CASE CheckCancels(r)
  BY <1>1, ScriptStays DEF CheckCancels, Checkpoint, Flow, Stopped, Finishing, Unsettled
<1>2. CASE WaitCancelled(r)
  <2>1. /\ task[r].pc = "wait" /\ row' = row /\ Script(r)' # "open"
        /\ task'[r].pc = "finish" /\ task'[r].result = "cancelled"
    BY <1>2, WaitEnds
  <2> QED BY <2>1 DEF Flow, Stopped, Finishing, Unsettled
<1>3. CASE DelayCancelled(r)
  BY <1>3, ScriptStays DEF DelayCancelled, Flow, Stopped, Finishing, Unsettled
<1> QED BY <1>1, <1>2, <1>3

LEMMA PromisedRun ==
  ASSUME Inv, Promised, ~KillMayFail, ~WaitMayFail, NEW r \in Runs, RunAction(r)
  PROVE  Promised'
<1>1. Elsewhere(r)
  BY SilentFrame, AnsweringFrame DEF RunAction, TaskStep
<1>2. Flow(r) /\ Flow(r)'
  BY FlowRun DEF Promised
<1>3. \E a : Answered(r, a) /\ (a # "ok" \/ Stopped(r)')
  <2>1. CASE call' = call
    BY <2>1, Unanswered
  <2>2. CASE Answer(r, "ok") /\ (CheckCancels(r) \/ WaitCancelled(r) \/ DelayCancelled(r))
    BY <1>2, <2>2, AnswerParts, ConfirmStops
  <2>3. CASE Answer(r, "err") \/ Answer(r, "dropped")
    BY <2>3, AnswerParts
  <2> QED BY <2>1, <2>2, <2>3, SilentFrame, AnsweringFrame DEF RunAction, TaskStep
<1>4. PICK a : Answered(r, a) /\ (a # "ok" \/ Stopped(r)')
  BY <1>3
<1>5. ASSUME NEW q \in Runs PROVE Flow(q)' /\ (Stopped(q) => Stopped(q)')
  <2>1. CASE q = r
    BY <1>2, <2>1, StoppedRun
  <2>2. CASE q # r
    <3>1. Flow(q) /\ task'[q] = task[q] /\ proc'[q] = proc[q] /\ row'[q] = row[q]
      BY <1>1, <2>2 DEF Elsewhere, Promised
    <3> QED BY <3>1 DEF Flow, Stopped, GroupAlive, Script
  <2> QED BY <2>1, <2>2
<1>6. ASSUME NEW c \in Callers PROVE Acked(c)'
  <2> PICK q : q = call[c].run
    OBVIOUS
  <2>1. Acked(c) /\ q \in Runs
    BY InvParts DEF Promised
  <2>2. /\ call'[c].pc = call[c].pc /\ call'[c].run = q
        /\ call'[c].ack = call[c].ack \/ (call'[c].ack = a /\ q = r)
    BY <1>4 DEF Answered
  <2>3. call[c].ack = "ok" \/ call[c].pc = "update" => Stopped(q)'
    BY <1>5, <2>1 DEF Acked
  <2>4. call'[c].ack = "ok" \/ call'[c].pc = "update" => Stopped(q)'
    BY <1>4, <2>2, <2>3
  <2> QED BY <2>2, <2>4 DEF Acked
<1> QED BY <1>5, <1>6 DEF Promised

LEMMA PromisedCall ==
  ASSUME Inv, Promised, NEW c \in Callers, CancelStep(c)
  PROVE  Promised'
<1> PICK r : r = call[c].run
  OBVIOUS
<1>1. /\ r \in Runs /\ UNCHANGED <<task, proc>>
      /\ \A d \in Callers : d # c => call'[d] = call[d]
      /\ call'[c].run = r
      /\ \A q \in Runs : q # r => row'[q] = row[q]
  BY CallFrame
<1>2. Acked(c)
  BY DEF Promised
<1>3. row'[r].status = row[r].status \/ (Stopped(r) /\ row'[r].status = "cancelled")
  <2>1. CASE CancelUpdate(c)
    BY <1>1, <1>2, <2>1, InvParts DEF CancelUpdate, Acked
  <2>2. CASE row' = row
    BY <2>2
  <2> QED BY <2>1, <2>2 DEF CancelStep, CancelFind, CancelMark, CancelTake, CancelSend,
       CancelGivesUp, CancelConfirmed, CancelRefused, CancelDropped, CancelRecheck,
       CancelTimesOut, CancelPollEnds
<1>4. ASSUME NEW q \in Runs PROVE Flow(q)' /\ (Stopped(q) => Stopped(q)')
  <2>1. Flow(q)
    BY DEF Promised
  <2>2. row'[q].status = row[q].status \/ (Stopped(q) /\ row'[q].status = "cancelled")
    BY <1>1, <1>3
  <2> QED BY <1>1, <2>1, <2>2 DEF Flow, Stopped, GroupAlive, Script, Unsettled, Finishing
<1>5. call'[c].ack = "ok" \/ call'[c].pc = "update" =>
        call[c].ack = "ok" \/ call[c].pc = "update"
  <2> USE InvParts
  <2>1. CASE CancelFind(c) \/ CancelMark(c) \/ CancelTake(c)
    BY <2>1 DEF CancelFind, CancelMark, CancelTake
  <2>2. CASE CancelSend(c) \/ CancelGivesUp(c) \/ CancelConfirmed(c) \/ CancelRefused(c)
    BY <2>2 DEF CancelSend, CancelGivesUp, CancelConfirmed, CancelRefused
  <2>3. CASE CancelDropped(c) \/ CancelRecheck(c) \/ CancelTimesOut(c)
    BY <2>3 DEF CancelDropped, CancelRecheck, CancelTimesOut
  <2>4. CASE CancelUpdate(c) \/ CancelPollEnds(c)
    BY <2>4 DEF CancelUpdate, CancelPollEnds
  <2> QED BY <2>1, <2>2, <2>3, <2>4 DEF CancelStep
<1>6. ASSUME NEW d \in Callers PROVE Acked(d)'
  <2> PICK q : q = call[d].run
    OBVIOUS
  <2>1. Acked(d) /\ q \in Runs /\ call'[d].run = q
    BY <1>1, InvParts DEF Promised
  <2>2. call'[d].ack = "ok" \/ call'[d].pc = "update" =>
          call[d].ack = "ok" \/ call[d].pc = "update"
    BY <1>1, <1>5
  <2>3. call'[d].ack = "ok" \/ call'[d].pc = "update" => Stopped(q)'
    BY <1>4, <2>1, <2>2 DEF Acked
  <2> QED BY <2>1, <2>3 DEF Acked, Stopped, GroupAlive, Script
<1> QED BY <1>4, <1>6 DEF Promised

LEMMA PromisedNext ==
  ASSUME Inv, Promised, ~KillMayFail, ~WaitMayFail, QuietSweeps, [Next]_vars
  PROVE  Promised'
<1>1. ASSUME UNCHANGED <<row, task, proc, call>>
      PROVE  Promised'
  BY <1>1 DEF Promised, Flow, Acked, Stopped, GroupAlive, Script
<1>2. CASE \E s \in Sweepers : SweepStep(s)
  BY <1>1, <1>2, QuietStep
<1>3. CASE UNCHANGED vars
  BY <1>1, <1>3 DEF vars
<1>4. CASE Crash
  <2> USE InvParts
  <2>1. ASSUME NEW r \in Runs
        PROVE  /\ task[r].pc = "none" => task'[r] = task[r]
               /\ task[r].pc # "none" => task'[r].pc = "ended"
               /\ task'[r].result = task[r].result
    <3>1. task'[r] = IF task[r].pc = "none" THEN task[r]
                     ELSE [task[r] EXCEPT !.pc = "ended", !.parked = FALSE]
      BY <1>4, <2>1 DEF Crash
    <3> QED BY <2>1, <3>1
  <2>2. ASSUME NEW c \in Callers
        PROVE  /\ call'[c].pc \in {"idle", "done"}
               /\ call'[c].run = call[c].run /\ call'[c].ack = call[c].ack
    BY <1>4, <2>2 DEF Crash
  <2>3. UNCHANGED <<row, proc>>
    BY <1>4 DEF Crash
  <2>4. ASSUME NEW r \in Runs PROVE Flow(r)' /\ (Stopped(r) => Stopped(r)')
    <3>1. Flow(r)
      BY DEF Promised
    <3> QED BY <2>1, <2>3, <3>1 DEF Flow, Stopped, GroupAlive, Script, Finishing
  <2>5. ASSUME NEW c \in Callers PROVE Acked(c)'
    <3> PICK q : q = call[c].run
      OBVIOUS
    <3>1. Acked(c) /\ q \in Runs
      BY DEF Promised
    <3>2. call'[c].ack = "ok" => Stopped(q)'
      BY <2>2, <2>4, <3>1 DEF Acked
    <3> QED BY <2>2, <3>2 DEF Acked, Stopped, GroupAlive, Script
  <2> QED BY <2>4, <2>5 DEF Promised
<1> QED BY <1>2, <1>3, <1>4, Kinds, PromisedRun, PromisedCall

SameStatus(r) == row'[r].status = row[r].status

SameScript(r) == Script(r)' = Script(r) /\ proc'[r].spawned = proc[r].spawned

\* A change to one run that the contract allows, the change of nothing included.
Honest(r) ==
  \/ SameStatus(r) /\ SameScript(r)
  \/ /\ SameScript(r)
     /\ \/ row[r].status = "none" /\ row'[r].status = "queued"
        \/ row[r].status = "queued" /\ row'[r].status = "running"
        \/ row[r].status \in Active /\ Script(r) # "open" /\ row'[r].status = "cancelled"
        \/ /\ row[r].status = "running" /\ Script(r) # "open"
           /\ row'[r].status \in {"success", "failed"}
           /\ row'[r].status = "success" => proc[r].spawned > 0
           /\ row'[r].status = "failed" => Script(r) = "idle"
  \/ /\ SameStatus(r)
     /\ \/ /\ row[r].status = "running" /\ Script(r) = "idle" /\ Script(r)' = "open"
           /\ proc[r].spawned < MaxRetries + 1 /\ proc'[r].spawned = proc[r].spawned + 1
        \/ Script(r) # "idle" /\ Script(r)' = "idle" /\ proc'[r].spawned = proc[r].spawned
        \/ Script(r) = "open" /\ Script(r)' = "left" /\ proc'[r].spawned = proc[r].spawned

LEMMA HonestMaps ==
  ASSUME NEW r \in Runs, Honest(r),
         \A q \in Runs : q # r => SameStatus(q) /\ SameScript(q)
  PROVE  [Contract!Next]_(Contract!contractVars)
<1> DEFINE status == [q \in Runs |-> row[q].status]
           script == [q \in Runs |-> Script(q)]
           starts == [q \in Runs |-> proc[q].spawned]
<1>1. status' = [status EXCEPT ![r] = row'[r].status]
  BY DEF SameStatus
<1>2. script' = [script EXCEPT ![r] = Script(r)']
  <2>1. \A q \in Runs : q # r => Script(q)' = Script(q)
    BY DEF SameScript
  <2> QED BY <2>1
<1>3. starts' = [starts EXCEPT ![r] = proc'[r].spawned]
  BY DEF SameScript
<1>4. SameStatus(r) => status' = status
  BY <1>1 DEF SameStatus
<1>5. SameScript(r) => script' = script /\ starts' = starts
  BY <1>2, <1>3 DEF SameScript
<1>6. status[r] = row[r].status /\ script[r] = Script(r) /\ starts[r] = proc[r].spawned
  OBVIOUS
<1>7. Contract!contractVars = <<status, script, starts>>
  BY DEF Contract!contractVars
<1>8. CASE SameStatus(r) /\ SameScript(r)
  BY <1>4, <1>5, <1>7, <1>8 DEF Contract!contractVars
<1>9. CASE SameScript(r) /\ row[r].status = "none" /\ row'[r].status = "queued"
  <2>1. Contract!Submit(r)
    BY <1>1, <1>5, <1>6, <1>9 DEF Contract!Submit
  <2> QED BY <2>1 DEF Contract!Next
<1>10. CASE SameScript(r) /\ row[r].status = "queued" /\ row'[r].status = "running"
  <2>1. Contract!Begin(r)
    BY <1>1, <1>5, <1>6, <1>10 DEF Contract!Begin
  <2> QED BY <2>1 DEF Contract!Next
<1>11. CASE /\ SameScript(r) /\ row[r].status \in Active /\ Script(r) # "open"
            /\ row'[r].status = "cancelled"
  <2>1. Contract!Cancel(r)
    BY <1>1, <1>5, <1>6, <1>11 DEF Contract!Cancel, Active
  <2> QED BY <2>1 DEF Contract!Next
<1>12. CASE /\ SameScript(r) /\ row[r].status = "running" /\ Script(r) # "open"
            /\ row'[r].status \in {"success", "failed"}
            /\ row'[r].status = "success" => proc[r].spawned > 0
            /\ row'[r].status = "failed" => Script(r) = "idle"
  <2>1. PICK v \in {"success", "failed"} : v = row'[r].status
    BY <1>12
  <2>2. Contract!Conclude(r, v)
    BY <1>1, <1>5, <1>6, <1>12, <2>1 DEF Contract!Conclude
  <2>3. \E verdict \in {"success", "failed"} : Contract!Conclude(r, verdict)
    BY <2>2
  <2> QED BY <2>3 DEF Contract!Next
<1>13. CASE /\ SameStatus(r) /\ row[r].status = "running"
            /\ Script(r) = "idle" /\ Script(r)' = "open"
            /\ proc[r].spawned < MaxRetries + 1 /\ proc'[r].spawned = proc[r].spawned + 1
  <2>1. script' = [script EXCEPT ![r] = "open"]
    BY <1>2, <1>13
  <2>2. starts' = [starts EXCEPT ![r] = @ + 1]
    BY <1>3, <1>13
  <2>3. Contract!Launch(r)
    BY <1>4, <1>6, <1>13, <2>1, <2>2 DEF Contract!Launch
  <2> QED BY <2>3 DEF Contract!Next
<1>14. CASE /\ SameStatus(r) /\ Script(r) # "idle" /\ Script(r)' = "idle"
            /\ proc'[r].spawned = proc[r].spawned
  <2>1. script' = [script EXCEPT ![r] = "idle"]
    BY <1>2, <1>14
  <2>2. starts' = starts
    BY <1>3, <1>14
  <2>3. Contract!Stop(r)
    BY <1>4, <1>6, <1>14, <2>1, <2>2 DEF Contract!Stop
  <2> QED BY <2>3 DEF Contract!Next
<1>15. CASE /\ SameStatus(r) /\ Script(r) = "open" /\ Script(r)' = "left"
            /\ proc'[r].spawned = proc[r].spawned
  <2>1. script' = [script EXCEPT ![r] = "left"]
    BY <1>2, <1>15
  <2>2. starts' = starts
    BY <1>3, <1>15
  <2>3. Contract!Detach(r)
    BY <1>4, <1>6, <1>15, <2>1, <2>2 DEF Contract!Detach
  <2> QED BY <2>3 DEF Contract!Next
<1> QED BY <1>8, <1>9, <1>10, <1>11, <1>12, <1>13, <1>14, <1>15 DEF Honest

\* A step of a run changes its record and its script as the contract allows.
LEMMA RunHonest ==
  ASSUME Inv, Promised, ~KillMayFail, ~WaitMayFail, NEW r \in Runs, RunAction(r)
  PROVE  Honest(r)
<1>1. Flow(r) /\ AttemptCountedFor(r) /\ ResultTrueFor(r) /\ proc[r].spawned \in Nat
  BY InvParts DEF Promised, Inv, AttemptCounted, ResultTrue
<1> USE InvParts
<1>2. ASSUME UNCHANGED proc PROVE SameScript(r)
  BY <1>2, ScriptStays DEF SameScript
<1>3. ASSUME UNCHANGED row PROVE SameStatus(r)
  BY <1>3 DEF SameStatus
<1>4. CASE StartInsert(r)
  <2>1. row[r].status = "none" /\ row'[r].status = "queued" /\ UNCHANGED proc
    BY <1>1, <1>4 DEF StartInsert, Flow
  <2> QED BY <1>2, <2>1 DEF Honest
<1>5. CASE MarkRunning(r)
  <2>1. /\ (row[r].status = "queued" /\ row'[r].status = "running") \/ row' = row
        /\ UNCHANGED proc
    BY <1>1, <1>5 DEF MarkRunning, Flow
  <2> QED BY <1>2, <1>3, <2>1 DEF Honest
<1>6. CASE SpawnChild(r)
  <2>1. /\ row[r].status = "running" /\ row' = row /\ task[r].pc = "spawn"
    BY <1>1, <1>6 DEF SpawnChild, Flow
  <2>2. /\ proc'[r].spawned = proc[r].spawned + 1 /\ proc'[r].state = "running"
    BY <1>6 DEF SpawnChild
  <2>3. proc[r].spawned < MaxRetries + 1
    BY <1>1, <2>1, ConstantsAssumption DEF AttemptCountedFor
  <2>4. Script(r) = "idle"
    BY <1>1, <2>1 DEF Flow, ResultTrueFor, Failed, Script, GroupAlive
  <2>5. Script(r)' = "open"
    BY <2>2 DEF Script, GroupAlive
  <2> QED BY <1>3, <2>1, <2>2, <2>3, <2>4, <2>5 DEF Honest
<1>7. CASE WaitSucceeds(r) \/ WaitFails(r) \/ WaitTimesOut(r) \/ WaitBreaks(r) \/ WaitCancelled(r)
  <2>1. /\ row' = row /\ proc'[r].spawned = proc[r].spawned
        /\ proc' = proc \/ Script(r)' = "idle"
    BY <1>7, WaitEnds
  <2>2. CASE proc' = proc
    BY <1>2, <1>3, <2>1, <2>2 DEF Honest
  <2>3. CASE Script(r)' = "idle" /\ Script(r) = "idle"
    BY <1>3, <2>1, <2>3 DEF Honest, SameScript
  <2>4. CASE Script(r)' = "idle" /\ Script(r) # "idle"
    BY <1>3, <2>1, <2>4 DEF Honest
  <2> QED BY <2>1, <2>2, <2>3, <2>4
<1>8. CASE FinishWrite(r)
  <2>1. UNCHANGED proc /\ task[r].pc = "write" /\ Script(r) # "open"
    BY <1>1, <1>8 DEF FinishWrite, Flow
  <2>2. CASE row' = row
    BY <1>2, <1>3, <2>1, <2>2 DEF Honest
  <2>3. CASE row'[r].status = task[r].verdict
    <3>1. /\ task[r].verdict \in Terminal /\ row[r].status \in Unsettled
          /\ task[r].verdict # "cancelled" => row[r].status = "running"
      BY <1>1, <2>1 DEF Flow
    <3>2. task[r].verdict = "success" => proc[r].spawned > 0
      BY <1>1, <2>1 DEF Flow, ResultTrueFor, Succeeded
    <3>3. CASE task[r].verdict # "cancelled"
      <4>1. task[r].verdict = "failed" => Script(r) = "idle"
        BY <1>1, <2>1, ScriptIs DEF Flow
      <4> QED BY <1>2, <2>1, <2>3, <3>1, <3>2, <3>3, <4>1 DEF Honest, Terminal
    <3>4. CASE task[r].verdict = "cancelled" /\ row[r].status = "cancelled"
      BY <1>2, <2>1, <2>3, <3>4 DEF Honest, SameStatus
    <3>5. CASE task[r].verdict = "cancelled" /\ row[r].status \in Active
      BY <1>2, <2>1, <2>3, <3>5 DEF Honest
    <3> QED BY <3>1, <3>3, <3>4, <3>5 DEF Unsettled, Active
  <2> QED BY <1>8, <2>2, <2>3 DEF FinishWrite
<1>9. CASE ShellExits(r) \/ PipesClose(r) \/ BackgroundEnds(r)
  <2>1. row' = row /\ proc'[r].spawned = proc[r].spawned
    BY <1>9 DEF ShellExits, PipesClose, BackgroundEnds
  <2>2. \/ Script(r) = "open" /\ Script(r)' \in {"idle", "open", "left"}
        \/ Script(r) # "idle" /\ Script(r)' = "idle"
    <3>1. CASE ShellExits(r) \/ PipesClose(r)
      <4>1. proc[r].state \in {"running", "lingering"}
        BY <3>1 DEF ShellExits, PipesClose
      <4>2. Script(r) = "open"
        BY <4>1 DEF Script, GroupAlive
      <4> QED BY <4>2 DEF Script
    <3>2. CASE BackgroundEnds(r)
      BY <3>2 DEF BackgroundEnds, Script, GroupAlive
    <3> QED BY <1>9, <3>1, <3>2
  <2>3. CASE Script(r)' = Script(r)
    BY <1>3, <2>1, <2>3 DEF Honest, SameScript
  <2>4. CASE Script(r)' # Script(r)
    BY <1>3, <2>1, <2>2, <2>4 DEF Honest
  <2> QED BY <2>3, <2>4
<1>10. CASE RecordAttempt(r)
  <2>1. row'[r].status = row[r].status /\ UNCHANGED proc
    BY <1>10 DEF RecordAttempt
  <2> QED BY <1>2, <2>1 DEF Honest, SameStatus
<1>11. CASE UNCHANGED <<row, proc>>
  BY <1>2, <1>3, <1>11 DEF Honest
<1> QED BY <1>4, <1>5, <1>6, <1>7, <1>8, <1>9, <1>10, <1>11 DEF RunAction, TaskStep, StartRegister,
     CheckWaits, CheckCancels, CheckPasses, SpawnFails, DelayEnds, DelayCancelled,
     SelectPanics, ClearBeforeFail, FinishRead, FinishJudge, FinishDrop, FinishClear

\* So does a cancel call: the record it updates is of a stopped run.
LEMMA CallHonest ==
  ASSUME Inv, Promised, NEW c \in Callers, CancelStep(c)
  PROVE  Honest(call[c].run)
<1> PICK r : r = call[c].run
  OBVIOUS
<1>1. r \in Runs /\ UNCHANGED proc
  BY CallFrame
<1>2. SameScript(r)
  BY <1>1, ScriptStays DEF SameScript
<1>3. CASE row' = row
  BY <1>2, <1>3 DEF Honest, SameStatus
<1>4. CASE CancelUpdate(c) /\ row' # row
  <2>1. Stopped(r) /\ row'[r].status = "cancelled"
    BY <1>1, <1>4, InvParts DEF CancelUpdate, Promised, Acked
  <2>2. CASE row[r].status = "cancelled"
    BY <1>2, <2>1, <2>2 DEF Honest, SameStatus
  <2>3. CASE row[r].status \in Active
    BY <1>2, <2>1, <2>3 DEF Honest, Stopped
  <2> QED BY <2>1, <2>2, <2>3 DEF Stopped, Unsettled, Active
<1> QED BY <1>3, <1>4 DEF CancelStep, CancelFind, CancelMark, CancelTake, CancelSend,
     CancelGivesUp, CancelConfirmed, CancelRefused, CancelDropped, CancelRecheck,
     CancelTimesOut, CancelPollEnds

LEMMA PromisedInit == Init => Promised
<1> SUFFICES ASSUME Init PROVE Promised
  OBVIOUS
<1>1. ASSUME NEW r \in Runs PROVE Flow(r)
  BY DEF Init, Flow, GroupAlive, Script
<1>2. ASSUME NEW c \in Callers PROVE Acked(c)
  BY DEF Init, Acked
<1> QED BY <1>1, <1>2 DEF Promised

LEMMA ContractNext ==
  ASSUME Inv, Promised, ~KillMayFail, ~WaitMayFail, QuietSweeps, [Next]_vars
  PROVE  [Contract!Next]_(Contract!contractVars)
<1>1. ASSUME NEW r \in Runs, Honest(r),
             \A q \in Runs : q # r => proc'[q] = proc[q] /\ row'[q] = row[q]
      PROVE  [Contract!Next]_(Contract!contractVars)
  <2>1. \A q \in Runs : q # r => SameStatus(q) /\ SameScript(q)
    BY <1>1, ScriptStays DEF SameStatus, SameScript
  <2> QED BY <1>1, <2>1, HonestMaps
<1>2. CASE \E r \in Runs : RunAction(r)
  <2>1. PICK r \in Runs : RunAction(r)
    BY <1>2
  <2>2. Elsewhere(r)
    BY <2>1, SilentFrame, AnsweringFrame DEF RunAction, TaskStep
  <2> QED BY <1>1, <2>1, <2>2, RunHonest DEF Elsewhere
<1>3. CASE \E c \in Callers : CancelStep(c)
  BY <1>1, <1>3, CallFrame, CallHonest
<1>4. CASE UNCHANGED <<row, proc>>
  BY <1>4 DEF Contract!contractVars, Script, GroupAlive
<1>5. CASE \E s \in Sweepers : SweepStep(s)
  BY <1>4, <1>5, QuietStep
<1>6. CASE Crash \/ UNCHANGED vars
  BY <1>4, <1>6 DEF Crash, vars
<1> QED BY <1>2, <1>3, <1>5, <1>6, Kinds

\* The command runner implements the contract of a run: its record moves from queued to
\* running to a final status it keeps, the script is started only while the record is
\* running and at most MaxRetries + 1 times, and the record becomes final only when the
\* script is over: failed with nothing left of its processes, success and cancelled
\* perhaps with some that a shell which exited with 0 left in the background.  It takes
\* kills and waits that do not fail, and sweeps that settle no run; database calls may fail
\* and the backend may die at any moment.
THEOREM ImplementsContract ==
  ASSUME ~KillMayFail, ~WaitMayFail
  PROVE  Spec /\ []QuietSweeps => KeepsContract
<1>1. Init => Promised
  BY PromisedInit
<1>2. Init => Contract!Init
  <2> SUFFICES ASSUME Init PROVE Contract!Init
    OBVIOUS
  <2>1. ASSUME NEW r \in Runs
        PROVE  row[r].status = "none" /\ Script(r) = "idle" /\ proc[r].spawned = 0
    <3>1. row[r].status = "none" /\ proc[r].state = "none" /\ proc[r].spawned = 0
      BY DEF Init
    <3> QED BY <3>1 DEF Script, GroupAlive
  <2> QED BY <2>1 DEF Contract!Init
<1>3. Inv /\ Promised /\ QuietSweeps /\ [Next]_vars => Promised'
  BY PromisedNext
<1>4. Inv /\ Promised /\ QuietSweeps /\ [Next]_vars => [Contract!Next]_(Contract!contractVars)
  BY ContractNext
<1> QED BY <1>1, <1>2, <1>3, <1>4, Invariance, PTL DEF Spec, KeepsContract, Contract!Spec

\* A final status is final: no later step of the task, of a cancel call or of a new backend
\* replaces it.  Under the same conditions, and through the contract, which has no action
\* on a record that is settled.
THEOREM FinalStatusesStay ==
  ASSUME ~KillMayFail, ~WaitMayFail
  PROVE  Spec /\ []QuietSweeps =>
           [][\A r \in Runs : row[r].status \in Terminal => row'[r].status = row[r].status]_vars
<1> DEFINE Stays ==
      \A r \in Runs : row[r].status \in Terminal => row'[r].status = row[r].status
<1>1. ASSUME [Contract!Next]_(Contract!contractVars) PROVE Stays
  <2> SUFFICES ASSUME NEW r \in Runs, row[r].status \in Terminal
               PROVE  row'[r].status = row[r].status
    OBVIOUS
  <2> DEFINE status == [q \in Runs |-> row[q].status]
  <2>1. status[r] = row[r].status /\ status'[r] = row'[r].status
    OBVIOUS
  <2>2. status' = status \/ (\E q \in Runs : /\ status[q] \notin Terminal
                                             /\ \E s : status' = [status EXCEPT ![q] = s])
    <3>1. CASE UNCHANGED Contract!contractVars
      BY <3>1 DEF Contract!contractVars
    <3>2. ASSUME NEW q \in Runs, Contract!Launch(q) \/ Contract!Stop(q) \/ Contract!Detach(q)
          PROVE  status' = status
      BY <3>2 DEF Contract!Launch, Contract!Stop, Contract!Detach
    <3>3. ASSUME NEW q \in Runs,
                 \/ Contract!Submit(q) \/ Contract!Begin(q) \/ Contract!Cancel(q)
                 \/ \E verdict \in {"success", "failed"} : Contract!Conclude(q, verdict)
          PROVE  status[q] \notin Terminal /\ \E s : status' = [status EXCEPT ![q] = s]
      BY <3>3 DEF Contract!Submit, Contract!Begin, Contract!Cancel, Contract!Conclude, Terminal
    <3> QED BY <1>1, <3>1, <3>2, <3>3 DEF Contract!Next
  <2> HIDE DEF status
  <2>3. CASE status' = status
    BY <2>1, <2>3
  <2>4. ASSUME NEW q \in Runs, status[q] \notin Terminal,
               NEW s, status' = [status EXCEPT ![q] = s]
        PROVE  status'[r] = status[r]
    BY <2>1, <2>4
  <2> QED BY <2>1, <2>2, <2>3, <2>4
<1>2. Init => Promised
  BY PromisedInit
<1>3. Inv /\ Promised /\ QuietSweeps /\ [Next]_vars => Promised'
  BY PromisedNext
<1>4. Inv /\ Promised /\ QuietSweeps /\ [Next]_vars => [Stays]_vars
  BY <1>1, ContractNext
<1> QED BY <1>2, <1>3, <1>4, Invariance, PTL DEF Spec
=============================================================================
