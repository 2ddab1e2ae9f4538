------------------------- MODULE CommandRunner_proofs -------------------------
(***************************************************************************)
(* What holds of the command runner for any number of runs, cancel calls,  *)
(* sweeps, retries and crashes, and whether or not database calls, kills   *)
(* and waits fail.                                                         *)
(***************************************************************************)
EXTENDS CommandRunner, TLAPS

-----------------------------------------------------------------------------
(* The inductive invariant *)

\* The number of the attempt is ahead of the number of starts until the script starts.
AttemptCountedFor(r) ==
  /\ task[r].attempt >= 1
  /\ task[r].attempt <= IF task[r].retry THEN MaxRetries + 1 ELSE 1
  /\ proc[r].spawned <= task[r].attempt
  /\ task[r].pc \in {"none", "inserted", "admit", "start"} =>
       task[r].attempt = 1 /\ proc[r].spawned = 0
  /\ task[r].pc \in {"top", "record", "armed", "spawn"} => proc[r].spawned < task[r].attempt
  /\ task[r].pc = "delay" => task[r].retry /\ task[r].attempt <= MaxRetries

AttemptCounted == \A r \in Runs : AttemptCountedFor(r)

Failed(r) == proc[r].state = "gone" /\ proc[r].exit \in {"nonzero", "signal"}

Succeeded(r) == proc[r].state \notin {"running", "lingering"} /\ proc[r].exit = "zero"

\* What the task knows of the process group it waited for, from the end of the wait to the
\* next start or to the final status.
ResultTrueFor(r) ==
  /\ task[r].pc \in {"top", "record", "armed", "spawn", "delay"} /\ proc[r].spawned > 0 =>
       Failed(r)
  /\ task[r].pc = "after" /\ task[r].result \in {"nonzero", "signal"} => Failed(r)
  /\ task[r].pc \in {"after", "finish", "judge"} /\ task[r].result = "zero" => Succeeded(r)
  /\ task[r].pc = "fail" => task[r].result = "error"
  /\ task[r].pc = "write" /\ task[r].verdict = "success" => Succeeded(r)

ResultTrue == \A r \in Runs : ResultTrueFor(r)

\* Only the task writes success, and only as its last update of the row.
SuccessLastFor(r) ==
  row[r].status = "success" => Succeeded(r) /\ task[r].pc \in {"drop", "clear", "ended"}

SuccessLast == \A r \in Runs : SuccessLastFor(r)

SweepsFail == \A s \in Sweepers : sweep[s].verdict # "success"

\* A request on a channel is of a call that cancels that run, and an answered call's run
\* is on its way out.
RequestsMatch ==
  \A r \in Runs : chan[r].state = "sent" =>
    chan[r].by \in Callers /\ call[chan[r].by].run = r

AcksFinish ==
  \A c \in Callers : call[c].ack = "ok" => task[call[c].run].pc \in Finishing

Inv ==
  /\ TypeOK /\ RequestsMatch /\ AcksFinish
  /\ AttemptCounted /\ ResultTrue /\ SuccessLast /\ SweepsFail

-----------------------------------------------------------------------------
\* Membership in the sets of names, so that no other step has to expand them.
LEMMA Names ==
  /\ "none" \in TaskPc /\ "inserted" \in TaskPc /\ "start" \in TaskPc
  /\ "record" \in TaskPc /\ "spawn" \in TaskPc /\ "wait" \in TaskPc
  /\ "delay" \in TaskPc /\ "fail" \in TaskPc /\ "admit" \in TaskPc /\ "top" \in TaskPc
  /\ "armed" \in TaskPc /\ "after" \in TaskPc /\ "finish" \in TaskPc
  /\ "judge" \in TaskPc /\ "write" \in TaskPc /\ "drop" \in TaskPc /\ "clear" \in TaskPc
  /\ "ended" \in TaskPc
  /\ "none" \in Outcome /\ "zero" \in Outcome /\ "nonzero" \in Outcome
  /\ "signal" \in Outcome /\ "timeout" \in Outcome /\ "cancelled" \in Outcome
  /\ "error" \in Outcome
  /\ "idle" \in CallPc /\ "mark" \in CallPc /\ "take" \in CallPc /\ "send" \in CallPc
  /\ "await" \in CallPc /\ "update" \in CallPc /\ "recheck" \in CallPc
  /\ "giveup" \in CallPc /\ "poll" \in CallPc /\ "done" \in CallPc
  BY DEF TaskPc, Checkpoint, Finishing, Outcome, CallPc

\* Answering a request changes nothing but the channel and the acknowledgement.
LEMMA AnswerKeeps ==
  ASSUME ChanType, CallType, RequestsMatch, NEW r \in Runs,
         NEW a \in {"ok", "err", "dropped"},
         Answer(r, a) \/ UNCHANGED <<chan, call>>
  PROVE  /\ ChanType' /\ CallType' /\ RequestsMatch'
         /\ \A c \in Callers :
              /\ call'[c].run = call[c].run
              /\ call'[c].ack = "ok" => call[c].ack = "ok" \/ (a = "ok" /\ call[c].run = r)
<1>1. CASE UNCHANGED <<chan, call>>
  BY <1>1 DEF ChanType, CallType, RequestsMatch
<1>2. CASE Answer(r, a) /\ chan[r].state = "sent"
  <2>1. chan[r].by \in Callers /\ call[chan[r].by].run = r
    BY <1>2 DEF RequestsMatch
  <2>2. /\ chan' = [chan EXCEPT ![r].state = "taken"]
        /\ call' = [call EXCEPT ![chan[r].by].ack = a]
    BY <1>2 DEF Answer, ChanType
  <2>3. ChanType'
    BY <2>2 DEF ChanType
  <2>4. CallType'
    BY <2>1, <2>2 DEF CallType
  <2>5. \A c \in Callers : /\ call'[c].run = call[c].run
                           /\ c # chan[r].by => call'[c] = call[c]
    BY <2>1, <2>2 DEF CallType
  <2>6. RequestsMatch'
    BY <2>2, <2>5 DEF RequestsMatch, ChanType
  <2>7. call'[chan[r].by].ack = a
    BY <2>1, <2>2 DEF CallType
  <2> QED
    BY <2>1, <2>3, <2>4, <2>5, <2>6, <2>7
<1>3. CASE Answer(r, a) /\ chan[r].state # "sent"
  <2>1. chan' = chan /\ call' = call
    BY <1>3 DEF Answer, ChanType
  <2> QED
    BY <2>1 DEF ChanType, CallType, RequestsMatch
<1> QED
  BY <1>1, <1>2, <1>3

LEMMA RowTypeNext == ASSUME Inv, [Next]_vars PROVE RowType'
<1> USE DEF Inv, TypeOK, RowType
<1>1. ASSUME NEW r \in Runs, StartInsert(r) PROVE RowType'
  BY <1>1 DEF StartInsert, Status, Active, Terminal
<1>2. ASSUME NEW r \in Runs, MarkRunning(r) PROVE RowType'
  BY <1>2 DEF MarkRunning, TaskEnds, Answer, Status, Active, Terminal
<1>3. ASSUME NEW r \in Runs, RecordAttempt(r) PROVE RowType'
  BY <1>3 DEF RecordAttempt, Status, Active, Terminal, TaskType
<1>4. ASSUME NEW r \in Runs, FinishWrite(r) PROVE RowType'
  BY <1>4 DEF FinishWrite, TaskType, Status
<1>5. ASSUME NEW c \in Callers, CancelUpdate(c) PROVE RowType'
  BY <1>5 DEF CancelUpdate, Status, Active, Terminal, CallType
<1>6. ASSUME NEW s \in Sweepers, SweepWrite(s) PROVE RowType'
  BY <1>6 DEF SweepWrite, Status, Active, Terminal, SweepType
<1>7. CASE UNCHANGED row
  BY <1>7
<1> QED
  BY ZenonT(60), <1>1, <1>2, <1>3, <1>4, <1>5, <1>6, <1>7 DEF vars, Next, TaskStep, CancelStep,
     SweepStep, StartRegister, WaitBreaks, ShellExits, PipesClose, BackgroundEnds, CheckWaits,
     CheckCancels, CheckPasses, SpawnChild, SpawnFails, WaitSucceeds, WaitFails,
     WaitTimesOut, WaitCancelled, DelayEnds, DelayCancelled, SelectPanics, ClearBeforeFail, FinishRead,
     FinishJudge, FinishDrop, FinishClear, CancelFind, CancelMark, CancelTake, CancelSend,
     CancelGivesUp, CancelConfirmed, CancelRefused, CancelDropped, CancelRecheck,
     CancelTimesOut, CancelPollEnds, SweepList, SweepNext, SweepEnds, SweepRead, SweepJudge,
     SweepDrop, SweepClear, Crash

LEMMA ChanTypeNext == ASSUME Inv, [Next]_vars PROVE ChanType'
<1> USE DEF Inv, TypeOK, ChanType
<1>1. ASSUME NEW r \in Runs, StartRegister(r) PROVE ChanType'
  BY <1>1 DEF StartRegister
<1>2. ASSUME NEW r \in Runs, CheckCancels(r) PROVE ChanType'
  <2>1. Answer(r, "ok") \/ UNCHANGED <<chan, call>>
    BY <1>2 DEF CheckCancels
  <2> QED
    BY <2>1, AnswerKeeps
<1>3. ASSUME NEW r \in Runs, MarkRunning(r) PROVE ChanType'
  <2>1. Answer(r, "dropped") \/ UNCHANGED <<chan, call>>
    BY <1>3 DEF MarkRunning, TaskEnds
  <2> QED
    BY <2>1, AnswerKeeps
<1>4. ASSUME NEW r \in Runs, WaitCancelled(r) PROVE ChanType'
  <2>1. Answer(r, "ok") \/ Answer(r, "err") \/ UNCHANGED <<chan, call>>
    BY <1>4 DEF WaitCancelled
  <2> QED
    BY <2>1, AnswerKeeps
<1>5. ASSUME NEW r \in Runs, DelayCancelled(r) PROVE ChanType'
  <2>1. Answer(r, "ok") \/ UNCHANGED <<chan, call>>
    BY <1>5 DEF DelayCancelled
  <2> QED
    BY <2>1, AnswerKeeps
<1>6. ASSUME NEW r \in Runs, FinishRead(r) PROVE ChanType'
  <2>1. Answer(r, "dropped") \/ UNCHANGED <<chan, call>>
    BY <1>6 DEF FinishRead, TaskEnds
  <2> QED
    BY <2>1, AnswerKeeps
<1>7. ASSUME NEW r \in Runs, FinishWrite(r) PROVE ChanType'
  <2>1. Answer(r, "dropped") \/ UNCHANGED <<chan, call>>
    BY <1>7 DEF FinishWrite, TaskEnds
  <2> QED
    BY <2>1, AnswerKeeps
<1>8. ASSUME NEW r \in Runs, FinishDrop(r) PROVE ChanType'
  BY <1>8 DEF FinishDrop, DropCanceller
<1>9. ASSUME NEW r \in Runs, FinishClear(r) PROVE ChanType'
  <2>1. Answer(r, "dropped") \/ UNCHANGED <<chan, call>>
    BY <1>9 DEF FinishClear, TaskEnds
  <2> QED
    BY <2>1, AnswerKeeps
<1>10. ASSUME NEW c \in Callers, CancelSend(c) PROVE ChanType'
  BY <1>10 DEF CancelSend, CallType
<1>11. ASSUME NEW s \in Sweepers, SweepDrop(s) PROVE ChanType'
  BY ZenonT(60), <1>11 DEF SweepDrop, DropCanceller
<1>12. CASE Crash
  BY <1>12 DEF Crash
<1>13. ASSUME NEW r \in Runs, CheckPasses(r) PROVE ChanType'
  BY <1>13 DEF CheckPasses
<1>14. ASSUME NEW r \in Runs, SelectPanics(r) PROVE ChanType'
  <2>1. Answer(r, "dropped") \/ UNCHANGED <<chan, call>>
    BY <1>14 DEF SelectPanics, TaskEnds
  <2> QED
    BY <2>1, AnswerKeeps
<1>15. CASE UNCHANGED chan
  BY <1>15
<1> QED
  BY ZenonT(60), <1>1, <1>2, <1>3, <1>4, <1>5, <1>6, <1>7, <1>8, <1>9, <1>10, <1>11, <1>12, <1>13,
     <1>14, <1>15
     DEF
     vars, Next, TaskStep, CancelStep, SweepStep, StartInsert, WaitBreaks, ShellExits,
     PipesClose, BackgroundEnds, CheckWaits, RecordAttempt, SpawnChild, SpawnFails,
     WaitSucceeds, WaitFails, WaitTimesOut, DelayEnds, ClearBeforeFail, FinishJudge,
     CancelFind, CancelMark, CancelTake, CancelGivesUp, CancelConfirmed, CancelRefused,
     CancelDropped, CancelRecheck, CancelTimesOut, CancelUpdate, CancelPollEnds, SweepList,
     SweepNext, SweepEnds, SweepRead, SweepJudge, SweepWrite, SweepClear

LEMMA TaskTypeNext == ASSUME Inv, [Next]_vars PROVE TaskType'
<1> USE DEF Inv, TypeOK, TaskType
<1>1. ASSUME NEW r \in Runs, StartInsert(r) PROVE TaskType'
  <2>1. PICK retry \in BOOLEAN, timed \in BOOLEAN :
          task' = [task EXCEPT ![r].pc = "inserted", ![r].retry = retry, ![r].timed = timed]
    BY <1>1 DEF StartInsert
  <2>2. [task[r] EXCEPT !.pc = "inserted", !.retry = retry, !.timed = timed]
          \in [pc : TaskPc, retry : BOOLEAN, timed : BOOLEAN, parked : BOOLEAN,
             attempt : Nat, result : Outcome, verdict : {"none"} \cup Terminal]
    BY Names
  <2>3. task' =
          [task EXCEPT ![r] = [task[r] EXCEPT !.pc = "inserted", !.retry = retry,
          !.timed = timed]]
    BY <2>1
  <2> QED
    BY <2>2, <2>3
<1>2. ASSUME NEW r \in Runs, StartRegister(r) PROVE TaskType'
  BY <1>2, Names DEF StartRegister
<1>3. ASSUME NEW r \in Runs, CheckWaits(r) PROVE TaskType'
  BY <1>3, Names DEF CheckWaits
<1>4. ASSUME NEW r \in Runs, CheckCancels(r) PROVE TaskType'
  <2>1. task' = [task EXCEPT ![r].pc = "finish", ![r].parked = FALSE,
                            ![r].result = "cancelled"]
    BY <1>4 DEF CheckCancels
  <2>2. [task[r] EXCEPT !.pc = "finish", !.parked = FALSE, !.result = "cancelled"]
          \in [pc : TaskPc, retry : BOOLEAN, timed : BOOLEAN, parked : BOOLEAN,
             attempt : Nat, result : Outcome, verdict : {"none"} \cup Terminal]
    BY Names
  <2>3. task' =
          [task EXCEPT ![r] = [task[r] EXCEPT !.pc = "finish", !.parked = FALSE,
          !.result = "cancelled"]]
    BY <2>1
  <2> QED
    BY <2>2, <2>3
<1>5. ASSUME NEW r \in Runs, CheckPasses(r) PROVE TaskType'
  BY <1>5 DEF CheckPasses, PassedCheck, TaskPc, Checkpoint, Finishing
<1>6. ASSUME NEW r \in Runs, MarkRunning(r) PROVE TaskType'
  BY <1>6, Names DEF MarkRunning, TaskEnds
<1>7. ASSUME NEW r \in Runs, RecordAttempt(r) PROVE TaskType'
  BY <1>7, Names DEF RecordAttempt
<1>8. ASSUME NEW r \in Runs, SpawnChild(r) PROVE TaskType'
  BY <1>8, Names DEF SpawnChild
<1>9. ASSUME NEW r \in Runs, SpawnFails(r) PROVE TaskType'
  BY ZenonT(60), <1>9, Names DEF SpawnFails
<1>10. ASSUME NEW r \in Runs, WaitSucceeds(r) PROVE TaskType'
  BY ZenonT(60), <1>10, Names DEF WaitSucceeds
<1>11. ASSUME NEW r \in Runs, WaitFails(r) PROVE TaskType'
  <2>1. PICK p \in {"after"}, o \in Outcome :
          task' = [task EXCEPT ![r].pc = p, ![r].result = o]
    BY <1>11, Names DEF WaitFails
  <2>2. p \in TaskPc
    BY Names
  <2> QED
    BY ZenonT(60), <2>1, <2>2
<1>12. ASSUME NEW r \in Runs, WaitTimesOut(r) PROVE TaskType'
  <2>1. PICK p \in {"after"}, o \in Outcome :
          task' = [task EXCEPT ![r].pc = p, ![r].result = o]
    BY <1>12, Names DEF WaitTimesOut
  <2>2. p \in TaskPc
    BY Names
  <2> QED
    BY ZenonT(60), <2>1, <2>2
<1>13. ASSUME NEW r \in Runs, WaitCancelled(r) PROVE TaskType'
  <2>1. PICK p \in {"after", "finish"}, o \in Outcome :
          task' = [task EXCEPT ![r].pc = p, ![r].result = o]
    BY <1>13, Names DEF WaitCancelled
  <2>2. p \in TaskPc
    BY Names
  <2> QED
    BY ZenonT(60), <2>1, <2>2
<1>14. ASSUME NEW r \in Runs, DelayEnds(r) PROVE TaskType'
  BY <1>14, Names DEF DelayEnds
<1>15. ASSUME NEW r \in Runs, DelayCancelled(r) PROVE TaskType'
  BY ZenonT(60), <1>15, Names DEF DelayCancelled
<1>16. ASSUME NEW r \in Runs, ClearBeforeFail(r) PROVE TaskType'
  BY <1>16, Names DEF ClearBeforeFail
<1>17. ASSUME NEW r \in Runs, FinishRead(r) PROVE TaskType'
  BY <1>17, Names DEF FinishRead, TaskEnds, FoundStatus, Terminal
<1>17a. ASSUME NEW r \in Runs, FinishJudge(r) PROVE TaskType'
  <2>1. FinishVerdict(r, task[r].verdict, AskedStatus(task[r].result)) \in Terminal
    BY DEF FinishVerdict, AskedStatus, Terminal
  <2>2. PICK v \in Terminal : task' = [task EXCEPT ![r].pc = "write", ![r].verdict = v]
    BY <1>17a, <2>1 DEF FinishJudge
  <2> QED
    BY ZenonT(60), <2>2, Names
<1>18. ASSUME NEW r \in Runs, FinishWrite(r) PROVE TaskType'
  BY <1>18, Names DEF FinishWrite, TaskEnds
<1>19. ASSUME NEW r \in Runs, FinishDrop(r) PROVE TaskType'
  BY <1>19, Names DEF FinishDrop, DropCanceller
<1>20. ASSUME NEW r \in Runs, FinishClear(r) PROVE TaskType'
  BY ZenonT(60), <1>20, Names DEF FinishClear, TaskEnds
<1>21. ASSUME NEW r \in Runs, WaitBreaks(r) PROVE TaskType'
  BY ZenonT(60), <1>21, Names DEF WaitBreaks
<1>21a. ASSUME NEW r \in Runs, SelectPanics(r) PROVE TaskType'
  BY ZenonT(60), <1>21a, Names DEF SelectPanics, TaskEnds
<1>22. CASE Crash
  BY <1>22, Names DEF Crash
<1>23. CASE UNCHANGED task
  BY <1>23
<1> QED
  BY ZenonT(60), <1>1, <1>2, <1>3, <1>4, <1>5, <1>6, <1>7, <1>8, <1>9, <1>10, <1>11, <1>12, <1>13,
     <1>14, <1>15, <1>16, <1>17, <1>17a, <1>18, <1>19, <1>20, <1>21, <1>21a, <1>22, <1>23 DEF vars, Next,
     TaskStep, CancelStep, SweepStep, ShellExits, PipesClose, BackgroundEnds, CancelFind, CancelMark,
     CancelTake, CancelSend, CancelGivesUp, CancelConfirmed, CancelRefused, CancelDropped,
     CancelRecheck, CancelTimesOut, CancelUpdate, CancelPollEnds, SweepList, SweepNext,
     SweepEnds, SweepRead, SweepJudge, SweepWrite, SweepDrop, SweepClear

LEMMA ProcTypeNext == ASSUME Inv, [Next]_vars PROVE ProcType'
<1> USE DEF Inv, TypeOK, ProcType
<1>1. ASSUME NEW r \in Runs, SpawnChild(r) PROVE ProcType'
  BY <1>1 DEF SpawnChild
<1>2. ASSUME NEW r \in Runs, WaitFails(r) PROVE ProcType'
  BY <1>2 DEF WaitFails, TerminateProcessTree
<1>3. ASSUME NEW r \in Runs, WaitTimesOut(r) PROVE ProcType'
  BY <1>3 DEF WaitTimesOut, TerminateProcessTree
<1>4. ASSUME NEW r \in Runs, WaitCancelled(r) PROVE ProcType'
  BY <1>4 DEF WaitCancelled, TerminateProcessTree, Answer
<1>5. ASSUME NEW r \in Runs, ShellExits(r) PROVE ProcType'
  BY <1>5 DEF ShellExits
<1>6. ASSUME NEW r \in Runs, PipesClose(r) PROVE ProcType'
  BY <1>6 DEF PipesClose
<1>6a. ASSUME NEW r \in Runs, BackgroundEnds(r) PROVE ProcType'
  BY <1>6a DEF BackgroundEnds
<1>7. CASE UNCHANGED proc
  BY <1>7
<1> QED
  BY ZenonT(60), <1>1, <1>2, <1>3, <1>4, <1>5, <1>6, <1>6a, <1>7 DEF vars, Next, TaskStep, CancelStep,
     SweepStep, StartInsert, StartRegister, WaitBreaks, CheckWaits, CheckCancels,
     CheckPasses, MarkRunning, RecordAttempt, SpawnFails, WaitSucceeds, DelayEnds,
     DelayCancelled, SelectPanics, ClearBeforeFail, FinishRead, FinishJudge, FinishWrite, FinishDrop,
     FinishClear, CancelFind, CancelMark, CancelTake, CancelSend, CancelGivesUp,
     CancelConfirmed, CancelRefused, CancelDropped, CancelRecheck, CancelTimesOut,
     CancelUpdate, CancelPollEnds, SweepList, SweepNext, SweepEnds, SweepRead, SweepJudge,
     SweepWrite, SweepDrop, SweepClear, Crash

LEMMA CallTypeNext == ASSUME Inv, [Next]_vars PROVE CallType'
<1> USE DEF Inv, TypeOK, CallType
<1>1. ASSUME NEW r \in Runs, CheckCancels(r) PROVE CallType'
  <2>1. Answer(r, "ok") \/ UNCHANGED <<chan, call>>
    BY <1>1 DEF CheckCancels
  <2> QED
    BY <2>1, AnswerKeeps
<1>2. ASSUME NEW r \in Runs, MarkRunning(r) PROVE CallType'
  <2>1. Answer(r, "dropped") \/ UNCHANGED <<chan, call>>
    BY <1>2 DEF MarkRunning, TaskEnds
  <2> QED
    BY <2>1, AnswerKeeps
<1>3. ASSUME NEW r \in Runs, WaitCancelled(r) PROVE CallType'
  <2>1. Answer(r, "ok") \/ Answer(r, "err") \/ UNCHANGED <<chan, call>>
    BY <1>3 DEF WaitCancelled
  <2> QED
    BY <2>1, AnswerKeeps
<1>4. ASSUME NEW r \in Runs, DelayCancelled(r) PROVE CallType'
  <2>1. Answer(r, "ok") \/ UNCHANGED <<chan, call>>
    BY <1>4 DEF DelayCancelled
  <2> QED
    BY <2>1, AnswerKeeps
<1>5. ASSUME NEW r \in Runs, FinishRead(r) PROVE CallType'
  <2>1. Answer(r, "dropped") \/ UNCHANGED <<chan, call>>
    BY <1>5 DEF FinishRead, TaskEnds
  <2> QED
    BY <2>1, AnswerKeeps
<1>6. ASSUME NEW r \in Runs, FinishWrite(r) PROVE CallType'
  <2>1. Answer(r, "dropped") \/ UNCHANGED <<chan, call>>
    BY <1>6 DEF FinishWrite, TaskEnds
  <2> QED
    BY <2>1, AnswerKeeps
<1>7. ASSUME NEW r \in Runs, FinishClear(r) PROVE CallType'
  <2>1. Answer(r, "dropped") \/ UNCHANGED <<chan, call>>
    BY <1>7 DEF FinishClear, TaskEnds
  <2> QED
    BY <2>1, AnswerKeeps
<1>7a. ASSUME NEW r \in Runs, SelectPanics(r) PROVE CallType'
  <2>1. Answer(r, "dropped") \/ UNCHANGED <<chan, call>>
    BY <1>7a DEF SelectPanics, TaskEnds
  <2> QED
    BY <2>1, AnswerKeeps
<1>8. ASSUME NEW c \in Callers, CancelFind(c) PROVE CallType'
  BY <1>8, Names DEF CancelFind
<1>9. ASSUME NEW c \in Callers, CancelMark(c) PROVE CallType'
  <2>1. PICK p \in {"poll", "take"}, b \in BOOLEAN :
          call' = [call EXCEPT ![c].pc = p, ![c].queued = b]
    BY <1>9 DEF CancelMark
  <2>2. p \in CallPc
    BY Names
  <2> QED
    BY ZenonT(60), <2>1, <2>2
<1>10. ASSUME NEW c \in Callers, CancelTake(c) PROVE CallType'
  <2>1. CASE call[c].run \in cancellers
    <3>1. call' = [call EXCEPT ![c].pc = "send", ![c].took = TRUE]
      BY <1>10, <2>1 DEF CancelTake
    <3> QED
      BY ZenonT(60), <3>1, Names
  <2>2. CASE call[c].run \notin cancellers
    <3>1. (call[c].run \in cancellers) = FALSE
      BY <2>2
    <3>2. call' = [call EXCEPT ![c].pc = "giveup", ![c].took = FALSE]
      BY <1>10, <3>1 DEF CancelTake
    <3> QED
      BY ZenonT(60), <3>2, Names
  <2> QED
    BY <2>1, <2>2
<1>11. ASSUME NEW c \in Callers, CancelSend(c) PROVE CallType'
  BY <1>11, Names DEF CancelSend
<1>12. ASSUME NEW c \in Callers, CancelGivesUp(c) PROVE CallType'
  BY <1>12, Names DEF CancelGivesUp
<1>13. ASSUME NEW c \in Callers, CancelConfirmed(c) PROVE CallType'
  BY <1>13, Names DEF CancelConfirmed
<1>14. ASSUME NEW c \in Callers, CancelRefused(c) PROVE CallType'
  BY <1>14, Names DEF CancelRefused
<1>15. ASSUME NEW c \in Callers, CancelDropped(c) PROVE CallType'
  BY <1>15, Names DEF CancelDropped
<1>16. ASSUME NEW c \in Callers, CancelRecheck(c) PROVE CallType'
  BY <1>16, Names DEF CancelRecheck
<1>17. ASSUME NEW c \in Callers, CancelTimesOut(c) PROVE CallType'
  BY <1>17, Names DEF CancelTimesOut
<1>18. ASSUME NEW c \in Callers, CancelUpdate(c) PROVE CallType'
  BY <1>18, Names DEF CancelUpdate
<1>19. ASSUME NEW c \in Callers, CancelPollEnds(c) PROVE CallType'
  BY <1>19, Names DEF CancelPollEnds
<1>20. CASE Crash
  BY <1>20, Names DEF Crash
<1>21. CASE UNCHANGED call
  BY <1>21
<1> QED
  BY ZenonT(60), <1>1, <1>2, <1>3, <1>4, <1>5, <1>6, <1>7, <1>7a, <1>8, <1>9, <1>10, <1>11, <1>12, <1>13,
     <1>14, <1>15, <1>16, <1>17, <1>18, <1>19, <1>20, <1>21 DEF vars, Next, TaskStep,
     CancelStep, SweepStep, StartInsert, StartRegister, WaitBreaks, ShellExits,
     PipesClose, BackgroundEnds, CheckWaits, CheckPasses, RecordAttempt, SpawnChild, SpawnFails,
     WaitSucceeds, WaitFails, WaitTimesOut, DelayEnds, ClearBeforeFail, FinishJudge,
     FinishDrop, SweepList, SweepNext, SweepEnds, SweepRead, SweepJudge, SweepWrite,
     SweepDrop, SweepClear

LEMMA SweepTypeNext == ASSUME Inv, [Next]_vars PROVE SweepType'
<1> USE DEF Inv, TypeOK, SweepType
<1>1. ASSUME NEW s \in Sweepers, SweepList(s) PROVE SweepType'
  <2>1. PICK T \in SUBSET Runs : sweep' = [sweep EXCEPT ![s].pc = "next", ![s].todo = T]
    BY <1>1 DEF SweepList
  <2> QED
    BY <2>1 DEF SweepPc
<1>2. ASSUME NEW s \in Sweepers, NEW r \in Runs, SweepNext(s, r) PROVE SweepType'
  BY <1>2 DEF SweepNext, SweepPc, Terminal
<1>3. ASSUME NEW s \in Sweepers, SweepEnds(s) PROVE SweepType'
  BY ZenonT(60), <1>3 DEF SweepEnds, SweepPc, Terminal
<1>4. ASSUME NEW s \in Sweepers, SweepRead(s) PROVE SweepType'
  BY <1>4 DEF SweepRead, FoundStatus, SweepPc, Terminal
<1>4a. ASSUME NEW s \in Sweepers, SweepJudge(s) PROVE SweepType'
  <2>1. FinishVerdict(sweep[s].run, sweep[s].verdict, "failed") \in Terminal
    BY DEF FinishVerdict, Terminal
  <2>2. PICK v \in Terminal : sweep' = [sweep EXCEPT ![s].pc = "write", ![s].verdict = v]
    BY <1>4a, <2>1 DEF SweepJudge
  <2> QED
    BY <2>2 DEF SweepPc
<1>5. ASSUME NEW s \in Sweepers, SweepWrite(s) PROVE SweepType'
  BY <1>5 DEF SweepWrite, SweepPc, Terminal
<1>6. ASSUME NEW s \in Sweepers, SweepDrop(s) PROVE SweepType'
  BY <1>6 DEF SweepDrop, DropCanceller, SweepPc, Terminal
<1>7. ASSUME NEW s \in Sweepers, SweepClear(s) PROVE SweepType'
  BY <1>7 DEF SweepClear, SweepPc, Terminal
<1>8. CASE Crash
  BY <1>8 DEF Crash, SweepPc, Terminal
<1>9. CASE UNCHANGED sweep
  BY <1>9
<1> QED
  BY ZenonT(60), <1>1, <1>2, <1>3, <1>4, <1>4a, <1>5, <1>6, <1>7, <1>8, <1>9
     DEF vars, Next, TaskStep,
     CancelStep, SweepStep, StartInsert, StartRegister, WaitBreaks, ShellExits,
     PipesClose, BackgroundEnds, CheckWaits, CheckCancels, CheckPasses, MarkRunning, RecordAttempt,
     SpawnChild, SpawnFails, WaitSucceeds, WaitFails, WaitTimesOut, WaitCancelled,
     DelayEnds, DelayCancelled, SelectPanics, ClearBeforeFail, FinishRead, FinishJudge, FinishWrite,
     FinishDrop, FinishClear, CancelFind, CancelMark, CancelTake, CancelSend, CancelGivesUp,
     CancelConfirmed, CancelRefused, CancelDropped, CancelRecheck, CancelTimesOut,
     CancelUpdate, CancelPollEnds

LEMMA TypeNext == ASSUME Inv, [Next]_vars PROVE TypeOK'
<1> USE DEF Inv, TypeOK
<1>1. cancellers' \subseteq Runs
  <2>1. ASSUME NEW r \in Runs, StartRegister(r) PROVE cancellers' \subseteq Runs
    BY <2>1 DEF StartRegister
  <2>2. ASSUME NEW r \in Runs, FinishDrop(r) PROVE cancellers' \subseteq Runs
    BY <2>2 DEF FinishDrop, DropCanceller
  <2>3. ASSUME NEW c \in Callers, CancelTake(c) PROVE cancellers' \subseteq Runs
    BY <2>3 DEF CancelTake, CallType
  <2>4. ASSUME NEW s \in Sweepers, SweepDrop(s) PROVE cancellers' \subseteq Runs
    BY <2>4 DEF SweepDrop, DropCanceller
  <2>5. CASE Crash
    BY <2>5 DEF Crash
  <2>6. CASE UNCHANGED cancellers
    BY <2>6
  <2> QED
    BY ZenonT(60), <2>1, <2>2, <2>3, <2>4, <2>5, <2>6 DEF vars, Next, TaskStep, CancelStep, SweepStep,
       StartInsert, WaitBreaks, ShellExits, PipesClose, BackgroundEnds, CheckWaits, CheckCancels,
       CheckPasses, MarkRunning, RecordAttempt, SpawnChild, SpawnFails, WaitSucceeds,
       WaitFails, WaitTimesOut, WaitCancelled, DelayEnds, DelayCancelled, SelectPanics, ClearBeforeFail,
       FinishRead, FinishJudge, FinishWrite, FinishClear, CancelFind, CancelMark,
       CancelSend, CancelGivesUp, CancelConfirmed, CancelRefused, CancelDropped,
       CancelRecheck, CancelTimesOut, CancelUpdate, CancelPollEnds, SweepList, SweepNext,
       SweepEnds, SweepRead, SweepJudge, SweepWrite, SweepClear
<1>2. cancelled' \subseteq Runs
  <2>1. ASSUME NEW r \in Runs, ClearBeforeFail(r) PROVE cancelled' \subseteq Runs
    BY <2>1 DEF ClearBeforeFail
  <2>2. ASSUME NEW r \in Runs, FinishClear(r) PROVE cancelled' \subseteq Runs
    BY <2>2 DEF FinishClear
  <2>3. ASSUME NEW c \in Callers, CancelMark(c) PROVE cancelled' \subseteq Runs
    BY <2>3 DEF CancelMark, CallType
  <2>4. ASSUME NEW c \in Callers, CancelSend(c) PROVE cancelled' \subseteq Runs
    BY <2>4 DEF CancelSend, CallType
  <2>5. ASSUME NEW c \in Callers, CancelGivesUp(c) PROVE cancelled' \subseteq Runs
    BY <2>5 DEF CancelGivesUp, CallType
  <2>6. ASSUME NEW c \in Callers, CancelRefused(c) PROVE cancelled' \subseteq Runs
    BY <2>6 DEF CancelRefused, CallType
  <2>7. ASSUME NEW c \in Callers, CancelRecheck(c) PROVE cancelled' \subseteq Runs
    BY <2>7 DEF CancelRecheck, CallType
  <2>8. ASSUME NEW s \in Sweepers, SweepClear(s) PROVE cancelled' \subseteq Runs
    BY <2>8 DEF SweepClear
  <2>9. CASE Crash
    BY <2>9 DEF Crash
  <2>10. CASE UNCHANGED cancelled
    BY <2>10
  <2> QED
    BY ZenonT(60), <2>1, <2>2, <2>3, <2>4, <2>5, <2>6, <2>7, <2>8, <2>9, <2>10 DEF vars, Next,
       TaskStep, CancelStep, SweepStep, StartInsert, StartRegister, WaitBreaks,
       ShellExits, PipesClose, BackgroundEnds, CheckWaits, CheckCancels, CheckPasses, MarkRunning,
       RecordAttempt, SpawnChild, SpawnFails, WaitSucceeds, WaitFails, WaitTimesOut,
       WaitCancelled, DelayEnds, DelayCancelled, SelectPanics, FinishRead, FinishJudge, FinishWrite,
       FinishDrop, CancelFind, CancelTake, CancelConfirmed, CancelDropped, CancelTimesOut,
       CancelUpdate, CancelPollEnds, SweepList, SweepNext, SweepEnds, SweepRead, SweepJudge,
       SweepWrite, SweepDrop
<1>3. CASE Crash
  <2>1. orphans' \subseteq Runs
    BY <1>3 DEF Crash
  <2>2. crashes' \in Nat
    <3>1. crashes \in Nat /\ crashes' = crashes + 1
      BY <1>3 DEF Crash
    <3> QED
      BY <3>1
  <2> QED
    BY <1>1, <1>2, <2>1, <2>2, RowTypeNext, ChanTypeNext, TaskTypeNext, ProcTypeNext,
       CallTypeNext, SweepTypeNext
<1>4. CASE ~Crash
  <2>1. UNCHANGED <<orphans, crashes>>
    <3>1. ASSUME NEW r \in Runs,
                 StartInsert(r) \/ StartRegister(r) \/ WaitBreaks(r) \/ ShellExits(r)
                 \/ PipesClose(r) \/ BackgroundEnds(r)
          PROVE  UNCHANGED <<orphans, crashes>>
      BY <3>1 DEF StartInsert, StartRegister, WaitBreaks, ShellExits, PipesClose, BackgroundEnds
    <3>2. ASSUME NEW r \in Runs, TaskStep(r) PROVE UNCHANGED <<orphans, crashes>>
      BY <3>2 DEF TaskStep, CheckWaits, CheckCancels, CheckPasses, MarkRunning, RecordAttempt,
         SpawnChild, SpawnFails, WaitSucceeds, WaitFails, WaitTimesOut, WaitCancelled, DelayEnds,
         DelayCancelled, SelectPanics, ClearBeforeFail, FinishRead, FinishJudge, FinishWrite, FinishDrop,
         FinishClear
    <3>3. ASSUME NEW c \in Callers, CancelStep(c) PROVE UNCHANGED <<orphans, crashes>>
      BY <3>3 DEF CancelStep, CancelFind, CancelMark, CancelTake, CancelSend, CancelGivesUp,
         CancelConfirmed, CancelRefused, CancelDropped, CancelRecheck, CancelTimesOut,
         CancelUpdate, CancelPollEnds
    <3>4. ASSUME NEW s \in Sweepers, SweepStep(s) PROVE UNCHANGED <<orphans, crashes>>
      BY <3>4 DEF SweepStep, SweepList, SweepNext, SweepEnds, SweepRead, SweepJudge, SweepWrite,
         SweepDrop, SweepClear
    <3>5. CASE UNCHANGED vars
      BY <3>5 DEF vars
    <3> QED
      BY <1>4, <3>1, <3>2, <3>3, <3>4, <3>5 DEF Next
  <2> QED
    BY <1>1, <1>2, <2>1, RowTypeNext, ChanTypeNext, TaskTypeNext, ProcTypeNext,
       CallTypeNext, SweepTypeNext
<1> QED
  BY <1>3, <1>4

\* What runs, processes and rows have to do with each other.
LEMMA RunNext ==
  ASSUME Inv, [Next]_vars
  PROVE  AttemptCounted' /\ ResultTrue' /\ SuccessLast' /\ SweepsFail'
<1> DEFINE Goal == AttemptCounted' /\ ResultTrue' /\ SuccessLast' /\ SweepsFail'
<1> USE DEF Inv
<1>1. ASSUME NEW r \in Runs, StartInsert(r) PROVE Goal
  <2>1. AttemptCounted'
    BY <1>1, ConstantsAssumption DEF StartInsert, TypeOK, TaskType, ProcType,
       AttemptCounted, AttemptCountedFor, ConstantsAssumption
  <2>2. ResultTrue'
    BY <1>1 DEF StartInsert, TypeOK, TaskType, ProcType, ResultTrue, ResultTrueFor,
       SuccessLast, SuccessLastFor, AttemptCounted, AttemptCountedFor, Failed, Succeeded
  <2>3. SuccessLast'
    BY <1>1 DEF StartInsert, TypeOK, TaskType, ProcType, RowType, ResultTrue,
       ResultTrueFor, SuccessLast, SuccessLastFor, AttemptCounted, AttemptCountedFor,
       Failed, Succeeded
  <2>4. SweepsFail'
    BY <1>1 DEF StartInsert, TypeOK, SweepsFail
  <2> QED
    BY <2>1, <2>2, <2>3, <2>4
<1>2. ASSUME NEW r \in Runs, StartRegister(r) PROVE Goal
  <2>1. AttemptCounted'
    BY <1>2 DEF StartRegister, TypeOK, TaskType, ProcType, AttemptCounted, AttemptCountedFor
  <2>2. ResultTrue'
    BY <1>2 DEF StartRegister, TypeOK, TaskType, ProcType, ResultTrue, ResultTrueFor,
       SuccessLast, SuccessLastFor, Failed, Succeeded
  <2>3. SuccessLast'
    BY <1>2 DEF StartRegister, TypeOK, TaskType, ProcType, RowType, ResultTrue,
       ResultTrueFor, SuccessLast, SuccessLastFor, Failed, Succeeded
  <2>4. SweepsFail'
    BY <1>2 DEF StartRegister, TypeOK, SweepsFail
  <2> QED
    BY <2>1, <2>2, <2>3, <2>4
<1>3. ASSUME NEW r \in Runs, WaitBreaks(r) PROVE Goal
  <2>1. AttemptCounted'
    BY <1>3 DEF WaitBreaks, TypeOK, TaskType, ProcType, AttemptCounted, AttemptCountedFor
  <2>2. ResultTrue'
    BY <1>3 DEF WaitBreaks, TypeOK, TaskType, ProcType, ResultTrue, ResultTrueFor,
       SuccessLast, SuccessLastFor, Failed, Succeeded
  <2>3. SuccessLast'
    BY <1>3 DEF WaitBreaks, TypeOK, TaskType, ProcType, RowType, ResultTrue,
       ResultTrueFor, SuccessLast, SuccessLastFor, Failed, Succeeded
  <2>4. SweepsFail'
    BY <1>3 DEF WaitBreaks, TypeOK, SweepsFail
  <2> QED
    BY <2>1, <2>2, <2>3, <2>4
<1>4. ASSUME NEW r \in Runs, ShellExits(r) PROVE Goal
  <2>1. AttemptCounted'
    BY <1>4 DEF ShellExits, TypeOK, TaskType, ProcType, AttemptCounted, AttemptCountedFor
  <2>2. ResultTrue'
    BY <1>4 DEF ShellExits, TypeOK, TaskType, ProcType, ResultTrue, ResultTrueFor,
       SuccessLast, SuccessLastFor, Failed, Succeeded
  <2>3. SuccessLast'
    BY <1>4 DEF ShellExits, TypeOK, TaskType, ProcType, RowType, ResultTrue,
       ResultTrueFor, SuccessLast, SuccessLastFor, Failed, Succeeded
  <2>4. SweepsFail'
    BY <1>4 DEF ShellExits, TypeOK, SweepsFail
  <2> QED
    BY <2>1, <2>2, <2>3, <2>4
<1>5. ASSUME NEW r \in Runs, PipesClose(r) PROVE Goal
  <2>1. AttemptCounted'
    BY <1>5 DEF PipesClose, TypeOK, TaskType, ProcType, AttemptCounted, AttemptCountedFor
  <2>2. ResultTrue'
    BY <1>5 DEF PipesClose, TypeOK, TaskType, ProcType, ResultTrue, ResultTrueFor,
       SuccessLast, SuccessLastFor, Failed, Succeeded
  <2>3. SuccessLast'
    BY <1>5 DEF PipesClose, TypeOK, TaskType, ProcType, RowType, ResultTrue,
       ResultTrueFor, SuccessLast, SuccessLastFor, Failed, Succeeded
  <2>4. SweepsFail'
    BY <1>5 DEF PipesClose, TypeOK, SweepsFail
  <2> QED
    BY <2>1, <2>2, <2>3, <2>4
<1>5a. ASSUME NEW r \in Runs, BackgroundEnds(r) PROVE Goal
  <2>1. AttemptCounted'
    BY <1>5a DEF BackgroundEnds, TypeOK, TaskType, ProcType, AttemptCounted, AttemptCountedFor
  <2>2. ResultTrue'
    BY <1>5a DEF BackgroundEnds, TypeOK, TaskType, ProcType, ResultTrue, ResultTrueFor,
       SuccessLast, SuccessLastFor, Failed, Succeeded
  <2>3. SuccessLast'
    BY <1>5a DEF BackgroundEnds, TypeOK, TaskType, ProcType, RowType, ResultTrue,
       ResultTrueFor, SuccessLast, SuccessLastFor, Failed, Succeeded
  <2>4. SweepsFail'
    BY <1>5a DEF BackgroundEnds, TypeOK, SweepsFail
  <2> QED
    BY <2>1, <2>2, <2>3, <2>4
<1>6. ASSUME NEW r \in Runs, CheckWaits(r) PROVE Goal
  <2>1. AttemptCounted'
    BY <1>6 DEF CheckWaits, TypeOK, TaskType, ProcType, AttemptCounted, AttemptCountedFor,
       Checkpoint
  <2>2. ResultTrue'
    BY <1>6 DEF CheckWaits, TypeOK, TaskType, ProcType, ResultTrue, ResultTrueFor,
       SuccessLast, SuccessLastFor, Failed, Succeeded, Checkpoint
  <2>3. SuccessLast'
    BY <1>6 DEF CheckWaits, TypeOK, TaskType, ProcType, RowType, ResultTrue,
       ResultTrueFor, SuccessLast, SuccessLastFor, Failed, Succeeded, Checkpoint
  <2>4. SweepsFail'
    BY <1>6 DEF CheckWaits, TypeOK, SweepsFail, Checkpoint
  <2> QED
    BY <2>1, <2>2, <2>3, <2>4
<1>7. ASSUME NEW r \in Runs, CheckCancels(r) PROVE Goal
  <2>1. \A q \in Runs \ {r} : task'[q] = task[q] /\ proc'[q] = proc[q] /\ row'[q] = row[q]
    BY <1>7 DEF CheckCancels, TypeOK, TaskType, ProcType, RowType
  <2>2. AttemptCounted'
    <3>1. AttemptCountedFor(r)'
      BY <1>7 DEF CheckCancels, TypeOK, TaskType, ProcType, AttemptCounted,
         AttemptCountedFor, Checkpoint
    <3> QED
      BY <2>1, <3>1 DEF AttemptCounted, AttemptCountedFor
  <2>3. ResultTrue'
    <3>1. ResultTrueFor(r)'
      BY <1>7 DEF CheckCancels, TypeOK, TaskType, ProcType, ResultTrue, ResultTrueFor,
         SuccessLast, SuccessLastFor, AttemptCounted, AttemptCountedFor, Failed,
         Succeeded, Checkpoint
    <3> QED
      BY <2>1, <3>1 DEF ResultTrue, ResultTrueFor, Failed, Succeeded
  <2>4. SuccessLast'
    <3>1. SuccessLastFor(r)'
      BY <1>7 DEF CheckCancels, TypeOK, TaskType, ProcType, RowType, ResultTrue,
         ResultTrueFor, SuccessLast, SuccessLastFor, Failed, Succeeded, Checkpoint
    <3> QED
      BY <2>1, <3>1 DEF SuccessLast, SuccessLastFor, Failed, Succeeded
  <2>5. SweepsFail'
    BY <1>7 DEF CheckCancels, SweepsFail
  <2> QED
    BY <2>2, <2>3, <2>4, <2>5
<1>8. ASSUME NEW r \in Runs, CheckPasses(r) PROVE Goal
  <2>1. \A q \in Runs \ {r} : task'[q] = task[q] /\ proc'[q] = proc[q] /\ row'[q] = row[q]
    BY <1>8 DEF CheckPasses, PassedCheck, TypeOK, TaskType, ProcType, RowType
  <2>2. AttemptCounted'
    <3>1. AttemptCountedFor(r)'
      BY <1>8, ConstantsAssumption DEF CheckPasses, PassedCheck, ShouldRetry, TypeOK,
         TaskType, ProcType, AttemptCounted, AttemptCountedFor, Checkpoint,
         ConstantsAssumption
    <3> QED
      BY <2>1, <3>1 DEF AttemptCounted, AttemptCountedFor
  <2>3. ResultTrue'
    <3>1. ResultTrueFor(r)'
      BY <1>8 DEF CheckPasses, PassedCheck, ShouldRetry, TypeOK, TaskType, ProcType,
         ResultTrue, ResultTrueFor, SuccessLast, SuccessLastFor, AttemptCounted,
         AttemptCountedFor, Failed, Succeeded, Checkpoint
    <3> QED
      BY <2>1, <3>1 DEF ResultTrue, ResultTrueFor, Failed, Succeeded
  <2>4. SuccessLast'
    <3>1. SuccessLastFor(r)'
      BY <1>8 DEF CheckPasses, PassedCheck, ShouldRetry, TypeOK, TaskType, ProcType,
         RowType, ResultTrue, ResultTrueFor, SuccessLast, SuccessLastFor, Failed,
         Succeeded, Checkpoint
    <3> QED
      BY <2>1, <3>1 DEF SuccessLast, SuccessLastFor, Failed, Succeeded
  <2>5. SweepsFail'
    BY <1>8 DEF CheckPasses, PassedCheck, SweepsFail
  <2> QED
    BY <2>2, <2>3, <2>4, <2>5
<1>9. ASSUME NEW r \in Runs, MarkRunning(r) PROVE Goal
  <2>1. \A q \in Runs \ {r} : task'[q] = task[q] /\ proc'[q] = proc[q] /\ row'[q] = row[q]
    BY <1>9 DEF MarkRunning, TaskEnds, TypeOK, TaskType, ProcType, RowType
  <2>2. AttemptCounted'
    <3>1. AttemptCountedFor(r)'
      BY <1>9 DEF MarkRunning, TaskEnds, TypeOK, TaskType, ProcType, AttemptCounted,
         AttemptCountedFor
    <3> QED
      BY <2>1, <3>1 DEF AttemptCounted, AttemptCountedFor
  <2>3. ResultTrue'
    <3>1. ResultTrueFor(r)'
      BY <1>9 DEF MarkRunning, TaskEnds, TypeOK, TaskType, ProcType, ResultTrue,
         ResultTrueFor, SuccessLast, SuccessLastFor, AttemptCounted, AttemptCountedFor,
         Failed, Succeeded
    <3> QED
      BY <2>1, <3>1 DEF ResultTrue, ResultTrueFor, Failed, Succeeded
  <2>4. SuccessLast'
    <3>1. SuccessLastFor(r)'
      BY <1>9 DEF MarkRunning, TaskEnds, TypeOK, TaskType, ProcType, RowType, ResultTrue,
         ResultTrueFor, SuccessLast, SuccessLastFor, Failed, Succeeded
    <3> QED
      BY <2>1, <3>1 DEF SuccessLast, SuccessLastFor, Failed, Succeeded
  <2>5. SweepsFail'
    BY <1>9 DEF MarkRunning, TaskEnds, SweepsFail
  <2> QED
    BY <2>2, <2>3, <2>4, <2>5
<1>10. ASSUME NEW r \in Runs, RecordAttempt(r) PROVE Goal
  <2>1. \A q \in Runs \ {r} : task'[q] = task[q] /\ proc'[q] = proc[q] /\ row'[q] = row[q]
    BY <1>10 DEF RecordAttempt, TypeOK, TaskType, ProcType, RowType
  <2>2. AttemptCounted'
    <3>1. AttemptCountedFor(r)'
      BY <1>10 DEF RecordAttempt, TypeOK, TaskType, ProcType, AttemptCounted,
         AttemptCountedFor
    <3> QED
      BY <2>1, <3>1 DEF AttemptCounted, AttemptCountedFor
  <2>3. ResultTrue'
    <3>1. ResultTrueFor(r)'
      BY <1>10 DEF RecordAttempt, TypeOK, TaskType, ProcType, ResultTrue, ResultTrueFor,
         SuccessLast, SuccessLastFor, AttemptCounted, AttemptCountedFor, Failed, Succeeded
    <3> QED
      BY <2>1, <3>1 DEF ResultTrue, ResultTrueFor, Failed, Succeeded
  <2>4. SuccessLast'
    <3>1. SuccessLastFor(r)'
      BY SMTT(30), <1>10 DEF RecordAttempt, TypeOK, TaskType, ProcType, RowType, ResultTrue,
         ResultTrueFor, SuccessLast, SuccessLastFor, Failed, Succeeded
    <3> QED
      BY <2>1, <3>1 DEF SuccessLast, SuccessLastFor, Failed, Succeeded
  <2>5. SweepsFail'
    BY <1>10 DEF RecordAttempt, SweepsFail
  <2> QED
    BY <2>2, <2>3, <2>4, <2>5
<1>11. ASSUME NEW r \in Runs, SpawnChild(r) PROVE Goal
  <2>1. AttemptCounted'
    BY <1>11 DEF SpawnChild, TypeOK, TaskType, ProcType, AttemptCounted, AttemptCountedFor
  <2>2. ResultTrue'
    BY <1>11 DEF SpawnChild, TypeOK, TaskType, ProcType, ResultTrue, ResultTrueFor,
       SuccessLast, SuccessLastFor, Failed, Succeeded
  <2>3. SuccessLast'
    BY <1>11 DEF SpawnChild, TypeOK, TaskType, ProcType, RowType, ResultTrue,
       ResultTrueFor, SuccessLast, SuccessLastFor, Failed, Succeeded
  <2>4. SweepsFail'
    BY <1>11 DEF SpawnChild, TypeOK, SweepsFail
  <2> QED
    BY <2>1, <2>2, <2>3, <2>4
<1>12. ASSUME NEW r \in Runs, SpawnFails(r) PROVE Goal
  <2>1. AttemptCounted'
    BY <1>12 DEF SpawnFails, TypeOK, TaskType, ProcType, AttemptCounted, AttemptCountedFor
  <2>2. ResultTrue'
    BY <1>12 DEF SpawnFails, TypeOK, TaskType, ProcType, ResultTrue, ResultTrueFor,
       SuccessLast, SuccessLastFor, Failed, Succeeded
  <2>3. SuccessLast'
    BY <1>12 DEF SpawnFails, TypeOK, TaskType, ProcType, RowType, ResultTrue,
       ResultTrueFor, SuccessLast, SuccessLastFor, Failed, Succeeded
  <2>4. SweepsFail'
    BY <1>12 DEF SpawnFails, TypeOK, SweepsFail
  <2> QED
    BY <2>1, <2>2, <2>3, <2>4
<1>13. ASSUME NEW r \in Runs, WaitSucceeds(r) PROVE Goal
  <2>1. AttemptCounted'
    BY <1>13 DEF WaitSucceeds, TypeOK, TaskType, ProcType, AttemptCounted, AttemptCountedFor
  <2>2. ResultTrue'
    BY <1>13 DEF WaitSucceeds, ScriptOpen, TypeOK, TaskType, ProcType, ResultTrue,
       ResultTrueFor, SuccessLast, SuccessLastFor, Failed, Succeeded
  <2>3. SuccessLast'
    BY <1>13 DEF WaitSucceeds, TypeOK, TaskType, ProcType, RowType, ResultTrue,
       ResultTrueFor, SuccessLast, SuccessLastFor, Failed, Succeeded
  <2>4. SweepsFail'
    BY <1>13 DEF WaitSucceeds, TypeOK, SweepsFail
  <2> QED
    BY <2>1, <2>2, <2>3, <2>4
<1>14. ASSUME NEW r \in Runs, WaitFails(r) PROVE Goal
  <2>1. \A q \in Runs \ {r} : task'[q] = task[q] /\ proc'[q] = proc[q] /\ row'[q] = row[q]
    BY <1>14 DEF WaitFails, TerminateProcessTree, TypeOK, TaskType, ProcType, RowType
  <2>2. AttemptCounted'
    <3>1. AttemptCountedFor(r)'
      BY <1>14 DEF WaitFails, TerminateProcessTree, TypeOK, TaskType, ProcType,
         AttemptCounted, AttemptCountedFor
    <3> QED
      BY <2>1, <3>1 DEF AttemptCounted, AttemptCountedFor
  <2>3. ResultTrue'
    <3>1. ResultTrueFor(r)'
      BY <1>14 DEF WaitFails, TerminateProcessTree, TypeOK, TaskType, ProcType,
         ResultTrue, ResultTrueFor, SuccessLast, SuccessLastFor, AttemptCounted,
         AttemptCountedFor, Failed, Succeeded
    <3> QED
      BY <2>1, <3>1 DEF ResultTrue, ResultTrueFor, Failed, Succeeded
  <2>4. SuccessLast'
    <3>1. SuccessLastFor(r)'
      BY <1>14 DEF WaitFails, TerminateProcessTree, TypeOK, TaskType, ProcType, RowType,
         ResultTrue, ResultTrueFor, SuccessLast, SuccessLastFor, Failed, Succeeded
    <3> QED
      BY <2>1, <3>1 DEF SuccessLast, SuccessLastFor, Failed, Succeeded
  <2>5. SweepsFail'
    BY <1>14 DEF WaitFails, SweepsFail
  <2> QED
    BY <2>2, <2>3, <2>4, <2>5
<1>15. ASSUME NEW r \in Runs, WaitTimesOut(r) PROVE Goal
  <2>1. \A q \in Runs \ {r} : task'[q] = task[q] /\ proc'[q] = proc[q] /\ row'[q] = row[q]
    BY <1>15 DEF WaitTimesOut, TerminateProcessTree, TypeOK, TaskType, ProcType, RowType
  <2>2. AttemptCounted'
    <3>1. AttemptCountedFor(r)'
      BY <1>15 DEF WaitTimesOut, TerminateProcessTree, TypeOK, TaskType, ProcType,
         AttemptCounted, AttemptCountedFor
    <3> QED
      BY <2>1, <3>1 DEF AttemptCounted, AttemptCountedFor
  <2>3. ResultTrue'
    <3>1. ResultTrueFor(r)'
      BY <1>15 DEF WaitTimesOut, TerminateProcessTree, TypeOK, TaskType, ProcType,
         ResultTrue, ResultTrueFor, SuccessLast, SuccessLastFor, AttemptCounted,
         AttemptCountedFor, Failed, Succeeded
    <3> QED
      BY <2>1, <3>1 DEF ResultTrue, ResultTrueFor, Failed, Succeeded
  <2>4. SuccessLast'
    <3>1. SuccessLastFor(r)'
      BY <1>15 DEF WaitTimesOut, TerminateProcessTree, TypeOK, TaskType, ProcType,
         RowType, ResultTrue, ResultTrueFor, SuccessLast, SuccessLastFor, Failed,
         Succeeded
    <3> QED
      BY <2>1, <3>1 DEF SuccessLast, SuccessLastFor, Failed, Succeeded
  <2>5. SweepsFail'
    BY <1>15 DEF WaitTimesOut, SweepsFail
  <2> QED
    BY <2>2, <2>3, <2>4, <2>5
<1>16. ASSUME NEW r \in Runs, WaitCancelled(r) PROVE Goal
  <2>1. \A q \in Runs \ {r} : task'[q] = task[q] /\ proc'[q] = proc[q] /\ row'[q] = row[q]
    BY <1>16 DEF WaitCancelled, TerminateProcessTree, TypeOK, TaskType, ProcType, RowType
  <2>2. AttemptCounted'
    <3>1. AttemptCountedFor(r)'
      BY SMTT(30), <1>16 DEF WaitCancelled, TerminateProcessTree, TypeOK, TaskType, ProcType,
         AttemptCounted, AttemptCountedFor
    <3> QED
      BY <2>1, <3>1 DEF AttemptCounted, AttemptCountedFor
  <2>3. ResultTrue'
    <3>1. ResultTrueFor(r)'
      BY <1>16 DEF WaitCancelled, TerminateProcessTree, TypeOK, TaskType, ProcType,
         ResultTrue, ResultTrueFor, SuccessLast, SuccessLastFor, AttemptCounted,
         AttemptCountedFor, Failed, Succeeded
    <3> QED
      BY <2>1, <3>1 DEF ResultTrue, ResultTrueFor, Failed, Succeeded
  <2>4. SuccessLast'
    <3>1. SuccessLastFor(r)'
      BY <1>16 DEF WaitCancelled, TerminateProcessTree, TypeOK, TaskType, ProcType,
         RowType, ResultTrue, ResultTrueFor, SuccessLast, SuccessLastFor, Failed,
         Succeeded
    <3> QED
      BY <2>1, <3>1 DEF SuccessLast, SuccessLastFor, Failed, Succeeded
  <2>5. SweepsFail'
    BY <1>16 DEF WaitCancelled, SweepsFail
  <2> QED
    BY <2>2, <2>3, <2>4, <2>5
<1>17. ASSUME NEW r \in Runs, DelayEnds(r) PROVE Goal
  <2>1. AttemptCounted'
    BY <1>17, ConstantsAssumption DEF DelayEnds, TypeOK, TaskType, ProcType,
       AttemptCounted, AttemptCountedFor, ConstantsAssumption
  <2>2. ResultTrue'
    BY <1>17 DEF DelayEnds, TypeOK, TaskType, ProcType, ResultTrue, ResultTrueFor,
       SuccessLast, SuccessLastFor, Failed, Succeeded
  <2>3. SuccessLast'
    BY <1>17 DEF DelayEnds, TypeOK, TaskType, ProcType, RowType, ResultTrue,
       ResultTrueFor, SuccessLast, SuccessLastFor, Failed, Succeeded
  <2>4. SweepsFail'
    BY <1>17 DEF DelayEnds, TypeOK, SweepsFail
  <2> QED
    BY <2>1, <2>2, <2>3, <2>4
<1>18. ASSUME NEW r \in Runs, DelayCancelled(r) PROVE Goal
  <2>1. \A q \in Runs \ {r} : task'[q] = task[q] /\ proc'[q] = proc[q] /\ row'[q] = row[q]
    BY <1>18 DEF DelayCancelled, TypeOK, TaskType, ProcType, RowType
  <2>2. AttemptCounted'
    <3>1. AttemptCountedFor(r)'
      BY <1>18 DEF DelayCancelled, TypeOK, TaskType, ProcType, AttemptCounted,
         AttemptCountedFor
    <3> QED
      BY <2>1, <3>1 DEF AttemptCounted, AttemptCountedFor
  <2>3. ResultTrue'
    <3>1. ResultTrueFor(r)'
      BY <1>18 DEF DelayCancelled, TypeOK, TaskType, ProcType, ResultTrue, ResultTrueFor,
         SuccessLast, SuccessLastFor, AttemptCounted, AttemptCountedFor, Failed, Succeeded
    <3> QED
      BY <2>1, <3>1 DEF ResultTrue, ResultTrueFor, Failed, Succeeded
  <2>4. SuccessLast'
    <3>1. SuccessLastFor(r)'
      BY <1>18 DEF DelayCancelled, TypeOK, TaskType, ProcType, RowType, ResultTrue,
         ResultTrueFor, SuccessLast, SuccessLastFor, Failed, Succeeded
    <3> QED
      BY <2>1, <3>1 DEF SuccessLast, SuccessLastFor, Failed, Succeeded
  <2>5. SweepsFail'
    BY <1>18 DEF DelayCancelled, SweepsFail
  <2> QED
    BY <2>2, <2>3, <2>4, <2>5
<1>18a. ASSUME NEW r \in Runs, SelectPanics(r) PROVE Goal
  <2>1. AttemptCounted'
    BY <1>18a DEF SelectPanics, TaskEnds, Answer, TypeOK, TaskType, ProcType,
       AttemptCounted, AttemptCountedFor
  <2>2. ResultTrue'
    BY <1>18a DEF SelectPanics, TaskEnds, Answer, TypeOK, TaskType, ProcType, ResultTrue,
       ResultTrueFor, SuccessLast, SuccessLastFor, Failed, Succeeded
  <2>3. SuccessLast'
    BY <1>18a DEF SelectPanics, TaskEnds, Answer, TypeOK, TaskType, ProcType, RowType,
       ResultTrue, ResultTrueFor, SuccessLast, SuccessLastFor, Failed, Succeeded
  <2>4. SweepsFail'
    BY <1>18a DEF SelectPanics, TaskEnds, Answer, TypeOK, SweepsFail
  <2> QED
    BY <2>1, <2>2, <2>3, <2>4
<1>19. ASSUME NEW r \in Runs, ClearBeforeFail(r) PROVE Goal
  <2>1. AttemptCounted'
    BY <1>19 DEF ClearBeforeFail, TypeOK, TaskType, ProcType, AttemptCounted,
       AttemptCountedFor
  <2>2. ResultTrue'
    BY <1>19 DEF ClearBeforeFail, TypeOK, TaskType, ProcType, ResultTrue, ResultTrueFor,
       SuccessLast, SuccessLastFor, Failed, Succeeded
  <2>3. SuccessLast'
    BY <1>19 DEF ClearBeforeFail, TypeOK, TaskType, ProcType, RowType, ResultTrue,
       ResultTrueFor, SuccessLast, SuccessLastFor, Failed, Succeeded
  <2>4. SweepsFail'
    BY <1>19 DEF ClearBeforeFail, TypeOK, SweepsFail
  <2> QED
    BY <2>1, <2>2, <2>3, <2>4
<1>20. ASSUME NEW r \in Runs, FinishRead(r) PROVE Goal
  <2>1. \A q \in Runs \ {r} : task'[q] = task[q] /\ proc'[q] = proc[q] /\ row'[q] = row[q]
    BY <1>20 DEF FinishRead, TaskEnds, TypeOK, TaskType, ProcType, RowType
  <2>2. AttemptCounted'
    <3>1. AttemptCountedFor(r)'
      BY <1>20 DEF FinishRead, TaskEnds, TypeOK, TaskType, ProcType, AttemptCounted,
         AttemptCountedFor
    <3> QED
      BY <2>1, <3>1 DEF AttemptCounted, AttemptCountedFor
  <2>3. ResultTrue'
    <3>1. ResultTrueFor(r)'
      BY <1>20 DEF FinishRead, TaskEnds, FoundStatus, TypeOK, TaskType,
         ProcType, ResultTrue, ResultTrueFor, SuccessLast, SuccessLastFor, AttemptCounted,
         AttemptCountedFor, Failed, Succeeded
    <3> QED
      BY <2>1, <3>1 DEF ResultTrue, ResultTrueFor, Failed, Succeeded
  <2>4. SuccessLast'
    <3>1. SuccessLastFor(r)'
      BY <1>20 DEF FinishRead, TaskEnds, TypeOK, TaskType, ProcType, RowType, ResultTrue,
         ResultTrueFor, SuccessLast, SuccessLastFor, Failed, Succeeded
    <3> QED
      BY <2>1, <3>1 DEF SuccessLast, SuccessLastFor, Failed, Succeeded
  <2>5. SweepsFail'
    BY <1>20 DEF FinishRead, TaskEnds, SweepsFail
  <2> QED
    BY <2>2, <2>3, <2>4, <2>5
<1>20a. ASSUME NEW r \in Runs, FinishJudge(r) PROVE Goal
  <2>1. \A q \in Runs \ {r} : task'[q] = task[q] /\ proc'[q] = proc[q] /\ row'[q] = row[q]
    BY <1>20a DEF FinishJudge, TypeOK, TaskType, ProcType, RowType
  <2>2. AttemptCounted'
    <3>1. AttemptCountedFor(r)'
      BY <1>20a DEF FinishJudge, TypeOK, TaskType, ProcType, AttemptCounted,
         AttemptCountedFor
    <3> QED
      BY <2>1, <3>1 DEF AttemptCounted, AttemptCountedFor
  <2>3. ResultTrue'
    <3>1. ResultTrueFor(r)'
      BY <1>20a DEF FinishJudge, FinishVerdict, AskedStatus, TypeOK, TaskType,
         ProcType, ResultTrue, ResultTrueFor, SuccessLast, SuccessLastFor, AttemptCounted,
         AttemptCountedFor, Failed, Succeeded
    <3> QED
      BY <2>1, <3>1 DEF ResultTrue, ResultTrueFor, Failed, Succeeded
  <2>4. SuccessLast'
    <3>1. SuccessLastFor(r)'
      BY <1>20a DEF FinishJudge, TypeOK, TaskType, ProcType, RowType, ResultTrue,
         ResultTrueFor, SuccessLast, SuccessLastFor, Failed, Succeeded
    <3> QED
      BY <2>1, <3>1 DEF SuccessLast, SuccessLastFor, Failed, Succeeded
  <2>5. SweepsFail'
    BY <1>20a DEF FinishJudge, SweepsFail
  <2> QED
    BY <2>2, <2>3, <2>4, <2>5
<1>21. ASSUME NEW r \in Runs, FinishWrite(r) PROVE Goal
  <2>1. \A q \in Runs \ {r} : task'[q] = task[q] /\ proc'[q] = proc[q] /\ row'[q] = row[q]
    BY <1>21 DEF FinishWrite, TaskEnds, TypeOK, TaskType, ProcType, RowType
  <2>2. AttemptCounted'
    <3>1. AttemptCountedFor(r)'
      BY <1>21 DEF FinishWrite, TaskEnds, TypeOK, TaskType, ProcType, AttemptCounted,
         AttemptCountedFor
    <3> QED
      BY <2>1, <3>1 DEF AttemptCounted, AttemptCountedFor
  <2>3. ResultTrue'
    <3>1. ResultTrueFor(r)'
      BY <1>21 DEF FinishWrite, TaskEnds, TypeOK, TaskType, ProcType, ResultTrue,
         ResultTrueFor, SuccessLast, SuccessLastFor, AttemptCounted, AttemptCountedFor,
         Failed, Succeeded
    <3> QED
      BY <2>1, <3>1 DEF ResultTrue, ResultTrueFor, Failed, Succeeded
  <2>4. SuccessLast'
    <3>1. SuccessLastFor(r)'
      BY <1>21 DEF FinishWrite, TaskEnds, TypeOK, TaskType, ProcType, RowType, ResultTrue,
         ResultTrueFor, SuccessLast, SuccessLastFor, Failed, Succeeded
    <3> QED
      BY <2>1, <3>1 DEF SuccessLast, SuccessLastFor, Failed, Succeeded
  <2>5. SweepsFail'
    BY <1>21 DEF FinishWrite, TaskEnds, SweepsFail
  <2> QED
    BY <2>2, <2>3, <2>4, <2>5
<1>22. ASSUME NEW r \in Runs, FinishDrop(r) PROVE Goal
  <2>1. AttemptCounted'
    BY <1>22 DEF FinishDrop, DropCanceller, TypeOK, TaskType, ProcType, AttemptCounted,
       AttemptCountedFor
  <2>2. ResultTrue'
    BY <1>22 DEF FinishDrop, DropCanceller, TypeOK, TaskType, ProcType, ResultTrue,
       ResultTrueFor, SuccessLast, SuccessLastFor, Failed, Succeeded
  <2>3. SuccessLast'
    BY <1>22 DEF FinishDrop, DropCanceller, TypeOK, TaskType, ProcType, RowType,
       ResultTrue, ResultTrueFor, SuccessLast, SuccessLastFor, Failed, Succeeded
  <2>4. SweepsFail'
    BY <1>22 DEF FinishDrop, DropCanceller, TypeOK, SweepsFail
  <2> QED
    BY <2>1, <2>2, <2>3, <2>4
<1>23. ASSUME NEW r \in Runs, FinishClear(r) PROVE Goal
  <2>1. AttemptCounted'
    BY <1>23 DEF FinishClear, TaskEnds, Answer, TypeOK, TaskType, ProcType,
       AttemptCounted, AttemptCountedFor
  <2>2. ResultTrue'
    BY <1>23 DEF FinishClear, TaskEnds, Answer, TypeOK, TaskType, ProcType, ResultTrue,
       ResultTrueFor, SuccessLast, SuccessLastFor, Failed, Succeeded
  <2>3. SuccessLast'
    BY <1>23 DEF FinishClear, TaskEnds, Answer, TypeOK, TaskType, ProcType, RowType,
       ResultTrue, ResultTrueFor, SuccessLast, SuccessLastFor, Failed, Succeeded
  <2>4. SweepsFail'
    BY <1>23 DEF FinishClear, TaskEnds, Answer, TypeOK, SweepsFail
  <2> QED
    BY <2>1, <2>2, <2>3, <2>4
<1>24. ASSUME NEW c \in Callers, CancelStep(c) PROVE Goal
  <2>1. UNCHANGED <<task, proc, sweep>>
    BY <1>24 DEF CancelStep, CancelFind, CancelMark, CancelTake, CancelSend,
       CancelGivesUp, CancelConfirmed, CancelRefused, CancelDropped, CancelRecheck,
       CancelTimesOut, CancelUpdate, CancelPollEnds
  <2>2. \A r \in Runs : row'[r].status = "success" => row[r].status = "success"
    BY <1>24 DEF CancelStep, TypeOK, RowType, CallType, CancelFind, CancelMark,
       CancelTake, CancelSend, CancelGivesUp, CancelConfirmed, CancelRefused,
       CancelDropped, CancelRecheck, CancelTimesOut, CancelUpdate, CancelPollEnds
  <2> QED
    BY <2>1, <2>2 DEF AttemptCounted, AttemptCountedFor, ResultTrue, ResultTrueFor,
       SuccessLast, SuccessLastFor, SweepsFail, Failed, Succeeded
<1>25. ASSUME NEW s \in Sweepers, SweepStep(s) PROVE Goal
  <2>1. UNCHANGED <<task, proc>>
    BY <1>25 DEF SweepStep, SweepList, SweepNext, SweepEnds, SweepRead, SweepJudge,
       SweepWrite, SweepDrop, SweepClear
  <2>2. SweepsFail'
    <3>1. CASE SweepList(s)
      BY <3>1 DEF SweepList, SweepsFail, TypeOK, SweepType
    <3>2. ASSUME NEW r \in Runs, SweepNext(s, r) PROVE SweepsFail'
      BY <3>2 DEF SweepNext, SweepsFail, TypeOK, SweepType
    <3>3. CASE SweepEnds(s)
      BY <3>3 DEF SweepEnds, SweepsFail, TypeOK, SweepType
    <3>4. CASE SweepRead(s)
      BY <3>4 DEF SweepRead, FoundStatus, SweepsFail, TypeOK, SweepType
    <3>4a. CASE SweepJudge(s)
      BY <3>4a DEF SweepJudge, FinishVerdict, SweepsFail, TypeOK, SweepType
    <3>5. CASE SweepWrite(s)
      BY <3>5 DEF SweepWrite, SweepsFail, TypeOK, SweepType
    <3>6. CASE SweepDrop(s)
      BY <3>6 DEF SweepDrop, SweepsFail, TypeOK, SweepType
    <3>7. CASE SweepClear(s)
      BY <3>7 DEF SweepClear, SweepsFail, TypeOK, SweepType
    <3> QED
      BY <1>25, <3>1, <3>2, <3>3, <3>4, <3>4a, <3>5, <3>6, <3>7 DEF SweepStep
  <2>3. \A r \in Runs : row'[r].status = "success" => row[r].status = "success"
    <3>1. CASE SweepWrite(s)
      <4>1. sweep[s].run \in Runs /\ sweep[s].verdict # "success"
        BY DEF SweepsFail, TypeOK, SweepType
      <4>2. row' = row \/ row' = [row EXCEPT ![sweep[s].run].status = sweep[s].verdict]
        BY <3>1 DEF SweepWrite
      <4> QED
        BY <4>1, <4>2 DEF TypeOK, RowType
    <3>2. CASE UNCHANGED row
      BY <3>2
    <3> QED
      BY <1>25, <3>1, <3>2 DEF SweepStep, SweepList, SweepNext, SweepEnds, SweepRead,
         SweepJudge, SweepDrop, SweepClear
  <2> QED
    BY <2>1, <2>2, <2>3 DEF AttemptCounted, AttemptCountedFor, ResultTrue, ResultTrueFor,
       SuccessLast, SuccessLastFor, SweepsFail, Failed, Succeeded
<1>26. CASE Crash
  <2>1. row' = row /\ proc' = proc
    BY <1>26 DEF Crash
  <2>2. ASSUME NEW r \in Runs
        PROVE  /\ task'[r].attempt = task[r].attempt /\ task'[r].retry = task[r].retry
               /\ task'[r].pc \in {"none", "ended"}
               /\ task'[r].pc = "none" => task[r].pc = "none"
    BY <1>26 DEF Crash, TypeOK, TaskType
  <2>3. AttemptCounted'
    <3> SUFFICES ASSUME NEW r \in Runs PROVE AttemptCountedFor(r)'
      BY DEF AttemptCounted
    <3>1. AttemptCountedFor(r)
      BY DEF AttemptCounted
    <3>2. CASE task[r].retry
      BY <2>1, <2>2, <3>1, <3>2 DEF AttemptCountedFor
    <3>3. CASE ~task[r].retry
      BY <2>1, <2>2, <3>1, <3>3 DEF AttemptCountedFor
    <3> QED
      BY <3>2, <3>3
  <2>4. ResultTrue' /\ SuccessLast'
    <3> SUFFICES ASSUME NEW r \in Runs PROVE ResultTrueFor(r)' /\ SuccessLastFor(r)'
      BY DEF ResultTrue, SuccessLast
    <3>1. SuccessLastFor(r)
      BY DEF SuccessLast
    <3>2. task'[r].pc \in {"none", "ended"} /\ (task'[r].pc = "none" => task[r].pc = "none")
      BY <2>2
    <3> QED
      BY <2>1, <3>1, <3>2 DEF ResultTrueFor, SuccessLastFor, Failed, Succeeded
  <2>5. SweepsFail'
    <3>1. \A s \in Sweepers : sweep'[s].verdict = "none"
      BY <1>26 DEF Crash, TypeOK, SweepType
    <3> QED
      BY <3>1 DEF SweepsFail
  <2> QED
    BY <2>3, <2>4, <2>5
<1>27. CASE UNCHANGED vars
  BY <1>27 DEF vars, AttemptCounted, AttemptCountedFor, ResultTrue, ResultTrueFor,
     SuccessLast, SuccessLastFor, SweepsFail, Failed, Succeeded
<1> QED
  BY <1>1, <1>2, <1>3, <1>4, <1>5, <1>5a, <1>6, <1>7, <1>8, <1>9, <1>10, <1>11, <1>12, <1>13,
     <1>14, <1>15, <1>16, <1>17, <1>18, <1>18a, <1>19, <1>20, <1>20a, <1>21, <1>22, <1>23, <1>24, <1>25,
     <1>26, <1>27 DEF Next, TaskStep

\* A request is answered Ok only by a step that ends the run.
LEMMA AckNext ==
  ASSUME Inv, [Next]_vars
  PROVE  RequestsMatch' /\ AcksFinish'
<1> USE DEF Inv
<1>1. ASSUME NEW r \in Runs, CheckCancels(r) PROVE RequestsMatch' /\ AcksFinish'
  <2>1. Answer(r, "ok") \/ UNCHANGED <<chan, call>>
    BY <1>1 DEF CheckCancels
  <2>2. \A q \in Runs : task[q].pc \in Finishing => task'[q].pc \in Finishing
    BY <1>1 DEF CheckCancels, TypeOK, TaskType, Finishing, Checkpoint
  <2>3. task'[r].pc \in Finishing
    BY <1>1 DEF CheckCancels, TypeOK, TaskType, Finishing
  <2> QED
    BY <2>1, <2>2, <2>3, AnswerKeeps DEF TypeOK, CallType, AcksFinish
<1>2. ASSUME NEW r \in Runs, MarkRunning(r) PROVE RequestsMatch' /\ AcksFinish'
  <2>1. Answer(r, "dropped") \/ UNCHANGED <<chan, call>>
    BY <1>2 DEF MarkRunning, TaskEnds
  <2>2. \A q \in Runs : task[q].pc \in Finishing => task'[q].pc \in Finishing
    BY <1>2 DEF MarkRunning, TaskEnds, TypeOK, TaskType, Finishing
  <2> QED
    BY <2>1, <2>2, AnswerKeeps DEF TypeOK, CallType, AcksFinish
<1>3. ASSUME NEW r \in Runs, WaitCancelled(r) PROVE RequestsMatch' /\ AcksFinish'
  <2>1. PICK ok \in BOOLEAN :
          /\ Answer(r, IF ok THEN "ok" ELSE "err")
          /\ task' = IF ok THEN [task EXCEPT ![r].pc = "finish", ![r].result = "cancelled"]
                     ELSE [task EXCEPT ![r].pc = "after", ![r].result = "error"]
    BY <1>3 DEF WaitCancelled
  <2>2. task[r].pc \notin Finishing /\ "finish" \in Finishing
    BY <1>3 DEF WaitCancelled, Finishing
  <2> QED
    BY <2>1, <2>2, AnswerKeeps DEF TypeOK, TaskType, CallType, AcksFinish
<1>4. ASSUME NEW r \in Runs, DelayCancelled(r) PROVE RequestsMatch' /\ AcksFinish'
  <2>1. Answer(r, "ok") \/ UNCHANGED <<chan, call>>
    BY <1>4 DEF DelayCancelled
  <2>2. \A q \in Runs : task[q].pc \in Finishing => task'[q].pc \in Finishing
    BY <1>4 DEF DelayCancelled, TypeOK, TaskType, Finishing
  <2>3. task'[r].pc \in Finishing
    BY <1>4 DEF DelayCancelled, TypeOK, TaskType, Finishing
  <2> QED
    BY <2>1, <2>2, <2>3, AnswerKeeps DEF TypeOK, CallType, AcksFinish
<1>5. ASSUME NEW r \in Runs, FinishRead(r) PROVE RequestsMatch' /\ AcksFinish'
  <2>1. Answer(r, "dropped") \/ UNCHANGED <<chan, call>>
    BY <1>5 DEF FinishRead, TaskEnds
  <2>2. \A q \in Runs : task[q].pc \in Finishing => task'[q].pc \in Finishing
    BY <1>5 DEF FinishRead, TaskEnds, TypeOK, TaskType, Finishing
  <2> QED
    BY <2>1, <2>2, AnswerKeeps DEF TypeOK, CallType, AcksFinish
<1>5a. ASSUME NEW r \in Runs, FinishJudge(r) PROVE RequestsMatch' /\ AcksFinish'
  <2>1. \A q \in Runs : task[q].pc \in Finishing => task'[q].pc \in Finishing
    BY <1>5a DEF FinishJudge, TypeOK, TaskType, Finishing
  <2> QED
    BY <1>5a, <2>1 DEF FinishJudge, TypeOK, CallType, RequestsMatch, AcksFinish
<1>6. ASSUME NEW r \in Runs, FinishWrite(r) PROVE RequestsMatch' /\ AcksFinish'
  <2>1. Answer(r, "dropped") \/ UNCHANGED <<chan, call>>
    BY <1>6 DEF FinishWrite, TaskEnds
  <2>2. \A q \in Runs : task[q].pc \in Finishing => task'[q].pc \in Finishing
    BY <1>6 DEF FinishWrite, TaskEnds, TypeOK, TaskType, Finishing
  <2> QED
    BY <2>1, <2>2, AnswerKeeps DEF TypeOK, CallType, AcksFinish
<1>7. ASSUME NEW r \in Runs, FinishClear(r) PROVE RequestsMatch' /\ AcksFinish'
  <2>1. Answer(r, "dropped") \/ UNCHANGED <<chan, call>>
    BY <1>7 DEF FinishClear, TaskEnds
  <2>2. \A q \in Runs : task[q].pc \in Finishing => task'[q].pc \in Finishing
    BY <1>7 DEF FinishClear, TaskEnds, TypeOK, TaskType, Finishing
  <2> QED
    BY <2>1, <2>2, AnswerKeeps DEF TypeOK, CallType, AcksFinish
<1>7a. ASSUME NEW r \in Runs, SelectPanics(r) PROVE RequestsMatch' /\ AcksFinish'
  <2>1. Answer(r, "dropped") \/ UNCHANGED <<chan, call>>
    BY <1>7a DEF SelectPanics, TaskEnds
  <2>2. \A q \in Runs : task[q].pc \in Finishing => task'[q].pc \in Finishing
    BY <1>7a DEF SelectPanics, TaskEnds, TypeOK, TaskType, Finishing
  <2> QED
    BY <2>1, <2>2, AnswerKeeps DEF TypeOK, CallType, AcksFinish
<1>8. ASSUME NEW r \in Runs, CheckWaits(r) PROVE RequestsMatch' /\ AcksFinish'
  BY <1>8 DEF CheckWaits, Checkpoint, TypeOK, ChanType, CallType, TaskType, RequestsMatch,
     AcksFinish, Finishing
<1>9. ASSUME NEW r \in Runs, CheckPasses(r) PROVE RequestsMatch' /\ AcksFinish'
  BY <1>9 DEF CheckPasses, PassedCheck, Checkpoint, TypeOK, ChanType, CallType, TaskType,
     RequestsMatch, AcksFinish, Finishing
<1>10. ASSUME NEW r \in Runs, RecordAttempt(r) PROVE RequestsMatch' /\ AcksFinish'
  BY <1>10 DEF RecordAttempt, TypeOK, ChanType, CallType, TaskType, RequestsMatch,
     AcksFinish, Finishing
<1>11. ASSUME NEW r \in Runs, SpawnChild(r) PROVE RequestsMatch' /\ AcksFinish'
  BY <1>11 DEF SpawnChild, TypeOK, ChanType, CallType, TaskType, RequestsMatch,
     AcksFinish, Finishing
<1>12. ASSUME NEW r \in Runs, SpawnFails(r) PROVE RequestsMatch' /\ AcksFinish'
  BY <1>12 DEF SpawnFails, TypeOK, ChanType, CallType, TaskType, RequestsMatch,
     AcksFinish, Finishing
<1>13. ASSUME NEW r \in Runs, WaitSucceeds(r) PROVE RequestsMatch' /\ AcksFinish'
  BY <1>13 DEF WaitSucceeds, TypeOK, ChanType, CallType, TaskType, RequestsMatch,
     AcksFinish, Finishing
<1>14. ASSUME NEW r \in Runs, WaitFails(r) PROVE RequestsMatch' /\ AcksFinish'
  BY <1>14 DEF WaitFails, TypeOK, ChanType, CallType, TaskType, RequestsMatch, AcksFinish,
     Finishing
<1>15. ASSUME NEW r \in Runs, WaitTimesOut(r) PROVE RequestsMatch' /\ AcksFinish'
  BY <1>15 DEF WaitTimesOut, TypeOK, ChanType, CallType, TaskType, RequestsMatch,
     AcksFinish, Finishing
<1>16. ASSUME NEW r \in Runs, DelayEnds(r) PROVE RequestsMatch' /\ AcksFinish'
  BY <1>16 DEF DelayEnds, TypeOK, ChanType, CallType, TaskType, RequestsMatch, AcksFinish,
     Finishing
<1>17. ASSUME NEW r \in Runs, ClearBeforeFail(r) PROVE RequestsMatch' /\ AcksFinish'
  BY <1>17 DEF ClearBeforeFail, TypeOK, ChanType, CallType, TaskType, RequestsMatch,
     AcksFinish, Finishing
<1>18. ASSUME NEW r \in Runs, FinishDrop(r) PROVE RequestsMatch' /\ AcksFinish'
  BY <1>18 DEF FinishDrop, DropCanceller, TypeOK, ChanType, CallType, TaskType,
     RequestsMatch, AcksFinish, Finishing
<1>19. ASSUME NEW r \in Runs, StartInsert(r) PROVE RequestsMatch' /\ AcksFinish'
  BY <1>19 DEF StartInsert, TypeOK, ChanType, CallType, TaskType, RequestsMatch,
     AcksFinish, Finishing
<1>20. ASSUME NEW r \in Runs, StartRegister(r) PROVE RequestsMatch' /\ AcksFinish'
  BY <1>20 DEF StartRegister, TypeOK, ChanType, CallType, TaskType, RequestsMatch,
     AcksFinish, Finishing
<1>21. ASSUME NEW r \in Runs, WaitBreaks(r) PROVE RequestsMatch' /\ AcksFinish'
  BY <1>21 DEF WaitBreaks, TypeOK, ChanType, CallType, TaskType, RequestsMatch,
     AcksFinish, Finishing
<1>22. ASSUME NEW r \in Runs, ShellExits(r) PROVE RequestsMatch' /\ AcksFinish'
  BY <1>22 DEF ShellExits, TypeOK, ChanType, CallType, TaskType, RequestsMatch,
     AcksFinish, Finishing
<1>23. ASSUME NEW r \in Runs, PipesClose(r) PROVE RequestsMatch' /\ AcksFinish'
  BY <1>23 DEF PipesClose, TypeOK, ChanType, CallType, TaskType, RequestsMatch,
     AcksFinish, Finishing
<1>23a. ASSUME NEW r \in Runs, BackgroundEnds(r) PROVE RequestsMatch' /\ AcksFinish'
  BY <1>23a DEF BackgroundEnds, TypeOK, ChanType, CallType, TaskType, RequestsMatch,
     AcksFinish, Finishing
<1>24. ASSUME NEW c \in Callers, CancelFind(c) PROVE RequestsMatch' /\ AcksFinish'
  BY <1>24 DEF CancelFind, TypeOK, ChanType, CallType, TaskType, RequestsMatch,
     AcksFinish, Finishing
<1>25. ASSUME NEW c \in Callers, CancelMark(c) PROVE RequestsMatch' /\ AcksFinish'
  BY <1>25 DEF CancelMark, TypeOK, ChanType, CallType, TaskType, RequestsMatch,
     AcksFinish, Finishing
<1>26. ASSUME NEW c \in Callers, CancelTake(c) PROVE RequestsMatch' /\ AcksFinish'
  BY <1>26 DEF CancelTake, TypeOK, ChanType, CallType, TaskType, RequestsMatch,
     AcksFinish, Finishing
<1>27. ASSUME NEW c \in Callers, CancelSend(c) PROVE RequestsMatch' /\ AcksFinish'
  <2>1. UNCHANGED task
    BY <1>27 DEF CancelSend
  <2>2. \A b \in Callers : call'[b].run = call[b].run /\ (call'[b].ack = "ok" => call[b].ack = "ok")
    BY <1>27 DEF CancelSend, TypeOK, CallType
  <2>3. \A q \in Runs : chan'[q] = chan[q] \/ (chan'[q].by = c /\ q = call[c].run)
    BY <1>27 DEF CancelSend, TypeOK, ChanType
  <2> QED
    BY <2>1, <2>2, <2>3 DEF TypeOK, CallType, RequestsMatch, AcksFinish
<1>28. ASSUME NEW c \in Callers, CancelGivesUp(c) PROVE RequestsMatch' /\ AcksFinish'
  BY <1>28 DEF CancelGivesUp, TypeOK, ChanType, CallType, TaskType, RequestsMatch,
     AcksFinish, Finishing
<1>29. ASSUME NEW c \in Callers, CancelConfirmed(c) PROVE RequestsMatch' /\ AcksFinish'
  BY <1>29 DEF CancelConfirmed, TypeOK, ChanType, CallType, TaskType, RequestsMatch,
     AcksFinish, Finishing
<1>30. ASSUME NEW c \in Callers, CancelRefused(c) PROVE RequestsMatch' /\ AcksFinish'
  BY <1>30 DEF CancelRefused, TypeOK, ChanType, CallType, TaskType, RequestsMatch,
     AcksFinish, Finishing
<1>31. ASSUME NEW c \in Callers, CancelDropped(c) PROVE RequestsMatch' /\ AcksFinish'
  BY <1>31 DEF CancelDropped, TypeOK, ChanType, CallType, TaskType, RequestsMatch,
     AcksFinish, Finishing
<1>32. ASSUME NEW c \in Callers, CancelRecheck(c) PROVE RequestsMatch' /\ AcksFinish'
  BY <1>32 DEF CancelRecheck, TypeOK, ChanType, CallType, TaskType, RequestsMatch,
     AcksFinish, Finishing
<1>33. ASSUME NEW c \in Callers, CancelTimesOut(c) PROVE RequestsMatch' /\ AcksFinish'
  BY <1>33 DEF CancelTimesOut, TypeOK, ChanType, CallType, TaskType, RequestsMatch,
     AcksFinish, Finishing
<1>34. ASSUME NEW c \in Callers, CancelUpdate(c) PROVE RequestsMatch' /\ AcksFinish'
  BY <1>34 DEF CancelUpdate, TypeOK, ChanType, CallType, TaskType, RequestsMatch,
     AcksFinish, Finishing
<1>35. ASSUME NEW c \in Callers, CancelPollEnds(c) PROVE RequestsMatch' /\ AcksFinish'
  BY <1>35 DEF CancelPollEnds, TypeOK, ChanType, CallType, TaskType, RequestsMatch,
     AcksFinish, Finishing
<1>36. ASSUME NEW s \in Sweepers, SweepStep(s) PROVE RequestsMatch' /\ AcksFinish'
  <2>1. UNCHANGED <<task, call>>
    BY <1>36 DEF SweepStep, SweepList, SweepNext, SweepEnds, SweepRead, SweepJudge,
       SweepWrite, SweepDrop, SweepClear
  <2>2. \A r \in Runs : chan'[r].state = "sent" => chan'[r] = chan[r]
    <3>1. CASE SweepDrop(s)
      BY <3>1 DEF SweepDrop, DropCanceller, TypeOK, ChanType, SweepType
    <3>2. CASE UNCHANGED chan
      BY <3>2
    <3> QED
      BY <1>36, <3>1, <3>2 DEF SweepStep, SweepList, SweepNext, SweepEnds, SweepRead,
         SweepJudge, SweepWrite, SweepClear
  <2> QED
    BY <2>1, <2>2 DEF RequestsMatch, AcksFinish
<1>37. CASE Crash
  <2>1. RequestsMatch'
    BY <1>37 DEF Crash, RequestsMatch
  <2>2. \A c \in Callers : call'[c].run = call[c].run /\ call'[c].ack = call[c].ack
    BY <1>37 DEF Crash, TypeOK, CallType
  <2>3. \A r \in Runs : task[r].pc \in Finishing => task'[r].pc \in Finishing
    BY <1>37 DEF Crash, TypeOK, TaskType, Finishing
  <2> QED
    BY <2>1, <2>2, <2>3 DEF TypeOK, CallType, AcksFinish
<1>38. CASE UNCHANGED vars
  BY <1>38 DEF vars, RequestsMatch, AcksFinish
<1> QED
  BY <1>1, <1>2, <1>3, <1>4, <1>5, <1>5a, <1>6, <1>7, <1>7a, <1>8, <1>9, <1>10, <1>11, <1>12,
     <1>13, <1>14, <1>15, <1>16, <1>17, <1>18, <1>19, <1>20, <1>21, <1>22, <1>23, <1>23a, <1>24, <1>25,
     <1>26, <1>27, <1>28, <1>29, <1>30, <1>31, <1>32, <1>33, <1>34, <1>35, <1>36, <1>37,
     <1>38 DEF Next, TaskStep, CancelStep

LEMMA InvInit == Init => Inv
<1> SUFFICES ASSUME Init PROVE Inv
  OBVIOUS
<1>1. TypeOK
  BY DEF Init, TypeOK, RowType, ChanType, TaskType, ProcType, CallType, SweepType, Status,
         TaskPc, CallPc, SweepPc, Outcome
<1>2. RequestsMatch /\ AcksFinish
  BY DEF Init, RequestsMatch, AcksFinish
<1>3. AttemptCounted
  <2>1. \A r \in Runs : /\ task[r].attempt = 1 /\ proc[r].spawned = 0
                      /\ ~task[r].retry /\ task[r].pc = "none"
    BY DEF Init
  <2>2. ASSUME NEW r \in Runs PROVE AttemptCountedFor(r)
    <3>1. 1 <= MaxRetries + 1
      BY ConstantsAssumption DEF ConstantsAssumption
    <3> QED
      BY <2>1, <3>1 DEF AttemptCountedFor
  <2> QED
    BY <2>2 DEF AttemptCounted
<1>4. ResultTrue /\ SuccessLast /\ SweepsFail
  BY DEF Init, ResultTrue, ResultTrueFor, SuccessLast, SuccessLastFor, SweepsFail
<1> QED
  BY <1>1, <1>2, <1>3, <1>4 DEF Inv

LEMMA Invariance == Spec => []Inv
<1>1. Init => Inv
  BY InvInit
<1>2. Inv /\ [Next]_vars => Inv'
  BY TypeNext, RunNext, AckNext DEF Inv
<1> QED
  BY <1>1, <1>2, PTL DEF Spec

-----------------------------------------------------------------------------
(* The theorems *)

\* Every variable keeps its type; in particular no interleaving makes finish_run or
\* cancel_run write anything but a final status.
THEOREM TypeCorrect == Spec => []TypeOK
<1>1. Inv => TypeOK
  BY DEF Inv
<1> QED
  BY <1>1, Invariance, PTL

\* execute_with_retries starts the script at most MaxRetries times more than once, and
\* once only when retries are off.
THEOREM StartsBounded == Spec => []AttemptsBounded
<1>1. ASSUME Inv PROVE AttemptsBounded
  <2> SUFFICES ASSUME NEW r \in Runs
               PROVE  proc[r].spawned <= IF task[r].retry THEN MaxRetries + 1 ELSE 1
    BY DEF AttemptsBounded
  <2>1. /\ proc[r].spawned \in Nat /\ task[r].attempt \in Nat
        /\ MaxRetries \in Nat
    BY <1>1, ConstantsAssumption DEF Inv, TypeOK, TaskType, ProcType, ConstantsAssumption
  <2> QED
    BY <1>1, <2>1 DEF Inv, AttemptCounted, AttemptCountedFor
<1> QED
  BY <1>1, Invariance, PTL

\* A record says success only of a script that exited with code 0 and whose output is over,
\* whatever sweeps, cancel calls, failures and crashes came between.
THEOREM SuccessIsTrue == Spec => []SuccessMeansZeroExit
<1>1. Inv => SuccessMeansZeroExit
  BY DEF Inv, SuccessLast, SuccessLastFor, Succeeded, SuccessMeansZeroExit, ScriptOpen
<1> QED
  BY <1>1, Invariance, PTL

LEMMA OnlySpawnStarts ==
  ASSUME Inv, Next, NEW r \in Runs, proc'[r].spawned # proc[r].spawned
  PROVE  /\ task[r].pc = "spawn"
         /\ proc'[r].spawned = proc[r].spawned + 1
<1>1. ASSUME NEW q \in Runs, SpawnChild(q) PROVE q = r /\ task[r].pc = "spawn"
                                                /\ proc'[r].spawned = proc[r].spawned + 1
  BY <1>1 DEF SpawnChild, Inv, TypeOK, ProcType
<1>2. CASE \A q \in Runs : ~SpawnChild(q)
  <2>1. ASSUME NEW q \in Runs,
               WaitFails(q) \/ WaitTimesOut(q) \/ WaitCancelled(q) \/ ShellExits(q)
               \/ PipesClose(q) \/ BackgroundEnds(q)
        PROVE  FALSE
    BY <2>1 DEF WaitFails, WaitTimesOut, WaitCancelled, ShellExits, PipesClose, BackgroundEnds,
               TerminateProcessTree, Inv, TypeOK, ProcType
  <2>2. CASE UNCHANGED proc
    BY <2>2
  <2> QED
    BY ZenonT(60), <1>2, <2>1, <2>2
       DEF Next, TaskStep, CancelStep, SweepStep, StartInsert, StartRegister, WaitBreaks,
           CheckWaits, CheckCancels, CheckPasses, MarkRunning, RecordAttempt, SpawnFails,
           WaitSucceeds, DelayEnds, DelayCancelled, SelectPanics, ClearBeforeFail, FinishRead,
           FinishJudge, FinishWrite, FinishDrop, FinishClear, Crash, CancelFind,
           CancelMark, CancelTake, CancelSend, CancelGivesUp, CancelConfirmed,
           CancelRefused, CancelDropped, CancelRecheck, CancelTimesOut, CancelUpdate,
           CancelPollEnds, SweepList, SweepNext, SweepEnds, SweepRead, SweepJudge,
           SweepWrite, SweepDrop, SweepClear
<1> QED
  BY <1>1, <1>2

\* A script is started again only when its previous process group is gone and its shell
\* failed by itself.
THEOREM RetriesOnlyFailures == Spec => RetryOnlyAfterFailure
<1> DEFINE Legal ==
      \A r \in Runs :
        proc'[r].spawned > proc[r].spawned =>
          \/ proc[r].spawned = 0
          \/ proc[r].state = "gone" /\ proc[r].exit \in {"nonzero", "signal"}
<1>1. ASSUME Inv, Next PROVE Legal
  <2> SUFFICES ASSUME NEW r \in Runs, proc'[r].spawned > proc[r].spawned
               PROVE  proc[r].spawned = 0 \/ Failed(r)
    BY DEF Failed
  <2>1. proc[r].spawned \in Nat
    BY <1>1 DEF Inv, TypeOK, ProcType
  <2>2. proc'[r].spawned # proc[r].spawned
    BY <1>1, <2>1, TypeNext DEF TypeOK, ProcType
  <2>3. task[r].pc = "spawn"
    BY <1>1, <2>2, OnlySpawnStarts
  <2> QED
    BY <1>1, <2>1, <2>3 DEF Inv, ResultTrue, ResultTrueFor
<1>2. Inv /\ [Next]_vars => [Legal]_vars
  BY <1>1
<1>3. [][Legal]_vars => RetryOnlyAfterFailure
  BY PTL DEF RetryOnlyAfterFailure
<1> QED
  BY <1>2, <1>3, Invariance, PTL DEF Spec

\* After take_pending_cancel, wait_for_child or the retry delay has answered a cancel
\* request with Ok, the script of that run never starts again.
THEOREM NoStartsAfterAck == Spec => NoStartAfterAck
<1> DEFINE Legal ==
      \A c \in Callers :
        call[c].ack = "ok" =>
          proc'[call[c].run].spawned = proc[call[c].run].spawned
<1>1. ASSUME Inv, Next PROVE Legal
  <2> SUFFICES ASSUME NEW c \in Callers, call[c].ack = "ok",
                      proc'[call[c].run].spawned # proc[call[c].run].spawned
               PROVE  FALSE
    OBVIOUS
  <2>1. call[c].run \in Runs /\ task[call[c].run].pc \in Finishing
    BY <1>1 DEF Inv, TypeOK, CallType, AcksFinish
  <2>2. task[call[c].run].pc = "spawn"
    BY <1>1, <2>1, OnlySpawnStarts
  <2> QED
    BY <2>1, <2>2 DEF Finishing
<1>2. Inv /\ [Next]_vars => [Legal]_vars
  BY <1>1
<1>3. [][Legal]_vars => NoStartAfterAck
  BY PTL DEF NoStartAfterAck
<1> QED
  BY <1>2, <1>3, Invariance, PTL DEF Spec
=============================================================================
