------------------------ MODULE CommandPipelineProofs -----------------------
(***************************************************************************)
(* Theorems about CommandPipeline for every number of searches, workers,   *)
(* message copies, retries, faults and ticks.  Each step of the pipeline   *)
(* is one transaction of the command store or leaves the store alone, so   *)
(* what CommandStoreProofs proves holds of the running system.             *)
(***************************************************************************)
EXTENDS CommandPipeline, CommandStoreProofs

-----------------------------------------------------------------------------
(* What the queue and the processes hold *)

\* A message in the queue is about a search and within its deliveries.
SoundMessage ==
  {m \in Message :
     /\ m.state # "free" => m.cmd \in Searches
     /\ m.state \in {"waiting", "active"} => m.starts <= Budget}

\* A worker with a message knows its command, and past a claim its fence.
Claimed == Handling \union {"overspent"}

SoundConsumer ==
  {c \in Consumer :
     /\ c.pc # "idle" => c.cmd \in Searches
     /\ c.pc \in Claimed => c.fence > 0
     /\ c.fence > 0 => c.cmd \in Searches}

SoundPublisher ==
  {p \in PublisherState :
     /\ p.pc \in {"mark", "judge"} => p.cmd \in Searches
     /\ p.pc = "judge" <=> p.fence > 0}

Shape ==
  /\ TypeOK
  /\ copy \in [Copies -> SoundMessage]
  /\ worker \in [Workers -> SoundConsumer]
  /\ publisher \in SoundPublisher
  /\ faults \in 0..MaxFaults

LEMMA ShapeIsTyped == Shape => PipelineTypeOK
BY DEF Shape, PipelineTypeOK, SoundMessage, SoundConsumer, SoundPublisher

LEMMA NoMessageIsSound == NoMessage \in SoundMessage
BY BudgetAssumption, LeaseAssumption DEF NoMessage, SoundMessage, Message

LEMMA IdleWorkerIsSound == IdleWorker \in SoundConsumer
BY FenceAssumption, BudgetAssumption
   DEF IdleWorker, SoundConsumer, Consumer, Claimed, Handling

LEMMA IdlePublisherIsSound == IdlePublisher \in SoundPublisher
BY FenceAssumption DEF IdlePublisher, SoundPublisher, PublisherState

LEMMA ShapeInit == Init => Shape
BY TypeInit, NoMessageIsSound, IdleWorkerIsSound, IdlePublisherIsSound, FaultsAssumption
   DEF Init, Shape

-----------------------------------------------------------------------------
(* Every step is a step of the store *)

LEMMA UnfencedCalls ==
  ASSUME NEW s \in Searches
  PROVE  /\ \A req \in Request : CreateSearch(s, req, FALSE, FALSE) => StoreNext
         /\ CancelSearch(s) => StoreNext
         /\ Published(s) => StoreNext
         /\ Claim(s) => StoreNext
BY DEF StoreNext

LEMMA FencedCalls ==
  ASSUME NEW s \in Searches, NEW fence \in 1..MaxFence
  PROVE  /\ Renew(s, fence) => StoreNext
         /\ Release(s, fence) => StoreNext
         /\ StartSearch(s, fence) => StoreNext
         /\ Fail(s, fence) => StoreNext
         /\ \A sourceOf \in Postings, outcomes \in Outcomes :
              CompleteCollection(s, fence, sourceOf, outcomes) => StoreNext
BY DEF StoreNext

LEMMA TryCalls ==
  ASSUME NEW s \in Searches, NEW fence \in 1..MaxFence,
         TryFail(s, fence) \/ TryRelease(s, fence)
  PROVE  [StoreNext]_storeVars
BY FencedCalls DEF TryFail, TryRelease

\* A claimed command of a worker has the fence of some claim.
LEMMA ClaimedFence ==
  ASSUME Shape, NEW w \in Workers, worker[w].pc \in Claimed
  PROVE  worker[w].cmd \in Searches /\ worker[w].fence \in 1..MaxFence
<1>1. worker[w] \in SoundConsumer
  BY DEF Shape
<1>. QED
  BY <1>1, FenceAssumption DEF SoundConsumer, Consumer

LEMMA WorkerStepsStore ==
  ASSUME Shape, NEW w \in Workers, WorkerStep(w) \/ Heartbeat(w)
  PROVE  [StoreNext]_storeVars
<1>. USE FenceAssumption
<1>1. ASSUME NEW m \in Copies, Receive(w, m)
      PROVE  UNCHANGED storeVars
  BY <1>1 DEF Receive
<1>2. CASE TakeUp(w)
  <2>1. worker[w].cmd \in Searches
    BY <1>2 DEF TakeUp, Shape, SoundConsumer
  <2>2. Claim(worker[w].cmd) \/ UNCHANGED storeVars
    BY <1>2 DEF TakeUp
  <2>. QED
    BY <2>1, <2>2, UnfencedCalls
<1>3. CASE AnswerRefused(w) \/ ReadSearch(w) \/ EndCollection(w) \/ Acknowledge(w)
  BY <1>3 DEF AnswerRefused, ReadSearch, EndCollection, Acknowledge
<1>4. CASE FailOverspent(w)
  BY <1>4, ClaimedFence, TryCalls DEF FailOverspent, Claimed
<1>5. CASE Begin(w)
  <2>1. worker[w].pc \in Claimed
    BY <1>5 DEF Begin, Claimed, Handling
  <2>. QED
    BY <1>5, <2>1, ClaimedFence, FencedCalls DEF Begin
<1>6. CASE Commit(w)
  <2>1. worker[w].pc \in Claimed
    BY <1>6 DEF Commit, Claimed, Handling
  <2>. QED
    BY <1>6, <2>1, ClaimedFence, FencedCalls DEF Commit
<1>7. CASE Recover(w)
  <2>1. worker[w].pc \in Claimed
    BY <1>7 DEF Recover, Claimed, Handling
  <2>. QED
    BY <1>7, <2>1, ClaimedFence, TryCalls DEF Recover
<1>8. CASE BackOff(w)
  <2>1. worker[w].pc \in Claimed
    BY <1>8 DEF BackOff, Claimed, Handling
  <2>. QED
    BY <1>8, <2>1, ClaimedFence, TryCalls DEF BackOff
<1>9. CASE Heartbeat(w)
  <2>1. worker[w].pc \in Claimed
    BY <1>9 DEF Heartbeat, Claimed
  <2>. QED
    BY <1>9, <2>1, ClaimedFence, FencedCalls DEF Heartbeat
<1>. QED
  BY <1>1, <1>2, <1>3, <1>4, <1>5, <1>6, <1>7, <1>8, <1>9 DEF WorkerStep

LEMMA PublisherStepsStore ==
  ASSUME Shape, PublisherStep
  PROVE  [StoreNext]_storeVars
<1>. USE FenceAssumption
<1>1. CASE Poll \/ NoLetter
  BY <1>1 DEF Poll, NoLetter
<1>2. ASSUME NEW s \in Searches, Send(s)
      PROVE  UNCHANGED storeVars
  BY <1>2 DEF Send
<1>3. CASE Mark
  <2>1. publisher.cmd \in Searches
    BY <1>3 DEF Mark, Shape, SoundPublisher
  <2>. QED
    BY <1>3, <2>1, UnfencedCalls DEF Mark
<1>4. ASSUME NEW m \in Copies, ClaimLetter(m)
      PROVE  [StoreNext]_storeVars
  <2>1. copy[m].cmd \in Searches
    BY <1>4 DEF ClaimLetter, Shape, SoundMessage
  <2>2. Claim(copy[m].cmd) \/ UNCHANGED storeVars
    BY <1>4 DEF ClaimLetter
  <2>. QED
    BY <2>1, <2>2, UnfencedCalls
<1>5. CASE JudgeLetter
  <2>1. publisher.cmd \in Searches /\ publisher.fence > 0
    BY <1>5 DEF JudgeLetter, Shape, SoundPublisher
  <2>2. publisher.fence \in 0..MaxFence
    BY DEF Shape, SoundPublisher, PublisherState
  <2>. QED
    BY <1>5, <2>1, <2>2, TryCalls DEF JudgeLetter
<1>. QED
  BY <1>1, <1>2, <1>3, <1>4, <1>5 DEF PublisherStep

LEMMA StepsStore ==
  ASSUME Shape, [Next]_vars
  PROVE  [StoreNext]_storeVars
<1>1. CASE UNCHANGED vars
  BY <1>1 DEF vars, storeVars
<1>2. ASSUME NEW s \in Searches, Submit(s) \/ Cancel(s)
      PROVE  StoreNext
  BY <1>2, UnfencedCalls DEF Submit, Cancel
<1>3. CASE Tick \/ Stall
  BY <1>3 DEF Tick, Stall, PassTime, StoreNext
<1>4. ASSUME NEW w \in Workers, Restart(w) \/ Crash(w) \/ Shutdown(w)
      PROVE  UNCHANGED storeVars
  BY <1>4 DEF Restart, Crash, Shutdown
<1>5. ASSUME NEW m \in Copies, Redeliver(m) \/ Lose(m)
      PROVE  UNCHANGED storeVars
  BY <1>5 DEF Redeliver, Lose
<1>6. CASE PublisherRestart
  BY <1>6 DEF PublisherRestart
<1>. QED
  BY <1>1, <1>2, <1>3, <1>4, <1>5, <1>6, WorkerStepsStore, PublisherStepsStore DEF Next

-----------------------------------------------------------------------------
(* Every step keeps the shape of the queue and the processes *)

LEMMA MessageSet ==
  ASSUME Shape, NEW m, NEW row \in SoundMessage
  PROVE  [copy EXCEPT ![m] = row] \in [Copies -> SoundMessage]
BY DEF Shape

LEMMA NewMessageIsSound ==
  ASSUME NEW s \in Searches
  PROVE  NewMessage(s) \in SoundMessage
BY BudgetAssumption, LeaseAssumption DEF NewMessage, SoundMessage, Message

LEMMA LockSet ==
  ASSUME Shape, NEW m, NEW lock \in 0..LeaseTicks
  PROVE  [copy EXCEPT ![m].lock = lock] \in [Copies -> SoundMessage]
<1>1. \A row \in SoundMessage : [row EXCEPT !.lock = lock] \in SoundMessage
  BY DEF SoundMessage, Message
<1>. QED
  BY <1>1 DEF Shape

LEMMA MessageLapses ==
  ASSUME NEW row \in SoundMessage
  PROVE  [row EXCEPT !.lock = IF @ > 0 THEN @ - 1 ELSE 0] \in SoundMessage
<1>. DEFINE left == IF row.lock > 0 THEN row.lock - 1 ELSE 0
<1>1. left \in 0..LeaseTicks
  BY LeaseAssumption DEF SoundMessage, Message
<1>. HIDE DEF left
<1>2. [row EXCEPT !.lock = left] \in SoundMessage
  BY <1>1 DEF SoundMessage, Message
<1>. QED
  BY <1>2 DEF left

LEMMA CopiesStep ==
  ASSUME Shape, [Next]_vars
  PROVE  copy' \in [Copies -> SoundMessage]
<1>. DEFINE Kept == copy' \in [Copies -> SoundMessage]
<1>. USE LeaseAssumption, BudgetAssumption
<1>1. UNCHANGED copy => Kept
  BY DEF Shape
<1>2. ASSUME NEW s \in Searches, Submit(s) \/ Cancel(s)
      PROVE  UNCHANGED copy
  BY <1>2 DEF Submit, Cancel, queueVars
<1>3. CASE PublisherStep
  <2>1. ASSUME NEW s \in Searches, Send(s)
        PROVE  Kept
    BY <2>1, NewMessageIsSound, MessageSet DEF Send
  <2>2. ASSUME NEW m \in Copies, ClaimLetter(m)
        PROVE  UNCHANGED copy
    BY <2>2 DEF ClaimLetter, queueVars
  <2>3. CASE Poll \/ Mark \/ NoLetter \/ JudgeLetter
    BY <2>3, <1>1 DEF Poll, Mark, NoLetter, JudgeLetter, queueVars
  <2>. QED
    BY <1>1, <1>3, <2>1, <2>2, <2>3 DEF PublisherStep
<1>4. ASSUME NEW w \in Workers, NEW m \in Copies, Receive(w, m)
      PROVE  Kept
  <2>. DEFINE starts == copy[m].starts + 1
              dead == [copy[m] EXCEPT !.state = "dead", !.starts = starts]
              active == [state |-> "active", cmd |-> copy[m].cmd, starts |-> starts,
                         lock |-> LeaseTicks, holder |-> w]
  <2>1. /\ copy[m] \in Message /\ copy[m].cmd \in Searches
        /\ starts \in 0..(Budget + 1)
    BY <1>4 DEF Shape, Receive, SoundMessage, Message
  <2>2. \/ copy' = [copy EXCEPT ![m] = dead]
        \/ copy' = [copy EXCEPT ![m] = active] /\ ~TooOften(starts)
    BY <1>4 DEF Receive
  <2>3. dead \in Message /\ dead.state = "dead" /\ dead.cmd \in Searches
    BY <2>1 DEF Message
  <2>4. dead \in SoundMessage
    BY <2>3 DEF SoundMessage
  <2>5. ~TooOften(starts) => active \in SoundMessage
    BY <2>1 DEF TooOften, SoundMessage, Message
  <2>. HIDE DEF dead, active
  <2>. QED
    BY <2>2, <2>4, <2>5, MessageSet
<1>5. ASSUME NEW w \in Workers, Acknowledged(w)
      PROVE  Kept
  BY <1>5, MessageSet, NoMessageIsSound DEF Acknowledged
<1>6. ASSUME NEW w \in Workers, AnswerRefused(w) \/ Acknowledge(w)
      PROVE  Kept
  BY <1>1, <1>5, <1>6 DEF AnswerRefused, Acknowledge, queueVars
<1>7. ASSUME NEW w \in Workers,
             \/ TakeUp(w) \/ FailOverspent(w) \/ ReadSearch(w) \/ Begin(w)
             \/ EndCollection(w) \/ Commit(w) \/ Recover(w)
      PROVE  UNCHANGED copy
  BY <1>7 DEF TakeUp, FailOverspent, ReadSearch, Begin, EndCollection, Commit, Recover, queueVars
<1>8. ASSUME NEW w \in Workers, BackOff(w)
      PROVE  Kept
  <2>1. copy' = [copy EXCEPT ![worker[w].msg].lock = BackoffTicks] \/ UNCHANGED copy
    BY <1>8 DEF BackOff, queueVars
  <2>2. BackoffTicks \in 0..LeaseTicks
    BY BackoffAssumption
  <2>. QED
    BY <1>1, <2>1, <2>2, LockSet
<1>9. ASSUME NEW w \in Workers, Heartbeat(w)
      PROVE  Kept
  <2>1. copy' = [copy EXCEPT ![worker[w].msg].lock = LeaseTicks] \/ UNCHANGED copy
    BY <1>9 DEF Heartbeat, queueVars
  <2>. QED
    BY <1>1, <2>1, LockSet
<1>10. ASSUME NEW m \in Copies, Redeliver(m)
       PROVE  Kept
  <2>. DEFINE row == [copy[m] EXCEPT !.state = "waiting", !.holder = NoWorker]
  <2>1. copy[m] \in SoundMessage /\ copy[m].state = "active"
    BY <1>10 DEF Shape, Redeliver
  <2>2. row \in SoundMessage
    BY <2>1 DEF SoundMessage, Message
  <2>3. copy' = [copy EXCEPT ![m] = row]
    BY <1>10 DEF Redeliver, Shape
  <2>. QED
    BY <2>2, <2>3, MessageSet
<1>11. CASE PassTime
  BY <1>11, MessageLapses DEF PassTime, Shape
<1>12. ASSUME NEW m \in Copies, Lose(m)
       PROVE  Kept
  BY <1>12, MessageSet, NoMessageIsSound DEF Lose
<1>13. ASSUME NEW w \in Workers, Restart(w) \/ Crash(w) \/ Shutdown(w)
       PROVE  UNCHANGED copy
  BY <1>13 DEF Restart, Crash, Shutdown, queueVars
<1>14. CASE PublisherRestart \/ UNCHANGED vars
  BY <1>14, <1>1 DEF PublisherRestart, vars, queueVars
<1>. QED
  BY <1>1, <1>2, <1>3, <1>4, <1>6, <1>7, <1>8, <1>9, <1>10, <1>11, <1>12, <1>13, <1>14
     DEF Next, WorkerStep, Tick, Stall

\* A worker that moves on keeps its command and its fence; one that is done has
\* neither.
LEMMA GotoKeeps ==
  ASSUME Shape, NEW w \in Workers, NEW pc \in Handling \union {"refused"}, Goto(w, pc),
         worker[w].pc # "idle", pc \in Claimed => worker[w].pc \in Claimed
  PROVE  worker' \in [Workers -> SoundConsumer]
<1>1. worker[w] \in SoundConsumer
  BY DEF Shape
<1>. DEFINE c == [worker[w] EXCEPT !.pc = pc]
<1>2. c \in Consumer /\ c.pc = pc /\ c.fence = worker[w].fence /\ c.cmd = worker[w].cmd
  BY <1>1 DEF SoundConsumer, Consumer
<1>3. c \in SoundConsumer
  BY <1>1, <1>2 DEF SoundConsumer
<1>4. worker' = [worker EXCEPT ![w] = c]
  BY DEF Goto, Shape
<1>. HIDE DEF c
<1>. QED
  BY <1>3, <1>4 DEF Shape

LEMMA DoneKeeps ==
  ASSUME Shape, NEW w \in Workers, Done(w)
  PROVE  worker' \in [Workers -> SoundConsumer]
<1>1. worker[w].stopping \in BOOLEAN
  BY DEF Shape, SoundConsumer, Consumer
<1>2. \A c \in SoundConsumer, stop \in BOOLEAN : [c EXCEPT !.stopping = stop] \in SoundConsumer
  BY DEF SoundConsumer, Consumer
<1>3. [IdleWorker EXCEPT !.stopping = worker[w].stopping] \in SoundConsumer
  BY <1>1, <1>2, IdleWorkerIsSound
<1>. QED
  BY <1>3 DEF Done, Shape

LEMMA FlagKeeps ==
  ASSUME Shape, NEW w \in Workers,
         \/ worker' = [worker EXCEPT ![w].lostBeat = TRUE]
         \/ worker' = [worker EXCEPT ![w].stopping = TRUE]
         \/ worker' = [worker EXCEPT ![w] = IdleWorker]
  PROVE  worker' \in [Workers -> SoundConsumer]
<1>1. \A c \in SoundConsumer : /\ [c EXCEPT !.lostBeat = TRUE] \in SoundConsumer
                               /\ [c EXCEPT !.stopping = TRUE] \in SoundConsumer
  BY DEF SoundConsumer, Consumer
<1>. QED
  BY <1>1, IdleWorkerIsSound DEF Shape

LEMMA ReceiveKeeps ==
  ASSUME Shape, NEW w \in Workers, NEW m \in Copies, Receive(w, m)
  PROVE  worker' \in [Workers -> SoundConsumer]
<1>. DEFINE starts == copy[m].starts + 1
            c == [pc |-> "received", msg |-> m, cmd |-> copy[m].cmd, fence |-> 0,
                  count |-> starts, lostBeat |-> FALSE, stopping |-> FALSE]
<1>1. copy[m].cmd \in Searches /\ starts \in 0..(Budget + 1)
  BY BudgetAssumption DEF Shape, Receive, SoundMessage, Message
<1>2. \/ worker' = [worker EXCEPT ![w] = c] /\ ~TooOften(starts)
      \/ UNCHANGED worker
  BY DEF Receive
<1>3. ~TooOften(starts) => c \in SoundConsumer
  BY <1>1, BudgetAssumption, FenceAssumption
     DEF TooOften, SoundConsumer, Consumer, Claimed, Handling
<1>. HIDE DEF c
<1>. QED
  BY <1>2, <1>3 DEF Shape

LEMMA TakeUpKeeps ==
  ASSUME Shape, TypeOK', NEW w \in Workers, TakeUp(w)
  PROVE  worker' \in [Workers -> SoundConsumer]
<1>. DEFINE s == worker[w].cmd
            fence == exec'[s].fence
            pc == IF fence > Budget THEN "overspent" ELSE "handling"
            c == [worker[w] EXCEPT !.fence = fence, !.pc = pc]
<1>1. worker[w] \in Consumer /\ worker[w].pc = "received" /\ s \in Searches
  BY DEF TakeUp, Shape, SoundConsumer
<1>2. CASE Claim(s) /\ worker' = [worker EXCEPT ![w] = c]
  <2>1. fence \in 0..MaxFence /\ fence > 0
    BY <1>1, <1>2 DEF Claim, Shape, TypeOK, Execution
  <2>2. pc \in Claimed
    BY DEF Claimed, Handling
  <2>. HIDE DEF fence, pc
  <2>3. c \in Consumer /\ c.fence = fence /\ c.cmd = s
    BY <1>1, <2>1, <2>2 DEF Consumer, Claimed
  <2>4. c \in SoundConsumer
    BY <1>1, <2>1, <2>3 DEF SoundConsumer
  <2>. QED
    BY <1>2, <2>4 DEF Shape
<1>3. CASE Done(w)
  BY <1>3, DoneKeeps
<1>4. CASE Goto(w, "refused")
  BY <1>1, <1>4, GotoKeeps DEF Claimed, Handling
<1>. QED
  BY <1>2, <1>3, <1>4 DEF TakeUp

LEMMA WorkersStep ==
  ASSUME Shape, TypeOK', [Next]_vars
  PROVE  worker' \in [Workers -> SoundConsumer]
<1>. DEFINE Kept == worker' \in [Workers -> SoundConsumer]
<1>1. UNCHANGED worker => Kept
  BY DEF Shape
<1>2. ASSUME NEW s \in Searches, Submit(s) \/ Cancel(s)
      PROVE  UNCHANGED worker
  BY <1>2 DEF Submit, Cancel, processVars
<1>3. ASSUME PublisherStep
      PROVE  UNCHANGED worker
  BY <1>3 DEF PublisherStep, Poll, Send, Mark, ClaimLetter, NoLetter, JudgeLetter
<1>4. ASSUME NEW w \in Workers, WorkerStep(w)
      PROVE  Kept
  <2>1. ASSUME NEW m \in Copies, Receive(w, m)
        PROVE  Kept
    BY <2>1, ReceiveKeeps
  <2>2. CASE TakeUp(w)
    BY <2>2, TakeUpKeeps
  <2>3. CASE AnswerRefused(w) \/ FailOverspent(w) \/ BackOff(w)
    BY <2>3, DoneKeeps DEF AnswerRefused, FailOverspent, BackOff
  <2>4. CASE ReadSearch(w)
    BY <2>4, GotoKeeps DEF ReadSearch, Claimed, Handling
  <2>5. CASE Begin(w)
    BY <2>5, GotoKeeps DEF Begin, Claimed, Handling
  <2>6. CASE EndCollection(w)
    BY <2>6, GotoKeeps DEF EndCollection, Claimed, Handling
  <2>7. CASE Commit(w)
    BY <2>7, GotoKeeps DEF Commit, Claimed, Handling
  <2>8. CASE Acknowledge(w)
    BY <2>8, GotoKeeps, DoneKeeps DEF Acknowledge, Claimed, Handling
  <2>9. CASE Recover(w)
    BY <2>9, GotoKeeps DEF Recover, Claimed, Handling
  <2>. QED
    BY <1>4, <2>1, <2>2, <2>3, <2>4, <2>5, <2>6, <2>7, <2>8, <2>9 DEF WorkerStep
<1>5. ASSUME NEW w \in Workers, Heartbeat(w)
      PROVE  Kept
  BY <1>1, <1>5, FlagKeeps DEF Heartbeat
<1>6. ASSUME NEW w \in Workers, Restart(w) \/ Crash(w) \/ Shutdown(w)
      PROVE  Kept
  BY <1>6, FlagKeeps DEF Restart, Crash, Shutdown
<1>7. ASSUME NEW m \in Copies, Redeliver(m) \/ Lose(m)
      PROVE  UNCHANGED worker
  BY <1>7 DEF Redeliver, Lose, processVars
<1>8. CASE PassTime \/ PublisherRestart \/ UNCHANGED vars
  BY <1>1, <1>8 DEF PassTime, PublisherRestart, processVars, vars
<1>. QED
  BY <1>1, <1>2, <1>3, <1>4, <1>5, <1>6, <1>7, <1>8 DEF Next, Tick, Stall

LEMMA PublisherKeeps ==
  ASSUME Shape, TypeOK', [Next]_vars
  PROVE  publisher' \in SoundPublisher
<1>. USE IdlePublisherIsSound
<1>1. CASE UNCHANGED publisher
  BY <1>1 DEF Shape
<1>2. CASE Poll
  BY <1>2 DEF Poll, Shape, SoundPublisher, PublisherState
<1>3. ASSUME NEW s \in Searches, Send(s)
      PROVE  publisher' \in SoundPublisher
  BY <1>3 DEF Send, Shape, SoundPublisher, PublisherState
<1>4. CASE Mark
  BY <1>4 DEF Mark, Shape, SoundPublisher, PublisherState
<1>5. ASSUME NEW m \in Copies, ClaimLetter(m)
      PROVE  publisher' \in SoundPublisher
  <2>1. copy[m].cmd \in Searches
    BY <1>5 DEF ClaimLetter, Shape, SoundMessage
  <2>2. Claim(copy[m].cmd) => /\ exec'[copy[m].cmd].fence \in 0..MaxFence
                             /\ exec'[copy[m].cmd].fence > 0
    BY <2>1 DEF Claim, Shape, TypeOK, Execution
  <2>. QED
    BY <1>5, <2>1, <2>2 DEF ClaimLetter, SoundPublisher, PublisherState
<1>6. CASE NoLetter \/ JudgeLetter \/ PublisherRestart
  BY <1>6 DEF NoLetter, JudgeLetter, PublisherRestart
<1>7. ASSUME NEW w \in Workers,
             WorkerStep(w) \/ Heartbeat(w) \/ Restart(w) \/ Crash(w) \/ Shutdown(w)
      PROVE  UNCHANGED publisher
  BY <1>7 DEF WorkerStep, Receive, TakeUp, AnswerRefused, FailOverspent, ReadSearch, Begin,
              EndCollection, Commit, Acknowledge, Recover, BackOff, Heartbeat, Restart,
              Crash, Shutdown
<1>8. CASE PassTime \/ UNCHANGED vars
  BY <1>8, <1>1 DEF PassTime, processVars, vars
<1>9. ASSUME NEW s \in Searches, Submit(s) \/ Cancel(s)
      PROVE  UNCHANGED publisher
  BY <1>9 DEF Submit, Cancel, processVars
<1>10. ASSUME NEW m \in Copies, Redeliver(m) \/ Lose(m)
       PROVE  UNCHANGED publisher
  BY <1>10 DEF Redeliver, Lose, processVars
<1>. QED
  BY <1>1, <1>2, <1>3, <1>4, <1>5, <1>6, <1>7, <1>8, <1>9, <1>10
     DEF Next, PublisherStep, Tick, Stall

LEMMA FaultsStep ==
  ASSUME Shape, [Next]_vars
  PROVE  faults' \in 0..MaxFaults
<1>1. CASE UNCHANGED faults
  BY <1>1 DEF Shape
<1>2. CASE Fault
  BY <1>2, FaultsAssumption DEF Shape, Fault
<1>3. UNCHANGED faults \/ Fault
  BY DEF Next, Submit, Cancel, PublisherStep, Poll, Send, Mark, ClaimLetter, NoLetter,
         JudgeLetter, WorkerStep, Receive, TakeUp, AnswerRefused, FailOverspent,
         ReadSearch, Begin, EndCollection, Commit, Acknowledge, Recover, BackOff,
         Heartbeat, Redeliver, Tick, Stall, Crash, Shutdown, Restart, PublisherRestart,
         Lose, vars
<1>. QED
  BY <1>1, <1>2, <1>3

LEMMA ShapeStep == Shape /\ [Next]_vars => Shape'
<1>. SUFFICES ASSUME Shape, [Next]_vars
              PROVE  Shape'
  OBVIOUS
<1>1. TypeOK'
  BY StepsStore, TypeStep DEF Shape
<1>. QED
  BY <1>1, CopiesStep, WorkersStep, PublisherKeeps, FaultsStep DEF Shape

\* Type correctness of the whole pipeline.
THEOREM PipelineTypeCorrect == Spec => []PipelineTypeOK
BY ShapeInit, ShapeStep, ShapeIsTyped, PTL DEF Spec

-----------------------------------------------------------------------------
(* Fences *)

\* A fence in hand was issued by a claim of its command.
FencesIssued ==
  /\ \A w \in Workers :
       worker[w].fence > 0 => worker[w].fence <= exec[worker[w].cmd].fence
  /\ publisher.fence > 0 => publisher.fence <= exec[publisher.cmd].fence

\* What a step does to the fences in hand: some process claims, or each process
\* keeps its own or gives it up.
KeepsAttempt(c, d) == d.fence = 0 \/ (d.fence = c.fence /\ d.cmd = c.cmd)

AttemptsKept ==
  /\ \A w \in Workers : KeepsAttempt(worker[w], worker'[w])
  /\ KeepsAttempt(publisher, publisher')

WorkerClaims(w) ==
  /\ worker[w].cmd \in Searches
  /\ Claim(worker[w].cmd)
  /\ worker'[w].cmd = worker[w].cmd
  /\ worker'[w].fence = exec'[worker[w].cmd].fence
  /\ \A v \in Workers \ {w} : worker'[v] = worker[v]
  /\ UNCHANGED publisher

PublisherClaims(s) ==
  /\ Claim(s)
  /\ publisher'.cmd = s
  /\ publisher'.fence = exec'[s].fence
  /\ UNCHANGED worker

LEMMA FencesGrow ==
  ASSUME TypeOK, [StoreNext]_storeVars
  PROVE  \A t \in Searches : exec'[t].fence >= exec[t].fence
<1>. USE DEF TypeOK, Execution
<1>1. CASE UNCHANGED exec
  BY <1>1
<1>2. CASE StoreTick
  BY <1>2 DEF StoreTick, Lapsed
<1>3. ASSUME NEW s \in Searches, StoreStep(s)
      PROVE  \A t \in Searches : exec'[t].fence >= exec[t].fence
  <2>1. CASE CancelSearch(s)
    BY <2>1 DEF CancelSearch
  <2>2. CASE Claim(s)
    BY <2>2 DEF Claim
  <2>3. ASSUME NEW fence \in 1..MaxFence, Renew(s, fence)
        PROVE  \A t \in Searches : exec'[t].fence = exec[t].fence
    BY <2>3 DEF Renew
  <2>4. ASSUME NEW fence \in 1..MaxFence, Release(s, fence)
        PROVE  \A t \in Searches : exec'[t].fence = exec[t].fence
    BY <2>4 DEF Release
  <2>5. ASSUME NEW fence \in 1..MaxFence, SettleStep(s, fence)
        PROVE  \A t \in Searches : exec'[t].fence = exec[t].fence
    BY <2>5 DEF SettleStep, Settle
  <2>6. ASSUME NEW fence \in 1..MaxFence,
               \/ \E req \in Request, useProfileTitles, hasTitles \in BOOLEAN :
                    CreateSearch(s, req, useProfileTitles, hasTitles)
               \/ Published(s)
               \/ StartSearch(s, fence)
        PROVE  UNCHANGED exec
    BY <2>6 DEF CreateSearch, Published, StartSearch
  <2>. QED
    BY <1>1, <1>3, <2>1, <2>2, <2>3, <2>4, <2>5, <2>6, FenceAssumption DEF StoreStep
<1>. QED
  BY <1>1, <1>2, <1>3, StepCases DEF storeVars

LEMMA GotoAttempt ==
  ASSUME Shape, NEW w \in Workers, NEW pc, Goto(w, pc) \/ Done(w)
  PROVE  \A v \in Workers : KeepsAttempt(worker[v], worker'[v])
<1>1. CASE Goto(w, pc)
  BY <1>1 DEF Goto, KeepsAttempt, Shape, SoundConsumer, Consumer
<1>2. CASE Done(w)
  BY <1>2 DEF Done, IdleWorker, KeepsAttempt, Shape
<1>. QED
  BY <1>1, <1>2

LEMMA AttemptsStep ==
  ASSUME Shape, [Next]_vars
  PROVE  \/ AttemptsKept
         \/ \E w \in Workers : WorkerClaims(w)
         \/ \E s \in Searches : PublisherClaims(s)
<1>1. /\ UNCHANGED worker => \A w \in Workers : KeepsAttempt(worker[w], worker'[w])
      /\ UNCHANGED publisher => KeepsAttempt(publisher, publisher')
  BY DEF KeepsAttempt
<1>2. CASE UNCHANGED processVars
  BY <1>1, <1>2 DEF AttemptsKept, processVars
<1>3. CASE PublisherStep
  <2>1. UNCHANGED worker
    BY <1>3 DEF PublisherStep, Poll, Send, Mark, ClaimLetter, NoLetter, JudgeLetter
  <2>2. ASSUME NEW m \in Copies, ClaimLetter(m)
        PROVE  KeepsAttempt(publisher, publisher') \/ PublisherClaims(copy[m].cmd)
    BY <2>2 DEF ClaimLetter, PublisherClaims, KeepsAttempt, IdlePublisher
  <2>3. ASSUME NEW m \in Copies, ClaimLetter(m)
        PROVE  copy[m].cmd \in Searches
    BY <2>3 DEF ClaimLetter, Shape, SoundMessage
  <2>4. publisher \in PublisherState
    BY DEF Shape, SoundPublisher
  <2>5. ASSUME NEW s \in Searches, Send(s)
        PROVE  KeepsAttempt(publisher, publisher')
    <3>1. publisher.fence = 0
      BY <2>4, <2>5, FenceAssumption DEF Send, Shape, SoundPublisher, PublisherState
    <3>2. publisher'.fence = publisher.fence
      BY <2>4, <2>5 DEF Send, PublisherState
    <3>. QED
      BY <3>1, <3>2 DEF KeepsAttempt
  <2>6. ASSUME Poll
        PROVE  KeepsAttempt(publisher, publisher')
    BY <2>4, <2>6 DEF Poll, KeepsAttempt, PublisherState
  <2>7. ASSUME Mark
        PROVE  KeepsAttempt(publisher, publisher')
    <3>1. publisher.fence = 0
      BY <2>4, <2>7, FenceAssumption DEF Mark, Shape, SoundPublisher, PublisherState
    <3>2. publisher'.fence = publisher.fence
      BY <2>4, <2>7 DEF Mark, PublisherState
    <3>. QED
      BY <3>1, <3>2 DEF KeepsAttempt
  <2>8. ASSUME NoLetter \/ JudgeLetter
        PROVE  KeepsAttempt(publisher, publisher')
    BY <2>8 DEF NoLetter, JudgeLetter, IdlePublisher, KeepsAttempt
  <2>. QED
    BY <1>1, <1>3, <2>1, <2>2, <2>3, <2>5, <2>6, <2>7, <2>8 DEF PublisherStep, AttemptsKept
<1>4. ASSUME NEW w \in Workers, TakeUp(w)
      PROVE  AttemptsKept \/ WorkerClaims(w)
  <2>1. worker[w] \in Consumer /\ worker[w].cmd \in Searches /\ UNCHANGED publisher
    BY <1>4 DEF TakeUp, Shape, SoundConsumer
  <2>2. CASE Claim(worker[w].cmd) /\ ~worker[w].stopping
    <3>1. \E pc : worker' = [worker EXCEPT ![w] = [@ EXCEPT
                                !.fence = exec'[worker[w].cmd].fence, !.pc = pc]]
      BY <1>4, <2>2 DEF TakeUp, Claim
    <3>2. worker'[w].cmd = worker[w].cmd /\ worker'[w].fence = exec'[worker[w].cmd].fence
      BY <2>1, <3>1 DEF Shape, Consumer
    <3>3. \A v \in Workers \ {w} : worker'[v] = worker[v]
      BY <3>1 DEF Shape
    <3>. QED
      BY <2>1, <2>2, <3>2, <3>3 DEF WorkerClaims
  <2>3. CASE Done(w) \/ Goto(w, "refused")
    BY <1>1, <2>1, <2>3, GotoAttempt DEF AttemptsKept
  <2>. QED
    BY <1>4, <2>2, <2>3 DEF TakeUp
<1>5. ASSUME NEW w \in Workers, NEW m \in Copies, Receive(w, m)
      PROVE  AttemptsKept
  <2>1. UNCHANGED publisher /\ \A v \in Workers : worker'[v] = worker[v] \/ worker'[v].fence = 0
    BY <1>5 DEF Receive, Shape
  <2>. QED
    BY <1>1, <2>1 DEF AttemptsKept, KeepsAttempt
<1>6. ASSUME NEW w \in Workers, WorkerStep(w), ~TakeUp(w), \A m \in Copies : ~Receive(w, m)
      PROVE  AttemptsKept
  <2>1. UNCHANGED publisher /\ (Done(w) \/ \E pc \in Handling : Goto(w, pc))
    BY <1>6 DEF WorkerStep, AnswerRefused, FailOverspent, ReadSearch, Begin, EndCollection,
                Commit, Acknowledge, Recover, BackOff, Handling
  <2>. QED
    BY <1>1, <2>1, GotoAttempt DEF AttemptsKept
<1>7. ASSUME NEW w \in Workers, Heartbeat(w) \/ Restart(w) \/ Crash(w) \/ Shutdown(w)
      PROVE  AttemptsKept
  <2>1. /\ UNCHANGED publisher
        /\ \/ UNCHANGED worker
           \/ worker' = [worker EXCEPT ![w].lostBeat = TRUE]
           \/ worker' = [worker EXCEPT ![w].stopping = TRUE]
           \/ worker' = [worker EXCEPT ![w] = IdleWorker]
    BY <1>7 DEF Heartbeat, Restart, Crash, Shutdown
  <2>2. \A v \in Workers : KeepsAttempt(worker[v], worker'[v])
    BY <1>1, <2>1 DEF KeepsAttempt, IdleWorker, Shape, SoundConsumer, Consumer
  <2>. QED
    BY <1>1, <2>1, <2>2 DEF AttemptsKept
<1>8. CASE PublisherRestart
  BY <1>1, <1>8 DEF PublisherRestart, IdlePublisher, AttemptsKept, KeepsAttempt
<1>9. ASSUME NEW s \in Searches, Submit(s) \/ Cancel(s)
      PROVE  UNCHANGED processVars
  BY <1>9 DEF Submit, Cancel
<1>10. ASSUME NEW m \in Copies, Redeliver(m) \/ Lose(m)
       PROVE  UNCHANGED processVars
  BY <1>10 DEF Redeliver, Lose
<1>. QED
  BY <1>2, <1>3, <1>4, <1>5, <1>6, <1>7, <1>8, <1>9, <1>10
     DEF Next, Tick, Stall, PassTime, vars, processVars

LEMMA FencesInit == Init => FencesIssued /\ FencesDistinct
BY DEF Init, IdleWorker, IdlePublisher, FencesIssued, FencesDistinct

LEMMA FencesStep ==
  ASSUME Shape, FencesIssued, FencesDistinct, [Next]_vars
  PROVE  (FencesIssued /\ FencesDistinct)'
<1>1. \A t \in Searches : /\ exec[t].fence \in Nat /\ exec'[t].fence \in Nat
                         /\ exec'[t].fence >= exec[t].fence
  <2>1. TypeOK /\ TypeOK'
    BY StepsStore, TypeStep DEF Shape
  <2>2. \A t \in Searches : exec'[t].fence >= exec[t].fence
    BY <2>1, StepsStore, FencesGrow
  <2>3. exec \in [Searches -> Execution] /\ exec' \in [Searches -> Execution]
    BY <2>1 DEF TypeOK
  <2>4. \A row \in Execution : row.fence \in Nat
    BY DEF Execution
  <2>. QED
    BY <2>2, <2>3, <2>4
<1>2. /\ \A w \in Workers : /\ worker[w].fence \in Nat
                            /\ worker[w].fence > 0 => worker[w].cmd \in Searches
      /\ publisher.fence \in Nat
      /\ publisher.fence > 0 => publisher.cmd \in Searches
  BY FenceAssumption DEF Shape, SoundConsumer, Consumer, SoundPublisher, PublisherState
<1>3. CASE AttemptsKept
  BY <1>1, <1>2, <1>3 DEF AttemptsKept, KeepsAttempt, FencesIssued, FencesDistinct
<1>4. ASSUME NEW w \in Workers, WorkerClaims(w)
      PROVE  (FencesIssued /\ FencesDistinct)'
  <2>1. exec'[worker[w].cmd].fence = exec[worker[w].cmd].fence + 1
    BY <1>4 DEF WorkerClaims, Claim, Shape, TypeOK
  <2>. QED
    BY <1>1, <1>2, <1>4, <2>1 DEF WorkerClaims, FencesIssued, FencesDistinct
<1>5. ASSUME NEW s \in Searches, PublisherClaims(s)
      PROVE  (FencesIssued /\ FencesDistinct)'
  <2>1. exec'[s].fence = exec[s].fence + 1
    BY <1>5 DEF PublisherClaims, Claim, Shape, TypeOK
  <2>. QED
    BY <1>1, <1>2, <1>5, <2>1 DEF PublisherClaims, FencesIssued, FencesDistinct
<1>. QED
  BY <1>3, <1>4, <1>5, AttemptsStep

\* No two processes ever hold the same fence of the same command, for any number
\* of workers, copies and faults.
THEOREM PipelineFencesDistinct == Spec => []FencesDistinct
<1>. DEFINE Inv == Shape /\ FencesIssued /\ FencesDistinct
<1>1. Init => Inv
  BY ShapeInit, FencesInit
<1>2. Inv /\ [Next]_vars => Inv'
  BY ShapeStep, FencesStep
<1>. QED
  BY <1>1, <1>2, PTL DEF Spec

-----------------------------------------------------------------------------
(* Acknowledgement *)

\* A worker whose receipt locks a message works on the command of that message.
HoldersKnow ==
  \A m \in Copies, w \in Workers :
    worker[w].msg = m /\ copy[m].holder = w => copy[m].cmd = worker[w].cmd

\* Apart from Receive, a step leaves a worker its message or takes it away, and
\* a message its holder or frees it.
KeepsMessage(c, d) == d.msg = NoCopy \/ (d.msg = c.msg /\ d.cmd = c.cmd)

KeepsHolder(a, b) == b.holder = NoWorker \/ (b.holder = a.holder /\ b.cmd = a.cmd)

LEMMA GotoMessage ==
  ASSUME Shape, NEW w \in Workers, NEW pc, Goto(w, pc) \/ Done(w)
  PROVE  \A v \in Workers : KeepsMessage(worker[v], worker'[v])
<1>1. CASE Goto(w, pc)
  BY <1>1 DEF Goto, KeepsMessage, Shape, SoundConsumer, Consumer
<1>2. CASE Done(w)
  BY <1>2 DEF Done, IdleWorker, KeepsMessage, Shape
<1>. QED
  BY <1>1, <1>2

\* The workers' side of a step that receives nothing.
LEMMA WorkersKeepMessages ==
  ASSUME Shape, [Next]_vars, \A w \in Workers, m \in Copies : ~Receive(w, m)
  PROVE  \A w \in Workers : KeepsMessage(worker[w], worker'[w])
<1>. DEFINE Kept == \A w \in Workers : KeepsMessage(worker[w], worker'[w])
<1>1. UNCHANGED worker => Kept
  BY DEF KeepsMessage
<1>2. ASSUME NEW w \in Workers, TakeUp(w)
      PROVE  Kept
  <2>1. CASE Done(w) \/ Goto(w, "refused")
    BY <2>1, GotoMessage
  <2>2. CASE Claim(worker[w].cmd) /\ ~worker[w].stopping
    <3>1. \E pc : worker' = [worker EXCEPT ![w] = [@ EXCEPT
                                !.fence = exec'[worker[w].cmd].fence, !.pc = pc]]
      BY <1>2, <2>2 DEF TakeUp, Claim
    <3>2. worker'[w].msg = worker[w].msg /\ worker'[w].cmd = worker[w].cmd
      BY <3>1 DEF Shape, SoundConsumer, Consumer
    <3>3. \A v \in Workers \ {w} : worker'[v] = worker[v]
      BY <3>1 DEF Shape
    <3>. QED
      BY <3>2, <3>3 DEF KeepsMessage
  <2>. QED
    BY <1>2, <2>1, <2>2 DEF TakeUp
<1>3. ASSUME NEW w \in Workers, WorkerStep(w), ~TakeUp(w)
      PROVE  Kept
  <2>1. Done(w) \/ \E pc \in Handling : Goto(w, pc)
    BY <1>3 DEF WorkerStep, AnswerRefused, FailOverspent, ReadSearch, Begin, EndCollection,
                Commit, Acknowledge, Recover, BackOff, Handling
  <2>. QED
    BY <2>1, GotoMessage
<1>4. ASSUME NEW w \in Workers, Heartbeat(w) \/ Restart(w) \/ Crash(w) \/ Shutdown(w)
      PROVE  Kept
  <2>1. \/ UNCHANGED worker
        \/ worker' = [worker EXCEPT ![w].lostBeat = TRUE]
        \/ worker' = [worker EXCEPT ![w].stopping = TRUE]
        \/ worker' = [worker EXCEPT ![w] = IdleWorker]
    BY <1>4 DEF Heartbeat, Restart, Crash, Shutdown
  <2>. QED
    BY <2>1 DEF KeepsMessage, IdleWorker, Shape, SoundConsumer, Consumer
<1>5. CASE PublisherStep
  BY <1>1, <1>5 DEF PublisherStep, Poll, Send, Mark, ClaimLetter, NoLetter, JudgeLetter
<1>6. ASSUME NEW s \in Searches, Submit(s) \/ Cancel(s)
      PROVE  Kept
  BY <1>1, <1>6 DEF Submit, Cancel, processVars
<1>7. ASSUME NEW m \in Copies, Redeliver(m) \/ Lose(m)
      PROVE  Kept
  BY <1>1, <1>7 DEF Redeliver, Lose, processVars
<1>8. CASE PassTime \/ PublisherRestart \/ UNCHANGED vars
  BY <1>1, <1>8 DEF PassTime, PublisherRestart, vars, processVars
<1>. QED
  BY <1>2, <1>3, <1>4, <1>5, <1>6, <1>7, <1>8 DEF Next, Tick, Stall

\* What a step that receives nothing does to the queue.
QueueKept == \A m \in Copies : /\ copy'[m].state = copy[m].state
                               /\ copy'[m].holder = copy[m].holder /\ copy'[m].cmd = copy[m].cmd
                               /\ copy'[m].starts = copy[m].starts

Sent(m) == copy[m].state = "free" /\ \E s \in Searches : copy' = [copy EXCEPT ![m] = NewMessage(s)]

Freed(m) == copy' = [copy EXCEPT ![m] = NoMessage]

LEMMA QueueStep ==
  ASSUME Shape, [Next]_vars, \A w \in Workers, m \in Copies : ~Receive(w, m)
  PROVE  \/ QueueKept
         \/ \E m \in Copies : Sent(m) \/ Redeliver(m) \/ Lose(m)
         \/ \E w \in Workers : /\ Locked(w)
                               /\ exec[worker[w].cmd].status = "completed"
                               /\ Freed(worker[w].msg)
<1>1. UNCHANGED copy => QueueKept
  BY DEF QueueKept
<1>2. ASSUME NEW w \in Workers, AnswerRefused(w) \/ Acknowledge(w)
      PROVE  \/ UNCHANGED copy
             \/ /\ Locked(w)
                /\ exec[worker[w].cmd].status = "completed"
                /\ Freed(worker[w].msg)
  BY <1>2 DEF AnswerRefused, Acknowledge, Acknowledged, Freed, queueVars
<1>3. ASSUME NEW w \in Workers, NEW lock, copy' = [copy EXCEPT ![worker[w].msg].lock = lock]
      PROVE  QueueKept
  BY <1>3 DEF QueueKept, Shape, SoundMessage, Message
<1>4. ASSUME NEW w \in Workers, BackOff(w) \/ Heartbeat(w)
      PROVE  QueueKept
  <2>1. \/ UNCHANGED copy
        \/ \E lock : copy' = [copy EXCEPT ![worker[w].msg].lock = lock]
    BY <1>4 DEF BackOff, Heartbeat, queueVars
  <2>. QED
    BY <1>1, <1>3, <2>1
<1>5. ASSUME NEW w \in Workers,
             \/ TakeUp(w) \/ FailOverspent(w) \/ ReadSearch(w) \/ Begin(w)
             \/ EndCollection(w) \/ Commit(w) \/ Recover(w)
             \/ Restart(w) \/ Crash(w) \/ Shutdown(w)
      PROVE  UNCHANGED copy
  BY <1>5 DEF TakeUp, FailOverspent, ReadSearch, Begin, EndCollection, Commit, Recover,
              Restart, Crash, Shutdown, queueVars
<1>6. CASE PublisherStep
  <2>1. ASSUME NEW s \in Searches, Send(s)
        PROVE  \E m \in Copies : Sent(m)
    BY <2>1 DEF Send, Sent
  <2>2. CASE Poll \/ Mark \/ NoLetter \/ JudgeLetter \/ \E m \in Copies : ClaimLetter(m)
    BY <1>1, <2>2 DEF Poll, Mark, NoLetter, JudgeLetter, ClaimLetter, queueVars
  <2>. QED
    BY <1>6, <2>1, <2>2 DEF PublisherStep
<1>7. CASE PassTime
  BY <1>7 DEF PassTime, QueueKept, Shape, SoundMessage, Message
<1>8. ASSUME NEW s \in Searches, Submit(s) \/ Cancel(s)
      PROVE  UNCHANGED copy
  BY <1>8 DEF Submit, Cancel, queueVars
<1>9. CASE PublisherRestart \/ UNCHANGED vars
  BY <1>1, <1>9 DEF PublisherRestart, vars, queueVars
<1>. QED
  BY <1>1, <1>2, <1>4, <1>5, <1>6, <1>7, <1>8, <1>9 DEF Next, WorkerStep, Tick, Stall

LEMMA HoldersInit == Init => HoldersKnow
BY NullAssumption DEF Init, HoldersKnow, IdleWorker, NoMessage

LEMMA HoldersStep ==
  ASSUME Shape, HoldersKnow, [Next]_vars
  PROVE  HoldersKnow'
<1>. USE NullAssumption
<1>1. ASSUME NEW w \in Workers, NEW m \in Copies, Receive(w, m)
      PROVE  HoldersKnow'
  <2>1. copy[m] \in Message
    BY DEF Shape, SoundMessage
  <2>2. CASE TooOften(copy[m].starts + 1)
    <3>. DEFINE dead == [copy[m] EXCEPT !.state = "dead", !.starts = copy[m].starts + 1]
    <3>1. UNCHANGED worker /\ copy' = [copy EXCEPT ![m] = dead]
      BY <1>1, <2>2 DEF Receive
    <3>2. dead.holder = copy[m].holder /\ dead.cmd = copy[m].cmd
      BY <2>1 DEF Message
    <3>. HIDE DEF dead
    <3>3. copy'[m] = dead /\ \A n \in Copies \ {m} : copy'[n] = copy[n]
      BY <3>1 DEF Shape
    <3>. QED
      BY <3>1, <3>2, <3>3 DEF HoldersKnow
  <2>3. CASE ~TooOften(copy[m].starts + 1)
    <3>1. /\ copy'[m].holder = w /\ copy'[m].cmd = copy[m].cmd
          /\ \A n \in Copies \ {m} : copy'[n] = copy[n]
      BY <1>1, <2>3 DEF Receive, Shape
    <3>2. /\ worker'[w].msg = m /\ worker'[w].cmd = copy[m].cmd
          /\ \A v \in Workers \ {w} : worker'[v] = worker[v]
      BY <1>1, <2>3 DEF Receive, Shape
    <3>. QED
      BY <3>1, <3>2 DEF HoldersKnow
  <2>. QED
    BY <2>2, <2>3
<1>2. ASSUME \A w \in Workers, m \in Copies : ~Receive(w, m)
      PROVE  HoldersKnow'
  <2>1. \A w \in Workers : KeepsMessage(worker[w], worker'[w])
    BY <1>2, WorkersKeepMessages
  <2>2. \A m \in Copies : KeepsHolder(copy[m], copy'[m])
    <3>1. QueueKept => \A m \in Copies : KeepsHolder(copy[m], copy'[m])
      BY DEF QueueKept, KeepsHolder
    <3>2. ASSUME NEW m \in Copies, Sent(m) \/ Redeliver(m) \/ Lose(m)
          PROVE  \A n \in Copies : KeepsHolder(copy[n], copy'[n])
      <4>1. copy[m] \in Message
        BY DEF Shape, SoundMessage
      <4>2. \A n \in Copies \ {m} : copy'[n] = copy[n]
        BY <3>2 DEF Sent, Redeliver, Lose, Shape
      <4>3. CASE Sent(m)
        BY <4>2, <4>3 DEF Sent, NewMessage, KeepsHolder, Shape
      <4>4. CASE Redeliver(m)
        <5>1. copy'[m] = [copy[m] EXCEPT !.state = "waiting", !.holder = NoWorker]
          BY <4>4 DEF Redeliver, Shape
        <5>. QED
          BY <4>1, <4>2, <5>1 DEF KeepsHolder, Message
      <4>5. CASE Lose(m)
        BY <4>2, <4>5 DEF Lose, NoMessage, KeepsHolder, Shape
      <4>. QED
        BY <3>2, <4>3, <4>4, <4>5
    <3>3. ASSUME NEW w \in Workers, Freed(worker[w].msg)
          PROVE  \A n \in Copies : KeepsHolder(copy[n], copy'[n])
      BY <3>3 DEF Freed, NoMessage, KeepsHolder, Shape
    <3>. QED
      BY <1>2, <3>1, <3>2, <3>3, QueueStep
  <2>. QED
    BY <2>1, <2>2 DEF KeepsMessage, KeepsHolder, HoldersKnow
<1>. QED
  BY <1>1, <1>2

\* A message leaves the queue without a fault only for completed work.
LEMMA FreedIsCompleted ==
  ASSUME Shape, HoldersKnow, [Next]_vars, NEW m \in Copies,
         copy[m].state # "free", copy'[m].state = "free", faults' = faults
  PROVE  exec[copy[m].cmd].status = "completed"
<1>1. \A w \in Workers, n \in Copies : ~Receive(w, n)
  <2>. SUFFICES ASSUME NEW w \in Workers, NEW n \in Copies, Receive(w, n)
                PROVE  FALSE
    OBVIOUS
  <2>1. \A k \in Copies : copy[k] \in Message
    BY DEF Shape, SoundMessage
  <2>2. copy'[n].state \in {"dead", "active"}
    <3>1. CASE TooOften(copy[n].starts + 1)
      <4>1. copy'[n] = [copy[n] EXCEPT !.state = "dead", !.starts = copy[n].starts + 1]
        BY <3>1 DEF Receive, Shape
      <4>. QED
        BY <2>1, <4>1 DEF Message
    <3>2. CASE ~TooOften(copy[n].starts + 1)
      BY <3>2 DEF Receive, Shape
    <3>. QED
      BY <3>1, <3>2
  <2>3. \A k \in Copies \ {n} : copy'[k] = copy[k]
    BY DEF Receive, Shape
  <2>. QED
    BY <2>2, <2>3
<1>2. ~QueueKept
  BY DEF QueueKept
<1>3. ASSUME NEW n \in Copies, Sent(n) \/ Redeliver(n)
      PROVE  FALSE
  BY <1>3 DEF Sent, Redeliver, NewMessage, Shape, SoundMessage, Message
<1>4. ASSUME NEW n \in Copies, Lose(n)
      PROVE  FALSE
  BY <1>4, FaultsAssumption DEF Lose, Fault, Shape
<1>5. PICK w \in Workers : /\ Locked(w)
                           /\ exec[worker[w].cmd].status = "completed"
                           /\ Freed(worker[w].msg)
  BY <1>1, <1>2, <1>3, <1>4, QueueStep
<1>6. worker[w].msg = m
  BY <1>5 DEF Freed, Shape
<1>. QED
  BY <1>5, <1>6 DEF Locked, HoldersKnow

\* The queue gives up a message only for durably completed work, for any number
\* of workers, messages and faults.
THEOREM PipelineAcknowledgesCompleted == Spec => AcknowledgedIsCompleted
<1>. DEFINE Inv == Shape /\ HoldersKnow
            Freeing == \A m \in Copies :
                         copy[m].state # "free" /\ copy'[m].state = "free" /\ faults' = faults
                           => exec[copy[m].cmd].status = "completed"
<1>1. Init => Inv
  BY ShapeInit, HoldersInit
<1>2. Inv /\ [Next]_vars => Inv'
  BY ShapeStep, HoldersStep
<1>3. Inv /\ [Next]_vars => [Freeing]_vars
  BY FreedIsCompleted
<1>. QED
  BY <1>1, <1>2, <1>3, PTL DEF Spec, AcknowledgedIsCompleted

-----------------------------------------------------------------------------
(* Giving up *)

\* A dead letter was delivered more often than the budget, and nobody holds it.
LettersSpent ==
  \A m \in Copies :
    /\ copy[m].state = "dead" => copy[m].starts > Budget
    /\ copy[m].state \in {"waiting", "dead"} => copy[m].holder = NoWorker

\* Who is about to give up a command has the reason at hand: the claim that overspent
\* the budget, or the letter that is being reconciled.
OverspentKnow == \A w \in Workers : worker[w].pc = "overspent" => worker[w].fence > Budget

LetterOf(s) == \E m \in Copies : copy[m].state = "dead" /\ copy[m].cmd = s

LetterJudged == publisher.pc = "judge" => LetterOf(publisher.cmd)

SpentInv == LettersSpent /\ OverspentKnow /\ LetterJudged

\* A letter stays in the failed set as it is.
LetterKept(m) == copy[m].state = "dead" => copy'[m].state = "dead" /\ copy'[m].cmd = copy[m].cmd

LEMMA SpentInit == Init => SpentInv
BY DEF Init, SpentInv, LettersSpent, OverspentKnow, LetterJudged, NoMessage, IdleWorker,
       IdlePublisher

LEMMA LettersStep ==
  ASSUME Shape, LettersSpent, [Next]_vars
  PROVE  LettersSpent' /\ \A m \in Copies : LetterKept(m)
<1>. USE NullAssumption
<1>0. \A m \in Copies : copy[m] \in Message
  BY DEF Shape, SoundMessage
<1>1. ASSUME NEW w \in Workers, NEW m \in Copies, Receive(w, m)
      PROVE  LettersSpent' /\ \A n \in Copies : LetterKept(n)
  <2>1. /\ copy[m].state = "waiting"
        /\ \A n \in Copies \ {m} : copy'[n] = copy[n]
    BY <1>1 DEF Receive, Shape
  <2>2. CASE TooOften(copy[m].starts + 1)
    <3>1. copy'[m] = [copy[m] EXCEPT !.state = "dead", !.starts = copy[m].starts + 1]
      BY <1>1, <2>2 DEF Receive, Shape
    <3>2. /\ copy'[m].state = "dead" /\ copy'[m].starts > Budget
          /\ copy'[m].holder = copy[m].holder
      BY <1>0, <2>2, <3>1 DEF TooOften, Message
    <3>. QED
      BY <2>1, <3>2 DEF LettersSpent, LetterKept
  <2>3. CASE ~TooOften(copy[m].starts + 1)
    <3>1. copy'[m].state = "active"
      BY <1>1, <2>3 DEF Receive, Shape
    <3>. QED
      BY <2>1, <3>1 DEF LettersSpent, LetterKept
  <2>. QED
    BY <2>2, <2>3
<1>2. CASE QueueKept
  BY <1>2 DEF QueueKept, LettersSpent, LetterKept
<1>3. ASSUME NEW m \in Copies, Sent(m) \/ Redeliver(m) \/ Lose(m)
      PROVE  LettersSpent' /\ \A n \in Copies : LetterKept(n)
  <2>1. \A n \in Copies \ {m} : copy'[n] = copy[n]
    BY <1>3 DEF Sent, Redeliver, Lose, Shape
  <2>2. /\ copy[m].state # "dead"
        /\ copy'[m].state \in {"free", "waiting"} /\ copy'[m].holder = NoWorker
    <3>1. CASE Sent(m)
      BY <3>1 DEF Sent, NewMessage, Shape
    <3>2. CASE Redeliver(m)
      <4>1. copy'[m] = [copy[m] EXCEPT !.state = "waiting", !.holder = NoWorker]
        BY <3>2 DEF Redeliver, Shape
      <4>. QED
        BY <1>0, <3>2, <4>1 DEF Redeliver, Message
    <3>3. CASE Lose(m)
      BY <3>3 DEF Lose, NoMessage, Shape
    <3>. QED
      BY <1>3, <3>1, <3>2, <3>3
  <2>. QED
    BY <2>1, <2>2 DEF LettersSpent, LetterKept
<1>4. ASSUME NEW w \in Workers, Locked(w), Freed(worker[w].msg)
      PROVE  LettersSpent' /\ \A n \in Copies : LetterKept(n)
  <2>1. \A n \in Copies : copy'[n] = copy[n] \/ (n = worker[w].msg /\ copy'[n] = NoMessage)
    BY <1>4 DEF Freed, Shape
  <2>2. worker[w].msg \in Copies => copy[worker[w].msg].state # "dead"
    BY <1>4 DEF Locked, LettersSpent
  <2>. QED
    BY <2>1, <2>2 DEF LettersSpent, LetterKept, NoMessage
<1>. QED
  BY <1>1, <1>2, <1>3, <1>4, QueueStep

LEMMA OverspentStep ==
  ASSUME Shape, OverspentKnow, [Next]_vars
  PROVE  OverspentKnow'
<1>0. \A w \in Workers : worker[w] \in Consumer
  BY DEF Shape, SoundConsumer
<1>1. ASSUME NEW w \in Workers, \A v \in Workers \ {w} : worker'[v] = worker[v],
             worker'[w].pc # "overspent" \/ worker'[w].fence > Budget
      PROVE  OverspentKnow'
  BY <1>1 DEF OverspentKnow
<1>2. ASSUME NEW w \in Workers, NEW pc, Goto(w, pc) \/ Done(w), pc # "overspent"
      PROVE  OverspentKnow'
  <2>1. (\A v \in Workers \ {w} : worker'[v] = worker[v]) /\ worker'[w].pc # "overspent"
    BY <1>0, <1>2 DEF Goto, Done, IdleWorker, Shape, Consumer
  <2>. QED
    BY <1>1, <2>1
<1>3. ASSUME NEW w \in Workers, WorkerStep(w)
      PROVE  OverspentKnow'
  <2>1. ASSUME NEW m \in Copies, Receive(w, m)
        PROVE  OverspentKnow'
    <3>1. CASE UNCHANGED worker
      BY <3>1 DEF OverspentKnow
    <3>2. CASE ~UNCHANGED worker
      <4>1. (\A v \in Workers \ {w} : worker'[v] = worker[v]) /\ worker'[w].pc = "received"
        BY <2>1, <3>2 DEF Receive, Shape
      <4>. QED
        BY <1>1, <4>1
    <3>. QED
      BY <3>1, <3>2
  <2>2. CASE TakeUp(w)
    <3>1. CASE Done(w) \/ Goto(w, "refused")
      BY <1>2, <3>1
    <3>2. CASE ~(Done(w) \/ Goto(w, "refused"))
      <4> DEFINE f == exec'[worker[w].cmd].fence
                 p == IF f > Budget THEN "overspent" ELSE "handling"
      <4>1. worker' = [worker EXCEPT ![w] = [@ EXCEPT !.fence = f, !.pc = p]]
        BY <2>2, <3>2 DEF TakeUp
      <4>2. p # "overspent" \/ f > Budget
        OBVIOUS
      <4> HIDE DEF f, p
      <4>3. worker'[w].pc = p /\ worker'[w].fence = f
            /\ \A v \in Workers \ {w} : worker'[v] = worker[v]
        BY <1>0, <4>1 DEF Shape, Consumer
      <4>. QED
        BY <1>1, <4>2, <4>3
    <3>. QED
      BY <3>1, <3>2
  <2>3. CASE ~TakeUp(w) /\ \A m \in Copies : ~Receive(w, m)
    <3>1. Done(w) \/ \E pc \in Handling : Goto(w, pc)
      BY <1>3, <2>3 DEF WorkerStep, AnswerRefused, FailOverspent, ReadSearch, Begin,
                        EndCollection, Commit, Acknowledge, Recover, BackOff, Handling
    <3>. QED
      BY <1>2, <3>1 DEF Handling
  <2>. QED
    BY <2>1, <2>2, <2>3
<1>4. ASSUME NEW w \in Workers, Heartbeat(w) \/ Restart(w) \/ Crash(w) \/ Shutdown(w)
      PROVE  OverspentKnow'
  <2>1. \/ UNCHANGED worker
        \/ worker' = [worker EXCEPT ![w].lostBeat = TRUE]
        \/ worker' = [worker EXCEPT ![w].stopping = TRUE]
        \/ worker' = [worker EXCEPT ![w] = IdleWorker]
    BY <1>4 DEF Heartbeat, Restart, Crash, Shutdown
  <2>. QED
    BY <1>0, <2>1 DEF OverspentKnow, IdleWorker, Shape, Consumer
<1>5. ASSUME \A w \in Workers : ~(\/ WorkerStep(w) \/ Heartbeat(w) \/ Restart(w)
                                  \/ Crash(w) \/ Shutdown(w))
      PROVE  UNCHANGED worker
  BY <1>5 DEF Next, Submit, Cancel, PublisherStep, Poll, Send, Mark, ClaimLetter, NoLetter,
              JudgeLetter, Redeliver, Tick, Stall, PassTime, PublisherRestart, Lose, vars,
              processVars
<1>. QED
  BY <1>3, <1>4, <1>5 DEF OverspentKnow

LEMMA JudgedStep ==
  ASSUME Shape, LetterJudged, [Next]_vars, \A m \in Copies : LetterKept(m)
  PROVE  LetterJudged'
<1>2. ASSUME NEW m \in Copies, copy[m].state = "dead", copy[m].cmd = publisher'.cmd
      PROVE  LetterJudged'
  BY <1>2 DEF LetterJudged, LetterOf, LetterKept
<1>3. CASE UNCHANGED publisher \/ publisher'.pc # "judge"
  BY <1>2, <1>3 DEF LetterJudged, LetterOf
<1>4. ASSUME NEW m \in Copies, ClaimLetter(m)
      PROVE  LetterJudged'
  <2>1. CASE publisher' = IdlePublisher
    BY <1>3, <2>1 DEF IdlePublisher
  <2>2. CASE publisher' # IdlePublisher
    <3>1. copy[m].state = "dead" /\ publisher'.cmd = copy[m].cmd
      BY <1>4, <2>2 DEF ClaimLetter
    <3>. QED
      BY <1>2, <3>1
  <2>. QED
    BY <2>1, <2>2
<1>5. CASE Poll \/ Mark \/ NoLetter \/ JudgeLetter \/ \E s \in Searches : Send(s)
  <2>1. publisher \in PublisherState
    BY DEF Shape, SoundPublisher
  <2>2. publisher'.pc # "judge"
    <3>1. Poll => publisher'.pc = "send"
      BY <2>1 DEF Poll, PublisherState
    <3>2. Mark => publisher'.pc = "send"
      BY <2>1 DEF Mark, PublisherState
    <3>3. ASSUME NEW s \in Searches, Send(s)
          PROVE  publisher'.pc = "mark"
      BY <2>1, <3>3 DEF Send, PublisherState
    <3>4. NoLetter \/ JudgeLetter => publisher'.pc = "poll"
      BY DEF NoLetter, JudgeLetter, IdlePublisher
    <3>. QED
      BY <1>5, <3>1, <3>2, <3>3, <3>4
  <2>. QED
    BY <1>3, <2>2
<1>6. CASE PublisherRestart
  BY <1>3, <1>6 DEF PublisherRestart, IdlePublisher
<1>7. CASE ~PublisherStep /\ ~PublisherRestart
  <2>1. UNCHANGED publisher
    BY <1>7 DEF Next, Submit, Cancel, WorkerStep, Receive, TakeUp, AnswerRefused, FailOverspent,
           ReadSearch, Begin, EndCollection, Commit, Acknowledge, Recover, BackOff,
           Heartbeat, Redeliver, Tick, Stall, PassTime, Crash, Shutdown, Restart,
           Lose, vars, processVars
  <2>. QED
    BY <1>3, <2>1
<1>. QED
  BY <1>4, <1>5, <1>6, <1>7 DEF PublisherStep

LEMMA SpentStep ==
  ASSUME Shape, SpentInv, [Next]_vars
  PROVE  SpentInv'
BY LettersStep, OverspentStep, JudgedStep DEF SpentInv

\* Of the store's calls only fail() gives a command up.
NoneFails == \A s \in Searches : exec'[s].status = "failed" => exec[s].status = "failed"

LEMMA StoreCallsFailNone ==
  ASSUME Shape, NEW s, NEW fence
  PROVE  /\ UNCHANGED exec => NoneFails
         /\ CancelSearch(s) => NoneFails
         /\ Claim(s) => NoneFails
         /\ Renew(s, fence) => NoneFails
         /\ TryRelease(s, fence) => NoneFails
         /\ \A sourceOf, outcomes :
              CompleteCollection(s, fence, sourceOf, outcomes) => NoneFails
         /\ StoreTick => NoneFails
<1>. USE DEF NoneFails
<1>0. exec \in [Searches -> Execution]
  BY DEF Shape, TypeOK
<1>1. \A t \in Searches : exec[t] \in Execution
  BY <1>0
<1>2. UNCHANGED exec => NoneFails
  OBVIOUS
<1>3. CancelSearch(s) => NoneFails
  BY <1>0 DEF CancelSearch
<1>4. Claim(s) => NoneFails
  BY <1>0 DEF Claim
<1>5. Renew(s, fence) => NoneFails
  BY <1>0, <1>1 DEF Renew, Execution
<1>6. TryRelease(s, fence) => NoneFails
  BY <1>0, <1>1 DEF TryRelease, Release, storeVars, Execution
<1>7. ASSUME NEW sourceOf, NEW outcomes, CompleteCollection(s, fence, sourceOf, outcomes)
      PROVE  NoneFails
  <2>1. exec' = [exec EXCEPT ![s].status = "completed"]
    BY <1>7 DEF CompleteCollection, Settle
  <2>. QED
    BY <1>0, <1>1, <2>1 DEF Execution
<1>8. StoreTick => NoneFails
  BY <1>0, <1>1 DEF StoreTick, Lapsed, Execution
<1>. QED
  BY <1>2, <1>3, <1>4, <1>5, <1>6, <1>7, <1>8

\* Who fails a command holds the fence of its execution.
LEMMA TryFailFails ==
  ASSUME Shape, NEW s \in Searches, NEW fence, TryFail(s, fence),
         NEW t \in Searches, exec[t].status # "failed", exec'[t].status = "failed"
  PROVE  t = s /\ exec[s].fence = fence
<1>1. CASE Owned(s, fence) /\ status[s] \in Active
  <2>1. exec' = [exec EXCEPT ![s].status = "failed"]
    BY <1>1 DEF TryFail, Fail, Settle
  <2>2. t = s
    BY <2>1 DEF Shape, TypeOK
  <2>. QED
    BY <1>1, <2>2 DEF Owned
<1>2. CASE ~(Owned(s, fence) /\ status[s] \in Active)
  BY <1>2 DEF TryFail, storeVars
<1>. QED
  BY <1>1, <1>2

\* The steps that can fail a command are the three that ask the store to.
LEMMA OnlyThreeFail ==
  ASSUME Shape, [Next]_vars, ~NoneFails
  PROVE  \/ JudgeLetter
         \/ \E w \in Workers : FailOverspent(w) \/ (Recover(w) /\ Spent(w))
<1>1. exec' # exec
  BY StoreCallsFailNone
<1>2. CASE PublisherStep
  <2>1. ASSUME NEW m \in Copies, ClaimLetter(m)
        PROVE  FALSE
    BY <1>1, <2>1, StoreCallsFailNone DEF ClaimLetter, storeVars
  <2>2. CASE Mark
    BY <1>1, <2>2 DEF Mark, Published
  <2>. QED
    BY <1>1, <1>2, <2>1, <2>2 DEF PublisherStep, Poll, Send, NoLetter, storeVars
<1>3. ASSUME NEW w \in Workers, WorkerStep(w)
      PROVE  FailOverspent(w) \/ (Recover(w) /\ Spent(w))
  <2>1. CASE TakeUp(w)
    BY <1>1, <2>1, StoreCallsFailNone DEF TakeUp, storeVars
  <2>2. CASE Begin(w)
    BY <1>1, <2>2 DEF Begin, StartSearch, storeVars
  <2>3. CASE Commit(w)
    BY <1>1, <2>3, StoreCallsFailNone DEF Commit, storeVars
  <2>4. CASE Recover(w) /\ ~Spent(w)
    BY <2>4, StoreCallsFailNone DEF Recover
  <2>5. CASE BackOff(w)
    BY <1>1, <2>5, StoreCallsFailNone DEF BackOff, storeVars
  <2>. QED
    BY <1>1, <1>3, <2>1, <2>2, <2>3, <2>4, <2>5
       DEF WorkerStep, Receive, AnswerRefused, ReadSearch, EndCollection, Acknowledge, storeVars
<1>4. ASSUME NEW w \in Workers, Heartbeat(w)
      PROVE  FALSE
  BY <1>1, <1>4, StoreCallsFailNone DEF Heartbeat, storeVars
<1>5. ASSUME NEW s \in Searches, Submit(s) \/ Cancel(s)
      PROVE  FALSE
  BY <1>1, <1>5, StoreCallsFailNone DEF Submit, CreateSearch, Cancel
<1>6. ASSUME PassTime
      PROVE  FALSE
  BY <1>6, StoreCallsFailNone DEF PassTime
<1>7. ASSUME \/ UNCHANGED vars \/ PublisherRestart
             \/ \E w \in Workers : Restart(w) \/ Crash(w) \/ Shutdown(w)
             \/ \E m \in Copies : Redeliver(m) \/ Lose(m)
      PROVE  FALSE
  BY <1>1, <1>7 DEF PublisherRestart, Restart, Crash, Shutdown, Redeliver, Lose, vars, storeVars
<1>. QED
  BY <1>2, <1>3, <1>4, <1>5, <1>6, <1>7 DEF Next, Tick, Stall

LEMMA FailedIsSpent ==
  ASSUME Shape, SpentInv, [Next]_vars,
         NEW s \in Searches, exec[s].status # "failed", exec'[s].status = "failed"
  PROVE  \/ DeadLetterJudged(s)
         \/ \E w \in Workers : LastAttemptFailed(w, s) \/ ClaimedBeyondBudget(w, s)
<1>. USE BudgetAssumption
<1>1. ~NoneFails
  BY DEF NoneFails
<1>2. CASE JudgeLetter
  <2>1. publisher.cmd \in Searches /\ TryFail(publisher.cmd, publisher.fence)
    BY <1>2 DEF JudgeLetter, Shape, SoundPublisher
  <2>2. s = publisher.cmd /\ exec[s].fence = publisher.fence
    BY <2>1, TryFailFails
  <2>3. PICK m \in Copies : copy[m].state = "dead" /\ copy[m].cmd = s
    BY <1>2, <2>2 DEF JudgeLetter, SpentInv, LetterJudged, LetterOf
  <2>4. copy[m].starts > Budget
    BY <2>3 DEF SpentInv, LettersSpent
  <2>. QED
    BY <2>2, <2>3, <2>4 DEF DeadLetterJudged
<1>3. ASSUME NEW w \in Workers, FailOverspent(w)
      PROVE  ClaimedBeyondBudget(w, s)
  <2>1. worker[w].cmd \in Searches /\ worker[w].fence \in 1..MaxFence
    BY <1>3, ClaimedFence DEF FailOverspent, Claimed
  <2>2. worker[w].cmd = s /\ exec[s].fence = worker[w].fence
    BY <1>3, <2>1, TryFailFails DEF FailOverspent
  <2>3. worker[w].fence > Budget
    BY <1>3 DEF FailOverspent, SpentInv, OverspentKnow
  <2>. QED
    BY <2>2, <2>3 DEF ClaimedBeyondBudget
<1>4. ASSUME NEW w \in Workers, Recover(w), Spent(w)
      PROVE  LastAttemptFailed(w, s) \/ ClaimedBeyondBudget(w, s)
  <2>1. worker[w].cmd \in Searches /\ worker[w].fence \in 1..MaxFence
    BY <1>4, ClaimedFence DEF Recover, Claimed, Handling
  <2>2. s = worker[w].cmd /\ exec[s].fence = worker[w].fence
    BY <1>4, <2>1, TryFailFails DEF Recover
  <2>3. worker[w].count \in 0..Budget
    BY DEF Shape, SoundConsumer, Consumer
  <2>4. \/ worker[w].fence = Budget \/ worker[w].count = Budget
        \/ worker[w].fence > Budget
    BY <1>4, <2>1, <2>3, FenceAssumption DEF Spent
  <2>. QED
    BY <1>4, <2>2, <2>4 DEF Spent, LastAttemptFailed, ClaimedBeyondBudget
<1>. QED
  BY <1>1, <1>2, <1>3, <1>4, OnlyThreeFail

\* However often processes crash, stop or stall, a command is given up only by the
\* newest attempt when that one failed uninterrupted on the last of the budget or was
\* claimed beyond it, or for a dead letter that was delivered beyond it.
THEOREM PipelineGivesUpWhenSpent == Spec => GivenUpWhenSpent
<1>. DEFINE Inv == Shape /\ SpentInv
            GivingUp == \A s \in Searches :
                          exec[s].status # "failed" /\ exec'[s].status = "failed"
                            => \/ DeadLetterJudged(s)
                               \/ \E w \in Workers : LastAttemptFailed(w, s) \/ ClaimedBeyondBudget(w, s)
<1>1. Init => Inv
  BY ShapeInit, SpentInit
<1>2. Inv /\ [Next]_vars => Inv'
  BY ShapeStep, SpentStep
<1>3. Inv /\ [Next]_vars => [GivingUp]_vars
  BY FailedIsSpent
<1>. QED
  BY <1>1, <1>2, <1>3, PTL DEF Spec, GivenUpWhenSpent

-----------------------------------------------------------------------------
(* The pipeline runs the store *)

\* Whatever the publisher, the queue and the workers do, crash or lose, they move
\* the tables only by the store's transactions.
THEOREM PipelineRunsTheStore == Spec => StoreSpec
<1>1. Init => StoreInit
  BY DEF Init
<1>2. Shape /\ [Next]_vars => [StoreNext]_storeVars
  BY StepsStore
<1>. QED
  BY <1>1, <1>2, ShapeInit, ShapeStep, PTL DEF Spec, StoreSpec

\* So a search handled by the running system lives as RunLifecycle promises.
THEOREM PipelineImplementsLifecycle == Spec => ImplementsLifecycle
BY PipelineRunsTheStore, StoreImplementsLifecycle

\* And its tables keep the store's invariant.
THEOREM PipelineKeepsStoreInvariant == Spec => []StoreInv
BY PipelineRunsTheStore, StoreInvariant

-----------------------------------------------------------------------------
(* What an owner may rely on *)

\* RunLifecycleProofs, of the events and jobs of the tables.
Promises == INSTANCE RunLifecycleProofs WITH log <- events, found <- jobs

\* The running system keeps what RunLifecycle promises: however its processes crash,
\* repeat and overtake each other, a log gets one outcome at most and nothing after it,
\* postings are shown of a success only, and what was once read of either stays.
THEOREM PipelineKeepsPromises ==
  Spec => [](Promises!OneOutcome /\ Promises!PostingsOfSuccess) /\ Promises!ReadIsKept
<1>1. Lifecycle!Init => Promises!Init
  BY DEF Lifecycle!Init, Promises!Init
<1>2. [Lifecycle!Next]_(Lifecycle!vars) => [Promises!Next]_(Promises!vars)
  BY DEF Lifecycle!Next, Lifecycle!vars, Lifecycle!Submit, Lifecycle!Start, Lifecycle!Close,
         Lifecycle!Open, Lifecycle!Last, Lifecycle!Outcomes,
         Promises!Next, Promises!vars, Promises!Submit, Promises!Start, Promises!Close,
         Promises!Open, Promises!Last, Promises!Outcomes
<1>3. Lifecycle!Spec => Promises!Spec
  BY <1>1, <1>2, PTL DEF Lifecycle!Spec, Promises!Spec
<1>. QED
  BY <1>3, PipelineImplementsLifecycle, Promises!OutcomeIsLast, Promises!OnlySuccessShows,
     Promises!ReadingIsFinal, PTL DEF ImplementsLifecycle

\* And what the store holds against any caller, it holds against these processes: a settled
\* run is not touched again, a live lease is not taken over, a repeated key finds its run.
THEOREM PipelineKeepsStoreProperties ==
  Spec => SettledIsFinal /\ LeaseIsExclusive /\ []OneRunPerKey
BY PipelineRunsTheStore, StoreSettledIsFinal, StoreLeaseIsExclusive, StoreOneRunPerKey
=============================================================================
