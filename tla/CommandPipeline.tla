--------------------------- MODULE CommandPipeline --------------------------
(***************************************************************************)
(* The outbox publisher, the Redis queue and the search workers over the   *)
(* command store: packages/core/src/dispatch.ts and queue.ts, and the      *)
(* processes of apps/workers/search/src.  Each await of a process is a     *)
(* step of its own, so the processes interleave between any two of them.   *)
(*                                                                         *)
(* Delivery is at least once: the publisher may send a command again, the  *)
(* queue hands a message out again when its lock lapses, and a message can *)
(* be lost.  Processes crash, are shut down, and can be too slow to renew  *)
(* a lease; MaxFaults bounds how often these happen.                       *)
(***************************************************************************)
EXTENDS CommandStore

CONSTANTS
  Workers,      \* search worker processes
  Copies,       \* places in the queue: a message occupies one until it is gone
  Budget,       \* attempts and deliveries a command may use: 5
  BackoffTicks, \* the delay before a failed attempt's message may return: up to 16 s
  MaxFaults,    \* crashes, shutdowns, losses and stalls in one behaviour
  NoWorker, NoCopy, NoCommand

ASSUME BudgetAssumption == Budget \in Nat \ {0}
ASSUME BackoffAssumption == BackoffTicks \in 1..LeaseTicks
ASSUME FaultsAssumption == MaxFaults \in Nat
ASSUME NullAssumption == NoWorker \notin Workers /\ NoCopy \notin Copies

VARIABLES
  copy,         \* copy[m]: what the queue keeps of message m
  worker,       \* worker[w]: where consumeMessage stands in process w
  publisher,    \* where the loop of the publisher stands
  faults        \* faults so far

queueVars == <<copy>>
processVars == <<worker, publisher>>
vars == <<storeVars, copy, worker, publisher, faults>>

-----------------------------------------------------------------------------
(* Types *)

\* A message is waiting, active under the lock of its receipt, or a dead letter.
\* starts is BullMQ's attemptsStarted, lock the ticks its lock has left.
Message == [state : {"free", "waiting", "active", "dead"},
            cmd : Searches \union {NoCommand}, starts : 0..(Budget + 1),
            lock : 0..LeaseTicks, holder : Workers \union {NoWorker}]

NoMessage == [state |-> "free", cmd |-> NoCommand, starts |-> 0,
              lock |-> 0, holder |-> NoWorker]

NewMessage(s) == [state |-> "waiting", cmd |-> s, starts |-> 0,
                  lock |-> 0, holder |-> NoWorker]

\* The stages of consumeMessage between claim and its return: the handler's own
\* ("handling" to "settling"), then "committed", "failing" and "backoff".
Handling == {"handling", "starting", "refusing", "collecting", "settling",
             "committed", "failing", "backoff"}

Consumer == [pc : {"idle", "received", "refused", "overspent"} \union Handling,
             msg : Copies \union {NoCopy}, cmd : Searches \union {NoCommand},
             fence : 0..MaxFence, count : 0..Budget,
             lostBeat : BOOLEAN, stopping : BOOLEAN]

IdleWorker == [pc |-> "idle", msg |-> NoCopy, cmd |-> NoCommand, fence |-> 0,
               count |-> 0, lostBeat |-> FALSE, stopping |-> FALSE]

PublisherState == [pc : {"poll", "send", "mark", "judge"},
                   batch : SUBSET Searches, cmd : Searches \union {NoCommand},
                   fence : 0..MaxFence]

IdlePublisher == [pc |-> "poll", batch |-> {}, cmd |-> NoCommand, fence |-> 0]

PipelineTypeOK ==
  /\ TypeOK
  /\ copy \in [Copies -> Message]
  /\ worker \in [Workers -> Consumer]
  /\ publisher \in PublisherState
  /\ faults \in 0..MaxFaults

Init ==
  /\ StoreInit
  /\ copy = [m \in Copies |-> NoMessage]
  /\ worker = [w \in Workers |-> IdleWorker]
  /\ publisher = IdlePublisher
  /\ faults = 0

-----------------------------------------------------------------------------
(* The API *)

Submit(s) ==
  /\ \E req \in Request : CreateSearch(s, req, FALSE, FALSE)
  /\ UNCHANGED <<queueVars, processVars, faults>>

Cancel(s) ==
  /\ CancelSearch(s)
  /\ UNCHANGED <<queueVars, processVars, faults>>

-----------------------------------------------------------------------------
(* The publisher's loop: publishPending, then one dead letter *)

\* unpublished(): the batch is read once and sent row by row afterwards.  A
\* round with nothing due and no dead letter changes nothing and is left out.
Poll ==
  /\ publisher.pc = "poll"
  /\ \/ \E s \in Searches : Unpublished(s)
     \/ \E m \in Copies : copy[m].state = "dead"
  /\ publisher' = [publisher EXCEPT !.pc = "send", !.batch = {s \in Searches : Unpublished(s)}]
  /\ UNCHANGED <<storeVars, queueVars, worker, faults>>

\* LocalQueue.send: a message of its own for every call.
Send(s) ==
  /\ publisher.pc = "send"
  /\ s \in publisher.batch
  /\ \E m \in Copies :
       /\ copy[m].state = "free"
       /\ copy' = [copy EXCEPT ![m] = NewMessage(s)]
  /\ publisher' = [publisher EXCEPT !.pc = "mark", !.cmd = s]
  /\ UNCHANGED <<storeVars, worker, faults>>

\* The batch is sent.  A row is also left for the next poll when every place of
\* Copies is taken, which bounds the copies of a command.
AllSent ==
  /\ publisher.pc = "send"
  /\ publisher.batch = {} \/ \A m \in Copies : copy[m].state # "free"

Mark ==
  /\ publisher.pc = "mark"
  /\ Published(publisher.cmd)
  /\ publisher' = [publisher EXCEPT !.pc = "send", !.batch = @ \ {publisher.cmd},
                                    !.cmd = NoCommand]
  /\ UNCHANGED <<queueVars, worker, faults>>

\* A transaction that finds its row changes it, and otherwise nothing.
TryFail(s, fence) ==
  IF Owned(s, fence) /\ status[s] \in Active THEN Fail(s, fence) ELSE UNCHANGED storeVars

TryRelease(s, fence) ==
  IF exec[s].status = "running" /\ exec[s].fence = fence
  THEN Release(s, fence) ELSE UNCHANGED storeVars

\* receiveDeadLetter and the claim of reconcileDeadLetter; the letter stays in
\* the failed set.
ClaimLetter(m) ==
  /\ AllSent
  /\ copy[m].state = "dead"
  /\ IF Claimable(copy[m].cmd)
     THEN /\ Claim(copy[m].cmd)
          /\ publisher' = [pc |-> "judge", batch |-> {}, cmd |-> copy[m].cmd,
                           fence |-> exec'[copy[m].cmd].fence]
     ELSE /\ publisher' = IdlePublisher
          /\ UNCHANGED storeVars
  /\ UNCHANGED <<queueVars, worker, faults>>

NoLetter ==
  /\ AllSent
  /\ \A m \in Copies : copy[m].state # "dead"
  /\ publisher' = IdlePublisher
  /\ UNCHANGED <<storeVars, queueVars, worker, faults>>

JudgeLetter ==
  /\ publisher.pc = "judge"
  /\ TryFail(publisher.cmd, publisher.fence)
  /\ publisher' = IdlePublisher
  /\ UNCHANGED <<queueVars, worker, faults>>

PublisherStep ==
  \/ Poll
  \/ \E s \in Searches : Send(s)
  \/ Mark
  \/ \E m \in Copies : ClaimLetter(m)
  \/ NoLetter
  \/ JudgeLetter

-----------------------------------------------------------------------------
(* A worker: LocalQueue.receive, then consumeMessage *)

Goto(w, pc) == worker' = [worker EXCEPT ![w].pc = pc]

\* The loop of the process takes the next message; a stopping one leaves it.
Done(w) == worker' = [worker EXCEPT ![w] = [IdleWorker EXCEPT !.stopping = worker[w].stopping]]

\* The receipt of w is still the one that locks its message.
Locked(w) == copy[worker[w].msg].holder = w /\ copy[worker[w].msg].lock > 0

\* Mutant: one delivery beyond the budget.
TooOftenLater(starts) == starts > Budget + 1

TooOften(starts) == starts > Budget

\* receive: a message delivered too often becomes a dead letter instead.
Receive(w, m) ==
  /\ worker[w].pc = "idle" /\ ~worker[w].stopping
  /\ copy[m].state = "waiting"
  /\ LET starts == copy[m].starts + 1 IN
     IF TooOften(starts)
     THEN /\ copy' = [copy EXCEPT ![m] = [@ EXCEPT !.state = "dead", !.starts = starts]]
          /\ UNCHANGED worker
     ELSE /\ copy' = [copy EXCEPT ![m] = [state |-> "active", cmd |-> copy[m].cmd,
                                           starts |-> starts, lock |-> LeaseTicks, holder |-> w]]
          /\ worker' = [worker EXCEPT ![w] = [
                          pc |-> "received", msg |-> m, cmd |-> copy[m].cmd, fence |-> 0,
                          count |-> starts, lostBeat |-> FALSE, stopping |-> FALSE]]
  /\ UNCHANGED <<storeVars, publisher, faults>>

\* The shutdown check and the claim.
TakeUp(w) ==
  LET s == worker[w].cmd IN
  /\ worker[w].pc = "received"
  /\ \/ /\ worker[w].stopping
        /\ Done(w)
        /\ UNCHANGED storeVars
     \/ /\ ~worker[w].stopping
        /\ Claim(s)
        /\ worker' = [worker EXCEPT ![w] = [@ EXCEPT
                        !.fence = exec'[s].fence,
                        !.pc = IF exec'[s].fence > Budget THEN "overspent" ELSE "handling"]]
     \/ /\ ~worker[w].stopping
        /\ ~Claimable(s)
        /\ Goto(w, "refused")
        /\ UNCHANGED storeVars
  /\ UNCHANGED <<queueVars, publisher, faults>>

\* moveToCompleted succeeds only under the receipt's lock.
Acknowledged(w) == copy' = [copy EXCEPT ![worker[w].msg] = NoMessage]

\* Mutant: a refused claim is taken for a duplicate, without asking why.
AnswerRefusedAlways(w) ==
  /\ worker[w].pc = "refused"
  /\ IF Locked(w) THEN Acknowledged(w) ELSE UNCHANGED queueVars
  /\ Done(w)
  /\ UNCHANGED <<storeVars, publisher, faults>>

\* The claim was refused: a duplicate of completed work is acknowledged, a busy
\* or failed command's message is left to lapse.
AnswerRefused(w) ==
  /\ worker[w].pc = "refused"
  /\ IF exec[worker[w].cmd].status = "completed" /\ Locked(w)
     THEN Acknowledged(w) ELSE UNCHANGED queueVars
  /\ Done(w)
  /\ UNCHANGED <<storeVars, publisher, faults>>

\* More claims than the budget: the command fails; the message stays.
FailOverspent(w) ==
  /\ worker[w].pc = "overspent"
  /\ TryFail(worker[w].cmd, worker[w].fence)
  /\ Done(w)
  /\ UNCHANGED <<queueVars, publisher, faults>>

-----------------------------------------------------------------------------
(* searchHandler, under the heartbeat *)

\* The run is read; without a permitted source it is settled at once.
ReadSearch(w) ==
  /\ worker[w].pc = "handling"
  /\ IF status[worker[w].cmd] \in Active
     THEN Goto(w, "starting") \/ Goto(w, "refusing")
     ELSE Goto(w, "failing")
  /\ UNCHANGED <<storeVars, queueVars, publisher, faults>>

Begin(w) ==
  LET s == worker[w].cmd
      fence == worker[w].fence IN
  /\ worker[w].pc = "starting"
  /\ \/ StartSearch(s, fence) /\ Goto(w, "collecting")
     \/ /\ Owned(s, fence) /\ status[s] = "running"
        /\ Goto(w, "collecting")
        /\ UNCHANGED storeVars
     \/ /\ ~Owned(s, fence) \/ status[s] \notin Active
        /\ Goto(w, "failing")
        /\ UNCHANGED storeVars
  /\ UNCHANGED <<queueVars, publisher, faults>>

\* Collection throws, or ends with results that are settled unless the signal
\* was aborted by a shutdown or a lost heartbeat.
EndCollection(w) ==
  /\ worker[w].pc = "collecting"
  /\ \/ Goto(w, "failing")
     \/ ~worker[w].stopping /\ ~worker[w].lostBeat /\ Goto(w, "settling")
  /\ UNCHANGED <<storeVars, queueVars, publisher, faults>>

\* completeCollection with what was collected, or, without a permitted source,
\* with a failed outcome for every source.  It fails for an attempt that is no
\* longer the owner and for more outcomes than a row can hold.
Commit(w) ==
  LET s == worker[w].cmd
      fence == worker[w].fence IN
  /\ worker[w].pc \in {"settling", "refusing"}
  /\ \/ /\ \E sourceOf \in Postings, outcomes \in Outcomes :
             /\ worker[w].pc = "refusing" =>
                  /\ DOMAIN sourceOf = {}
                  /\ \A source \in DOMAIN outcomes :
                       outcomes[source] = [status |-> "failed", accepted |-> FALSE]
             /\ CompleteCollection(s, fence, sourceOf, outcomes)
        /\ Goto(w, "committed")
     \/ /\ \/ ~Owned(s, fence) \/ status[s] \notin Active
           \/ Cardinality(request[s].sources) > OutcomeLimit
        /\ Goto(w, "failing")
        /\ UNCHANGED storeVars
  /\ UNCHANGED <<queueVars, publisher, faults>>

\* Durable completion is checked, then the message is acknowledged.
Acknowledge(w) ==
  /\ worker[w].pc = "committed"
  /\ IF exec[worker[w].cmd].status = "completed" /\ Locked(w)
     THEN Acknowledged(w) /\ Done(w)
     ELSE Goto(w, "failing") /\ UNCHANGED queueVars
  /\ UNCHANGED <<storeVars, publisher, faults>>

\* Mutant: the last attempt ends the command also when it was interrupted.
SpentThoughInterrupted(w) == worker[w].fence >= Budget \/ worker[w].count >= Budget

\* The attempt has used the budget and failed by itself.
Spent(w) ==
  /\ worker[w].fence >= Budget \/ worker[w].count >= Budget
  /\ ~worker[w].stopping
  /\ ~worker[w].lostBeat

Recover(w) ==
  /\ worker[w].pc = "failing"
  /\ IF Spent(w) THEN TryFail(worker[w].cmd, worker[w].fence)
                 ELSE TryRelease(worker[w].cmd, worker[w].fence)
  /\ Goto(w, "backoff")
  /\ UNCHANGED <<queueVars, publisher, faults>>

\* visibility, when the lock is still there; then the finally block.
BackOff(w) ==
  /\ worker[w].pc = "backoff"
  /\ IF Locked(w)
     THEN copy' = [copy EXCEPT ![worker[w].msg].lock = BackoffTicks]
     ELSE UNCHANGED queueVars
  /\ IF worker[w].lostBeat THEN TryRelease(worker[w].cmd, worker[w].fence)
                           ELSE UNCHANGED storeVars
  /\ Done(w)
  /\ UNCHANGED <<publisher, faults>>

WorkerStep(w) ==
  \/ \E m \in Copies : Receive(w, m)
  \/ TakeUp(w)
  \/ AnswerRefused(w)
  \/ FailOverspent(w)
  \/ ReadSearch(w)
  \/ Begin(w)
  \/ EndCollection(w)
  \/ Commit(w)
  \/ Acknowledge(w)
  \/ Recover(w)
  \/ BackOff(w)

\* Every 15 s: renew the lease, then the lock, in one step here; either refusal
\* aborts the handler.
Heartbeat(w) ==
  LET s == worker[w].cmd
      fence == worker[w].fence
      alive == Owned(s, fence) /\ Locked(w) IN
  /\ worker[w].pc \in Handling
  /\ ~worker[w].lostBeat
  /\ IF Owned(s, fence) THEN Renew(s, fence) ELSE UNCHANGED storeVars
  /\ IF alive THEN /\ copy' = [copy EXCEPT ![worker[w].msg].lock = LeaseTicks]
                   /\ UNCHANGED worker
              ELSE /\ worker' = [worker EXCEPT ![w].lostBeat = TRUE]
                   /\ UNCHANGED queueVars
  /\ UNCHANGED <<publisher, faults>>

-----------------------------------------------------------------------------
(* The queue's stalled check, time, and faults *)

\* Mutant: the message comes back as a new one.
RedeliverAfresh(m) ==
  /\ copy[m].state = "active" /\ copy[m].lock = 0
  /\ copy' = [copy EXCEPT ![m] = NewMessage(copy[m].cmd)]
  /\ UNCHANGED <<storeVars, processVars, faults>>

\* An active message whose lock has lapsed is delivered again.  (BullMQ's limit
\* of stalls, five, is never passed before the limit of starts.)
Redeliver(m) ==
  /\ copy[m].state = "active" /\ copy[m].lock = 0
  /\ copy' = [copy EXCEPT ![m] = [@ EXCEPT !.state = "waiting", !.holder = NoWorker]]
  /\ UNCHANGED <<storeVars, processVars, faults>>

\* Whoever holds a live lease or lock acts on it before its last tick has passed.
Prompt ==
  /\ \A w \in Workers :
       /\ worker[w].fence > 0 /\ Owned(worker[w].cmd, worker[w].fence)
            => exec[worker[w].cmd].lease > 1
       /\ worker[w].pc \in Handling /\ Locked(w) => copy[worker[w].msg].lock > 1
  /\ publisher.pc = "judge" /\ Owned(publisher.cmd, publisher.fence)
       => exec[publisher.cmd].lease > 1

PassTime ==
  /\ StoreTick
  /\ copy' = [m \in Copies |-> [copy[m] EXCEPT !.lock = IF @ > 0 THEN @ - 1 ELSE 0]]
  /\ UNCHANGED processVars

Tick == Prompt /\ PassTime /\ UNCHANGED faults

Fault == faults < MaxFaults /\ faults' = faults + 1

\* A process that is too slow: time passes although a lease is about to lapse.
Stall == ~Prompt /\ PassTime /\ Fault

Crash(w) ==
  /\ worker[w].pc # "idle"
  /\ worker' = [worker EXCEPT ![w] = IdleWorker]
  /\ UNCHANGED <<storeVars, queueVars, publisher>>
  /\ Fault

Shutdown(w) ==
  /\ ~worker[w].stopping
  /\ worker' = [worker EXCEPT ![w].stopping = TRUE]
  /\ UNCHANGED <<storeVars, queueVars, publisher>>
  /\ Fault

\* The process left its loop and the host starts it again.
Restart(w) ==
  /\ worker[w].pc = "idle" /\ worker[w].stopping
  /\ worker' = [worker EXCEPT ![w] = IdleWorker]
  /\ UNCHANGED <<storeVars, queueVars, publisher, faults>>

\* A crash, or an error of Redis or PostgreSQL that ends this round of the loop.
PublisherRestart ==
  /\ publisher # IdlePublisher
  /\ publisher' = IdlePublisher
  /\ UNCHANGED <<storeVars, queueVars, worker>>
  /\ Fault

Lose(m) ==
  /\ copy[m].state \in {"waiting", "active"}
  /\ copy' = [copy EXCEPT ![m] = NoMessage]
  /\ UNCHANGED <<storeVars, processVars>>
  /\ Fault

-----------------------------------------------------------------------------

Next ==
  \/ \E s \in Searches : Submit(s) \/ Cancel(s)
  \/ PublisherStep
  \/ \E w \in Workers : WorkerStep(w) \/ Heartbeat(w) \/ Restart(w)
  \/ \E m \in Copies : Redeliver(m)
  \/ Tick
  \/ Stall
  \/ \E w \in Workers : Crash(w) \/ Shutdown(w)
  \/ PublisherRestart
  \/ \E m \in Copies : Lose(m)

Spec == Init /\ [][Next]_vars

\* The processes run on, the stalled check runs on a timer, time passes.  The
\* publisher walks the dead letters in rotation, so it comes back to each.
Fairness ==
  /\ WF_vars(Tick)
  /\ WF_vars(PublisherStep)
  /\ \A m \in Copies : SF_vars(ClaimLetter(m)) /\ WF_vars(Redeliver(m))
  /\ \A w \in Workers : WF_vars(WorkerStep(w)) /\ WF_vars(Restart(w))

FairSpec == Spec /\ Fairness

-----------------------------------------------------------------------------
(* What the processes keep together *)

\* Every attempt has a fence of its own: no two processes that claimed the same
\* command, the publisher's reconciliation among them, could both settle it.
FencesDistinct ==
  /\ \A v, w \in Workers :
       v # w /\ worker[v].cmd = worker[w].cmd /\ worker[v].fence > 0
         => worker[v].fence # worker[w].fence
  /\ \A w \in Workers :
       worker[w].cmd = publisher.cmd /\ publisher.fence > 0
         => worker[w].fence # publisher.fence

\* A message is taken out of the queue only when its work is durably completed,
\* never for a busy, failed or unfinished command; losing one is a fault.
AcknowledgedIsCompleted ==
  [][\A m \in Copies :
       copy[m].state # "free" /\ copy'[m].state = "free" /\ faults' = faults
         => exec[copy[m].cmd].status = "completed"]_vars

\* The attempts a command is given up in: the newest one, which failed by itself
\* on the last claim or delivery of the budget, or which claimed beyond it.
LastAttemptFailed(w, s) ==
  /\ worker[w].cmd = s /\ worker[w].fence = exec[s].fence
  /\ worker[w].fence = Budget \/ worker[w].count = Budget
  /\ ~worker[w].stopping /\ ~worker[w].lostBeat

ClaimedBeyondBudget(w, s) ==
  worker[w].cmd = s /\ worker[w].fence = exec[s].fence /\ worker[w].fence > Budget

DeadLetterJudged(s) ==
  /\ publisher.cmd = s /\ publisher.fence = exec[s].fence
  /\ \E m \in Copies : copy[m].cmd = s /\ copy[m].state = "dead" /\ copy[m].starts > Budget

\* An attempt that a shutdown or a lost heartbeat interrupts never fails its
\* search, the last one of the budget neither.  Only a claim or a delivery beyond
\* the budget does, however the attempts before it ended.
GivenUpWhenSpent ==
  [][\A s \in Searches :
       exec[s].status # "failed" /\ exec'[s].status = "failed"
         => \/ DeadLetterJudged(s)
            \/ \E w \in Workers : LastAttemptFailed(w, s) \/ ClaimedBeyondBudget(w, s)]_vars

\* Every submitted search gets an outcome, in the face of finitely many crashes,
\* lost messages, shutdowns and stalls.
RunsAreAnswered == Lifecycle!EveryoneIsAnswered

\* No message circulates for ever: it is acknowledged or becomes a dead letter.
QueueDrains ==
  \A m \in Copies : copy[m].state # "free" ~> copy[m].state \in {"free", "dead"}
=============================================================================
