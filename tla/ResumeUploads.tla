---------------------------- MODULE ResumeUploads ----------------------------
(***************************************************************************)
(* A resume from its upload to its deletion: the rows of resume_uploads    *)
(* and resume_results (packages/core/src/resumes.ts), the encrypted object *)
(* on disk (file-storage.ts), the calls of the API that work on both, and  *)
(* the files worker that parses the document.                              *)
(*                                                                         *)
(* An upload u stands for one owner and idempotency key.  Its row has an   *)
(* id of its own, and the object's path is made of that id, so the path of *)
(* a deleted upload is never used again.  A path holds nothing, an object  *)
(* at some version, or a cancellation marker.                              *)
(*                                                                         *)
(* Database and file system have no transaction in common: every await of  *)
(* a call is a step, calls on one upload interleave, and a call can stop   *)
(* after any of them (an aborted request, a deadline, a crash).            *)
(***************************************************************************)
EXTENDS Naturals

CONSTANTS
  Uploads,     \* ids of upload rows
  Calls,       \* API calls in progress at one time
  Workers,     \* files worker processes
  Versions,    \* version ids of stored objects
  Budget,      \* attempts a resume.parse command may use: 5
  MaxFaults,   \* calls and attempts that stop half way, and stalled writers
  NoUpload, NoVersion

ASSUME BudgetAssumption == Budget \in Nat \ {0}
ASSUME FaultsAssumption == MaxFaults \in Nat
ASSUME NullAssumption == NoUpload \notin Uploads /\ NoVersion \notin Versions

VARIABLES
  row,      \* resume_uploads: status and object_version
  result,   \* resume_results: how the parse ended
  exec,     \* command_executions of the resume.parse command
  file,     \* what is at the path of the object
  pending,  \* pending[c]: call c has a temporary file on disk
  call,     \* call[c]: where the API call stands
  worker,   \* worker[w]: where the files worker stands
  faults

vars == <<row, result, exec, file, pending, call, worker, faults>>
dbVars == <<row, result, exec>>
diskVars == <<file, pending>>

-----------------------------------------------------------------------------
(* Types *)

Absent == "absent"
Marker == "marker"

ASSUME VersionsAssumption == Absent \notin Versions /\ Marker \notin Versions

Row == [status : {"none", "uploading", "queued", "cancelling", "cancelled", "deleted"},
        version : Versions \union {NoVersion}]

Result == {"none", "parsed", "invalid_document", "processing_failed"}

\* Every fence above the budget is one that a fault left behind.
MaxFence == Budget + MaxFaults + 1

Execution == [status : {"none", "running", "completed", "failed"},
              fence : 0..MaxFence, live : BOOLEAN]

CallState == [pc : {"idle", "recover", "store", "publish", "recheck", "verify", "queue",
                    "find", "mark", "publishMarker", "replace", "finish", "remove", "erase"},
              u : Uploads \union {NoUpload}, version : Versions \union {NoVersion},
              retried : BOOLEAN]

IdleCall == [pc |-> "idle", u |-> NoUpload, version |-> NoVersion, retried |-> FALSE]

WorkerState == [pc : {"idle", "read", "parse", "settle", "fail", "failing"},
                u : Uploads \union {NoUpload}, fence : 0..MaxFence, outcome : Result]

IdleWorker == [pc |-> "idle", u |-> NoUpload, fence |-> 0, outcome |-> "none"]

UploadsTypeOK ==
  /\ row \in [Uploads -> Row]
  /\ result \in [Uploads -> Result]
  /\ exec \in [Uploads -> Execution]
  /\ file \in [Uploads -> Versions \union {Absent, Marker}]
  /\ pending \in [Calls -> BOOLEAN]
  /\ call \in [Calls -> CallState]
  /\ worker \in [Workers -> WorkerState]
  /\ faults \in 0..MaxFaults

Init ==
  /\ row = [u \in Uploads |-> [status |-> "none", version |-> NoVersion]]
  /\ result = [u \in Uploads |-> "none"]
  /\ exec = [u \in Uploads |-> [status |-> "none", fence |-> 0, live |-> FALSE]]
  /\ file = [u \in Uploads |-> Absent]
  /\ pending = [c \in Calls |-> FALSE]
  /\ call = [c \in Calls |-> IdleCall]
  /\ worker = [w \in Workers |-> IdleWorker]
  /\ faults = 0

-----------------------------------------------------------------------------
(* The store: recoverVersion, get and the temporary of a write *)

\* Mutant: a marker is taken for an object.
StoredAnything(u) == file[u] # Absent

Stored(u) == file[u] \in Versions

Goto(c, pc) == call' = [call EXCEPT ![c].pc = pc]
Return(c) == call' = [call EXCEPT ![c] = IdleCall]

\* recoverVersion found an object.
Found(c, pc) == call' = [call EXCEPT ![c] = [@ EXCEPT !.pc = pc, !.version = file[call[c].u]]]

\* deleteSettled keeps the row locked while the object is removed.
RowLocked(u) == \E c \in Calls : call[c].pc \in {"remove", "erase"} /\ call[c].u = u

\* A slot is free when its call returned and its temporary is gone.
Starts(c, u, pc) ==
  /\ call[c].pc = "idle" /\ ~pending[c]
  /\ call' = [call EXCEPT ![c] = [IdleCall EXCEPT !.pc = pc, !.u = u]]

\* removeTemporary is best effort: one that stays is left to the sweep.
Tidied(c) == pending' \in {pending, [pending EXCEPT ![c] = FALSE]}

\* A version is a fresh UUID: nothing refers to it yet.
Fresh(v) ==
  /\ \A u \in Uploads : file[u] # v /\ row[u].version # v
  /\ \A c \in Calls : call[c].version # v

-----------------------------------------------------------------------------
(* POST /api/resumes: ResumeUploadCoordinator.upload *)

\* reserve: the row is made once per key; the quotas are checked under locks.
Reserve(c, u) ==
  /\ row[u].status \in {"none", "uploading"}
  /\ Starts(c, u, "recover")
  /\ row' = [row EXCEPT ![u].status = "uploading"]
  /\ UNCHANGED <<result, exec, diskVars, worker, faults>>

\* An object that an earlier attempt stored is used again; a marker ends the call.
Recover(c) ==
  /\ call[c].pc = "recover"
  /\ CASE Stored(call[c].u) -> Found(c, "verify")
       [] file[call[c].u] = Marker -> Return(c)
       [] OTHER -> Goto(c, "store")
  /\ UNCHANGED <<dbVars, diskVars, worker, faults>>

\* put: the encrypted envelope is written to a temporary, or refused for space.
Store(c) ==
  /\ call[c].pc = "store"
  /\ \/ /\ \E v \in Versions :
             /\ Fresh(v)
             /\ call' = [call EXCEPT ![c] = [@ EXCEPT !.pc = "publish", !.version = v]]
        /\ pending' = [pending EXCEPT ![c] = TRUE]
     \/ /\ Goto(c, "recheck")
        /\ UNCHANGED pending
  /\ UNCHANGED <<dbVars, file, worker, faults>>

\* Mutant: the object replaces whatever is at its path, as rename would.
PublishOver(c) ==
  /\ call[c].pc = "publish"
  /\ file' = [file EXCEPT ![call[c].u] = call[c].version]
  /\ Goto(c, "verify")
  /\ Tidied(c)
  /\ UNCHANGED <<dbVars, worker, faults>>

\* The link is exclusive.  A temporary that was swept away is written once more.
Publish(c) ==
  LET u == call[c].u IN
  /\ call[c].pc = "publish"
  /\ \/ /\ pending[c] /\ file[u] = Absent
        /\ file' = [file EXCEPT ![u] = call[c].version]
        /\ Goto(c, "verify")
        /\ Tidied(c)
     \/ /\ pending[c] /\ file[u] # Absent
        /\ Goto(c, "recheck")
        /\ Tidied(c)
        /\ UNCHANGED file
     \/ /\ ~pending[c]
        /\ IF call[c].retried
           THEN Goto(c, "recheck")
           ELSE call' = [call EXCEPT ![c] = [@ EXCEPT !.pc = "store", !.retried = TRUE]]
        /\ UNCHANGED diskVars
  /\ UNCHANGED <<dbVars, worker, faults>>

\* After a failed put: another call may have stored the object.
Recheck(c) ==
  /\ call[c].pc = "recheck"
  /\ IF Stored(call[c].u) THEN Found(c, "verify") ELSE Return(c)
  /\ UNCHANGED <<dbVars, diskVars, worker, faults>>

\* The object is read back at its version before it is queued.
Verify(c) ==
  /\ call[c].pc = "verify"
  /\ IF file[call[c].u] = call[c].version THEN Goto(c, "queue") ELSE Return(c)
  /\ UNCHANGED <<dbVars, diskVars, worker, faults>>

Queueable(u) == row[u].status = "uploading"

\* queueStoredUpload, under the lock of the row: the row and its command.  A
\* queued row, a cancelled and a deleted one change nothing.
QueueStoredUpload(c) ==
  LET u == call[c].u IN
  /\ call[c].pc = "queue"
  /\ ~RowLocked(u)
  /\ row' = IF Queueable(u)
            THEN [row EXCEPT ![u] = [status |-> "queued", version |-> call[c].version]]
            ELSE row
  /\ Return(c)
  /\ UNCHANGED <<result, exec, diskVars, worker, faults>>

-----------------------------------------------------------------------------
(* POST /api/resumes/:id/recover: ResumeUploadCoordinator.reconcile *)

Reconcile(c, u) ==
  /\ row[u].status = "uploading"
  /\ Starts(c, u, "find")
  /\ UNCHANGED <<dbVars, diskVars, worker, faults>>

Find(c) ==
  /\ call[c].pc = "find"
  /\ IF Stored(call[c].u) THEN Found(c, "queue") ELSE Return(c)
  /\ UNCHANGED <<dbVars, diskVars, worker, faults>>

-----------------------------------------------------------------------------
(* POST /api/resumes/:id/cancel: cancelUpload of the row and of the object *)

Cancellable(u) == row[u].status \in {"uploading", "cancelling"}

Cancel(c, u) ==
  /\ Cancellable(u)
  /\ ~RowLocked(u)
  /\ Starts(c, u, "mark")
  /\ row' = [row EXCEPT ![u] = [status |-> "cancelling", version |-> NoVersion]]
  /\ UNCHANGED <<result, exec, diskVars, worker, faults>>

\* A marker already there is enough; the quota of markers may refuse another.
Mark(c) ==
  /\ call[c].pc = "mark"
  /\ \/ file[call[c].u] = Marker /\ Goto(c, "finish") /\ UNCHANGED pending
     \/ file[call[c].u] # Marker /\ Return(c) /\ UNCHANGED pending
     \/ /\ file[call[c].u] # Marker
        /\ Goto(c, "publishMarker")
        /\ pending' = [pending EXCEPT ![c] = TRUE]
  /\ UNCHANGED <<dbVars, file, worker, faults>>

\* publishCancellation: the link, or a look at what is in the way.  A swept
\* temporary is written once more.
PublishMarker(c) ==
  LET u == call[c].u IN
  /\ call[c].pc = "publishMarker"
  /\ \/ /\ pending[c] /\ file[u] = Absent
        /\ file' = [file EXCEPT ![u] = Marker]
        /\ Goto(c, "finish")
        /\ Tidied(c)
     \/ /\ pending[c] /\ file[u] = Marker
        /\ Goto(c, "finish")
        /\ Tidied(c)
        /\ UNCHANGED file
     \/ /\ pending[c] /\ Stored(u)
        /\ Goto(c, "replace")
        /\ UNCHANGED diskVars
     \/ /\ ~pending[c]
        /\ IF call[c].retried
           THEN Return(c)
           ELSE call' = [call EXCEPT ![c] = [@ EXCEPT !.pc = "mark", !.retried = TRUE]]
        /\ UNCHANGED diskVars
  /\ UNCHANGED <<dbVars, worker, faults>>

\* The rename puts the marker in the place of the object that was read.
Replace(c) ==
  /\ call[c].pc = "replace"
  /\ IF pending[c]
     THEN /\ file' = [file EXCEPT ![call[c].u] = Marker]
          /\ pending' = [pending EXCEPT ![c] = FALSE]
          /\ Goto(c, "finish")
     ELSE /\ IF call[c].retried
             THEN Return(c)
             ELSE call' = [call EXCEPT ![c] = [@ EXCEPT !.pc = "mark", !.retried = TRUE]]
          /\ UNCHANGED diskVars
  /\ UNCHANGED <<dbVars, worker, faults>>

FinishCancel(c) ==
  /\ call[c].pc = "finish"
  /\ row' = [row EXCEPT ![call[c].u].status = IF @ = "cancelling" THEN "cancelled" ELSE @]
  /\ Return(c)
  /\ UNCHANGED <<result, exec, diskVars, worker, faults>>

-----------------------------------------------------------------------------
(* DELETE /api/resumes/:id: deleteSettled *)

\* Mutant: an upload can be deleted while its parse is running.
DeletableQueued(u) == row[u].status = "queued"

Deletable(u) == row[u].status = "queued" /\ result[u] # "none"

\* A cancelled upload has no object; its marker stays.
DeleteCancelled(u) ==
  /\ row[u].status = "cancelled"
  /\ row' = [row EXCEPT ![u] = [status |-> "deleted", version |-> NoVersion]]
  /\ UNCHANGED <<result, exec, diskVars, call, worker, faults>>

Delete(c, u) ==
  /\ Deletable(u)
  /\ ~RowLocked(u)
  /\ Starts(c, u, "remove")
  /\ UNCHANGED <<dbVars, diskVars, worker, faults>>

\* The object goes first.  One that is already gone is not an error.
RemoveObject(c) ==
  LET u == call[c].u IN
  /\ call[c].pc = "remove"
  /\ IF file[u] \in {Absent, row[u].version}
     THEN file' = [file EXCEPT ![u] = Absent] /\ Goto(c, "erase")
     ELSE Return(c) /\ UNCHANGED file
  /\ UNCHANGED <<dbVars, pending, worker, faults>>

EraseRows(c) ==
  LET u == call[c].u IN
  /\ call[c].pc = "erase"
  /\ row' = [row EXCEPT ![u] = [status |-> "deleted", version |-> NoVersion]]
  /\ result' = [result EXCEPT ![u] = "none"]
  /\ Return(c)
  /\ UNCHANGED <<exec, diskVars, worker, faults>>

CallStep(c) ==
  \/ Recover(c) \/ Store(c) \/ Publish(c) \/ Recheck(c) \/ Verify(c) \/ QueueStoredUpload(c)
  \/ Find(c)
  \/ Mark(c) \/ PublishMarker(c) \/ Replace(c) \/ FinishCancel(c)
  \/ RemoveObject(c) \/ EraseRows(c)

-----------------------------------------------------------------------------
(* The files worker: resumeParseHandler under consumeMessage; a worker here  *)
(* is also the publisher that reconciles a dead letter.  The command exists  *)
(* with the queued row, and its message is always delivered again.           *)

Owned(w) == LET e == exec[worker[w].u] IN
  e.status = "running" /\ e.fence = worker[w].fence /\ e.live

\* A worker claims to parse.  A claim above the budget, and the publisher's
\* claim for a dead letter, only record the failure.
Claim(w, u) ==
  /\ worker[w].pc = "idle"
  /\ row[u].version # NoVersion
  /\ \/ exec[u].status = "none"
     \/ exec[u].status = "running" /\ ~exec[u].live
  /\ exec[u].fence < MaxFence
  /\ exec' = [exec EXCEPT ![u] = [status |-> "running", fence |-> @.fence + 1, live |-> TRUE]]
  /\ \E pc \in {"read", "fail"} :
       /\ pc = "read" => exec[u].fence < Budget
       /\ worker' = [worker EXCEPT ![w] = [pc |-> pc, u |-> u, fence |-> exec[u].fence + 1,
                                           outcome |-> "none"]]
  /\ UNCHANGED <<row, result, diskVars, call, faults>>

\* The stored upload and its object, at the version in the row.
ReadDocument(w) ==
  LET u == worker[w].u IN
  /\ worker[w].pc = "read"
  /\ worker' = [worker EXCEPT ![w].pc =
                  IF row[u].version # NoVersion /\ file[u] = row[u].version
                  THEN "parse" ELSE "failing"]
  /\ UNCHANGED <<dbVars, diskVars, call, faults>>

\* parseResumeIsolated: a document, a rejection, or a failure of the parser.
Parse(w) ==
  /\ worker[w].pc = "parse"
  /\ \/ \E outcome \in {"parsed", "invalid_document"} :
          worker' = [worker EXCEPT ![w] = [@ EXCEPT !.pc = "settle", !.outcome = outcome]]
     \/ worker' = [worker EXCEPT ![w].pc = "failing"]
  /\ UNCHANGED <<dbVars, diskVars, call, faults>>

\* Mutant: the result is written and the execution is left running.
SettleParseOnly(w, outcome) ==
  LET u == worker[w].u IN
  /\ result' = [result EXCEPT ![u] = outcome]
  /\ UNCHANGED <<row, exec>>

\* settleParse: the execution and the result in one transaction.
SettleParse(w, outcome) ==
  LET u == worker[w].u IN
  /\ result' = [result EXCEPT ![u] = outcome]
  /\ exec' = [exec EXCEPT ![u].status =
                IF outcome = "processing_failed" THEN "failed" ELSE "completed"]
  /\ UNCHANGED row

\* Mutant: a late attempt is not told from the one that superseded it.
EligibleAlways(w) == row[worker[w].u].status = "queued"

Eligible(w) == Owned(w) /\ row[worker[w].u].status = "queued"

Settle(w) ==
  /\ worker[w].pc = "settle"
  /\ IF Eligible(w)
     THEN SettleParse(w, worker[w].outcome) /\ worker' = [worker EXCEPT ![w] = IdleWorker]
     ELSE worker' = [worker EXCEPT ![w].pc = "failing"] /\ UNCHANGED dbVars
  /\ UNCHANGED <<diskVars, call, faults>>

\* Mutant: a spent command is failed as Database.fail does, without a result.
FailExecution(w) ==
  /\ exec' = IF Owned(w) THEN [exec EXCEPT ![worker[w].u].status = "failed"] ELSE exec
  /\ UNCHANGED <<row, result>>

\* The fail callback of consumeMessage and reconcileDeadLetter for resumes.
FailParse(w) ==
  IF Eligible(w) THEN SettleParse(w, "processing_failed") ELSE UNCHANGED dbVars

RecordFailure(w) ==
  /\ worker[w].pc = "fail"
  /\ FailParse(w)
  /\ worker' = [worker EXCEPT ![w] = IdleWorker]
  /\ UNCHANGED <<diskVars, call, faults>>

\* The catch of consumeMessage: the fence or the deliveries of the message may
\* be spent, and the parse is recorded as failed; otherwise the lease ends.
GiveUp(w) ==
  /\ worker[w].pc = "failing"
  /\ \/ FailParse(w)
     \/ /\ worker[w].fence < Budget
        /\ exec' = IF Owned(w) THEN [exec EXCEPT ![worker[w].u].live = FALSE] ELSE exec
        /\ UNCHANGED <<row, result>>
  /\ worker' = [worker EXCEPT ![w] = IdleWorker]
  /\ UNCHANGED <<diskVars, call, faults>>

WorkerStep(w) ==
  \/ \E u \in Uploads : Claim(w, u)
  \/ ReadDocument(w) \/ Parse(w) \/ Settle(w) \/ RecordFailure(w) \/ GiveUp(w)

-----------------------------------------------------------------------------
(* Sweeps, time and faults *)

Fault == faults < MaxFaults /\ faults' = faults + 1

\* An aborted request, a deadline or a crash: the call goes no further and its
\* temporary stays.
Stop(c) ==
  /\ call[c].pc # "idle"
  /\ Return(c)
  /\ Fault
  /\ UNCHANGED <<dbVars, diskVars, worker>>

\* The lease of an attempt lapses: nobody holds it, or its holder stalls.
LapseUnheld(u) ==
  /\ exec[u].status = "running" /\ exec[u].live
  /\ \A w \in Workers : worker[w].u = u => worker[w].fence # exec[u].fence
  /\ exec' = [exec EXCEPT ![u].live = FALSE]
  /\ UNCHANGED <<row, result, diskVars, call, worker, faults>>

StallAttempt(u) ==
  /\ exec[u].status = "running" /\ exec[u].live
  /\ \E w \in Workers : worker[w].u = u /\ worker[w].fence = exec[u].fence
  /\ exec' = [exec EXCEPT ![u].live = FALSE]
  /\ Fault
  /\ UNCHANGED <<row, result, diskVars, call, worker>>

CrashWorker(w) ==
  /\ worker[w].pc # "idle"
  /\ worker' = [worker EXCEPT ![w] = IdleWorker]
  /\ Fault
  /\ UNCHANGED <<dbVars, diskVars, call>>

\* reclaimTemporariesAtStartup: temporaries of ten minutes and more, which a
\* call in progress has only when it stalls.
Sweep(c) ==
  /\ call[c].pc = "idle" /\ pending[c]
  /\ pending' = [pending EXCEPT ![c] = FALSE]
  /\ UNCHANGED <<dbVars, file, call, worker, faults>>

SweepStalled(c) ==
  /\ call[c].pc # "idle" /\ pending[c]
  /\ pending' = [pending EXCEPT ![c] = FALSE]
  /\ Fault
  /\ UNCHANGED <<dbVars, file, call, worker>>

\* Mutant: markers are reclaimed while the upload can still be published.
ReclaimMarkerEarly(u) ==
  /\ file[u] = Marker
  /\ file' = [file EXCEPT ![u] = Absent]
  /\ UNCHANGED <<dbVars, pending, call, worker, faults>>

\* reclaimExpiredMarkers: a day later no call that began before the marker is
\* still in progress, since a call ends after 45 s.
ReclaimMarker(u) ==
  /\ file[u] = Marker
  /\ \A c \in Calls : call[c].u # u
  /\ file' = [file EXCEPT ![u] = Absent]
  /\ UNCHANGED <<dbVars, pending, call, worker, faults>>

Next ==
  \/ \E c \in Calls :
       \/ \E u \in Uploads : Reserve(c, u) \/ Reconcile(c, u) \/ Cancel(c, u) \/ Delete(c, u)
       \/ CallStep(c)
       \/ Stop(c) \/ Sweep(c) \/ SweepStalled(c)
  \/ \E w \in Workers : WorkerStep(w) \/ CrashWorker(w)
  \/ \E u \in Uploads :
       DeleteCancelled(u) \/ LapseUnheld(u) \/ StallAttempt(u) \/ ReclaimMarker(u)

Spec == Init /\ [][Next]_vars

\* The workers run on and the leases nobody renews end.  Nothing is assumed of
\* the calls: a client may go away, and a deletion may never come.
Fairness ==
  /\ \A w \in Workers : WF_vars(WorkerStep(w))
  /\ \A u \in Uploads : WF_vars(LapseUnheld(u))

FairSpec == Spec /\ Fairness

-----------------------------------------------------------------------------
(* What the database and the disk keep together *)

\* A queued upload can be parsed: its object is on disk at the version of its
\* row until the parse is over, whatever other calls for the same upload do.
QueuedHasObject ==
  \A u \in Uploads :
    row[u].status = "queued" /\ result[u] = "none" => file[u] = row[u].version

\* No object is left of a cancelled upload, also when a slow call goes on to
\* store it after the cancellation, and after its marker was reclaimed.
CancelledHasNoObject ==
  \A u \in Uploads : row[u].status = "cancelled" => ~Stored(u)

\* The result a client reads and the execution of the command agree: there is a
\* result exactly when the command is over, and it says why.
ResultTellsExecution ==
  \A u \in Uploads :
    /\ row[u].status = "queued" =>
         /\ result[u] = "none" <=> exec[u].status \in {"none", "running"}
         /\ result[u] = "processing_failed" <=> exec[u].status = "failed"
    /\ row[u].status \in {"none", "uploading", "cancelling", "cancelled"} =>
         result[u] = "none" /\ exec[u].status = "none"

\* A published object is never overwritten by another, and it is taken away
\* only by a cancellation or by the deletion of a settled upload.
ObjectsAreNotOverwritten ==
  [][\A u \in Uploads :
       Stored(u) /\ file'[u] # file[u] =>
         \/ file'[u] = Marker /\ row[u].status = "cancelling"
         \/ file'[u] = Absent /\ row[u].status = "queued" /\ result[u] # "none"]_vars

\* A result, once a client may have seen it, is not replaced by a late attempt.
ResultsAreFinal ==
  [][\A u \in Uploads :
       result[u] # "none" /\ result'[u] # result[u] => row'[u].status = "deleted"]_vars

\* Every queued upload is answered, or deleted after its answer.
UploadsAreAnswered ==
  \A u \in Uploads :
    row[u].status = "queued" ~> (result[u] # "none" \/ row[u].status = "deleted")

\* "Until the owner deletes the upload" (docs/security/DATA-CLASSIFICATION.md:43)
\* is how long the bytes of a resume are kept.
DeletedLeavesNoObject == \A u \in Uploads : row[u].status = "deleted" => ~Stored(u)
=============================================================================
