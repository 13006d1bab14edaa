------------------------- MODULE ResumeUploadsProofs -------------------------
(***************************************************************************)
(* Theorems about ResumeUploads, for any number of uploads, calls, workers *)
(* and versions, any budget, and any number of faults.                     *)
(***************************************************************************)
EXTENDS ResumeUploads, TLAPS

Place == Versions \union {Absent, Marker}

Before == {"none", "uploading", "cancelling", "cancelled"}
Called == {"mark", "publishMarker", "replace", "finish"}     \* calls that cancel
Locked == {"remove", "erase"}                                \* calls that delete

\* What the row, the result, the execution and the object of one upload say.
UploadOK(r, o, e, f) ==
  /\ r.status = "queued" <=> r.version # NoVersion
  /\ r.status = "queued" =>
       /\ o = "none" <=> e.status \in {"none", "running"}
       /\ o = "processing_failed" <=> e.status = "failed"
       /\ o = "none" => f = r.version
  /\ r.status \in Before => o = "none" /\ e.status = "none"
  /\ r.status = "cancelled" => f \in {Absent, Marker}

\* What a call in progress knows of its upload: a version to publish or to queue is
\* one; the object that is about to be queued is in its place; a cancellation is
\* over only when its marker is; and a locked row stays settled.
CallOK(k, r, o, f) ==
  /\ k.pc \in {"publish", "verify", "queue"} => k.version \in Versions
  /\ k.pc = "queue" /\ r.status \in {"none", "uploading"} => f = k.version
  /\ k.pc \in Called =>
       /\ r.status \in {"cancelling", "cancelled", "deleted"}
       /\ r.status # "cancelling" \/ k.pc = "finish" => f = Marker
  /\ k.pc \in Locked => r.status = "queued" /\ o # "none"

UploadsInv == \A u \in Uploads : UploadOK(row[u], result[u], exec[u], file[u])

CallsInv ==
  /\ \A c \in Calls :
       \/ call[c] = IdleCall
       \/ /\ call[c].u \in Uploads /\ call[c].pc # "idle"
          /\ CallOK(call[c], row[call[c].u], result[call[c].u], file[call[c].u])
  /\ \A c, d \in Calls :
       call[c].pc \in Locked /\ call[d].pc \in Locked /\ call[c].u = call[d].u => c = d

\* Where the marker of a cancelled upload is gone, no call is left to store an object.
MarkersInv ==
  \A u \in Uploads, c \in Calls :
    row[u].status = "cancelled" /\ file[u] = Absent => call[c].u # u

WorkersInv ==
  \A w \in Workers :
    /\ worker[w].pc # "idle" => worker[w].u \in Uploads
    /\ worker[w].pc = "settle" => worker[w].outcome \in {"parsed", "invalid_document"}

Inv == UploadsTypeOK /\ UploadsInv /\ CallsInv /\ MarkersInv /\ WorkersInv


-----------------------------------------------------------------------------
(* Steps in general *)

LEMMA UploadFacts ==
  ASSUME Inv, NEW u \in Uploads
  PROVE  /\ row \in [Uploads -> Row] /\ result \in [Uploads -> Result]
         /\ exec \in [Uploads -> Execution] /\ file \in [Uploads -> Place]
         /\ row[u] \in Row /\ result[u] \in Result /\ exec[u] \in Execution /\ file[u] \in Place
         /\ UploadOK(row[u], result[u], exec[u], file[u])
         /\ row[u].status = "queued" => row[u].version \in Versions
<1>1. /\ row \in [Uploads -> Row] /\ result \in [Uploads -> Result]
      /\ exec \in [Uploads -> Execution] /\ file \in [Uploads -> Place]
      /\ UploadOK(row[u], result[u], exec[u], file[u])
  BY DEF Inv, UploadsTypeOK, UploadsInv, Place
<1>2. row[u].status = "queued" => row[u].version \in Versions
  BY <1>1 DEF UploadOK, Row
<1>. QED
  BY <1>1, <1>2

LEMMA CallFacts ==
  ASSUME Inv, NEW c \in Calls
  PROVE  /\ call \in [Calls -> CallState] /\ pending \in [Calls -> BOOLEAN]
         /\ call[c] \in CallState /\ faults \in 0..MaxFaults
         /\ call[c].pc # "idle" =>
              /\ call[c].u \in Uploads
              /\ CallOK(call[c], row[call[c].u], result[call[c].u], file[call[c].u])
         /\ call[c].pc = "idle" => call[c] = IdleCall /\ call[c].u \notin Uploads
<1>1. /\ call \in [Calls -> CallState] /\ pending \in [Calls -> BOOLEAN]
      /\ faults \in 0..MaxFaults
  BY DEF Inv, UploadsTypeOK
<1>2. \/ call[c] = IdleCall
      \/ /\ call[c].u \in Uploads /\ call[c].pc # "idle"
         /\ CallOK(call[c], row[call[c].u], result[call[c].u], file[call[c].u])
  BY DEF Inv, CallsInv
<1>3. IdleCall.pc = "idle" /\ IdleCall.u \notin Uploads
  BY NullAssumption DEF IdleCall
<1>. QED
  BY <1>1, <1>2, <1>3

LEMMA IdleCallType == IdleCall \in CallState /\ IdleCall.pc = "idle" /\ IdleCall.u = NoUpload
BY DEF IdleCall, CallState

\* A step about upload u: other uploads are left alone.
OnlyUpload(u) ==
  /\ row' \in [Uploads -> Row] /\ result' \in [Uploads -> Result]
  /\ file' \in [Uploads -> Place]
  /\ \A v \in Uploads \ {u} :
       row'[v] = row[v] /\ result'[v] = result[v] /\ file'[v] = file[v]
  /\ UNCHANGED <<exec, worker>>
  /\ pending' \in [Calls -> BOOLEAN] /\ faults' \in 0..MaxFaults

\* What the step leaves in place suits upload u and call k.
UploadSuits(u) == UploadOK(row'[u], result'[u], exec[u], file'[u])

Suits(k, u) == CallOK(k, row'[u], result'[u], file'[u])

LEMMA UploadStepInv ==
  ASSUME Inv, NEW u \in Uploads, OnlyUpload(u), UploadSuits(u),
         call' \in [Calls -> CallState],
         \A c \in Calls : call'[c].u # u => call'[c] = call[c] \/ call'[c] = IdleCall,
         \A c \in Calls : call'[c].u = u => call'[c].pc # "idle" /\ Suits(call'[c], u),
         \A c, d \in Calls :
           call'[c].pc \in Locked /\ call'[c].u = u /\ call'[d].pc \in Locked /\ call'[d].u = u =>
             c = d,
         row'[u].status = "cancelled" /\ file'[u] = Absent => \A c \in Calls : call'[c].u # u
  PROVE  Inv'
<1>1. UploadsTypeOK'
  BY DEF Inv, UploadsTypeOK, Place, OnlyUpload
<1>2. UploadsInv'
  <2>. SUFFICES ASSUME NEW v \in Uploads
                PROVE  UploadOK(row'[v], result'[v], exec'[v], file'[v])
    BY DEF UploadsInv
  <2>1. exec' = exec
    BY DEF OnlyUpload
  <2>2. CASE v = u
    BY <2>1, <2>2 DEF UploadSuits
  <2>3. CASE v # u
    <3>1. row'[v] = row[v] /\ result'[v] = result[v] /\ file'[v] = file[v]
      BY <2>3 DEF OnlyUpload
    <3>. QED
      BY <2>1, <3>1, UploadFacts
  <2>. QED
    BY <2>2, <2>3
<1>3. ASSUME NEW c \in Calls
      PROVE  \/ call'[c] = IdleCall
             \/ /\ call'[c].u \in Uploads /\ call'[c].pc # "idle"
                /\ CallOK(call'[c], row'[call'[c].u], result'[call'[c].u], file'[call'[c].u])
  <2>1. CASE call'[c].u = u
    BY <2>1 DEF Suits
  <2>2. CASE call'[c].u # u /\ call'[c] # IdleCall
    <3>1. call'[c] = call[c] /\ call[c].pc # "idle"
      BY <2>2, CallFacts
    <3>2. call[c].u \in Uploads \ {u}
      BY <2>2, <3>1, CallFacts
    <3>. QED
      BY <3>1, <3>2, CallFacts DEF OnlyUpload
  <2>. QED
    BY <2>1, <2>2
<1>4. ASSUME NEW c \in Calls, NEW d \in Calls, call'[c].pc \in Locked, call'[d].pc \in Locked,
             call'[c].u = call'[d].u
      PROVE  c = d
  <2>1. CASE call'[c].u = u
    BY <1>4, <2>1
  <2>2. CASE call'[c].u # u
    <3>1. call'[c] = call[c] /\ call'[d] = call[d]
      BY <1>4, <2>2, IdleCallType DEF Locked
    <3>. QED
      BY <1>4, <3>1 DEF Inv, CallsInv
  <2>. QED
    BY <2>1, <2>2
<1>5. MarkersInv'
  <2>. SUFFICES ASSUME NEW v \in Uploads, NEW c \in Calls, row'[v].status = "cancelled",
                       file'[v] = Absent, call'[c].u = v
                PROVE  FALSE
    BY DEF MarkersInv
  <2>1. v # u
    OBVIOUS
  <2>2. call'[c] = call[c]
    BY <2>1, IdleCallType, NullAssumption
  <2>. QED
    BY <2>1, <2>2 DEF Inv, MarkersInv, OnlyUpload
<1>6. WorkersInv'
  BY DEF Inv, WorkersInv, OnlyUpload
<1>. QED
  BY <1>1, <1>2, <1>3, <1>4, <1>5, <1>6 DEF Inv, CallsInv

\* A step of call c: what it makes of its upload suits the other calls for it.
LEMMA CallStepInv ==
  ASSUME Inv, NEW u \in Uploads, OnlyUpload(u), UploadSuits(u),
         NEW c \in Calls, call[c].u = u \/ call[c].pc = "idle",
         NEW x \in CallState, call' = [call EXCEPT ![c] = x],
         x = IdleCall \/ (x.u = u /\ x.pc # "idle" /\ Suits(x, u)),
         \A d \in Calls \ {c} : call[d].u = u => Suits(call[d], u),
         x.pc \in Locked => call[c].pc \in Locked \/ ~RowLocked(u),
         row'[u].status = "cancelled" /\ file'[u] = Absent =>
           /\ row[u].status = "cancelled" /\ file[u] = Absent
           /\ x.pc # "idle" => call[c].pc # "idle"
  PROVE  Inv'
<1>1. /\ call' \in [Calls -> CallState] /\ call'[c] = x
      /\ \A d \in Calls \ {c} : call'[d] = call[d]
  BY CallFacts
<1>2. ASSUME NEW d \in Calls, call'[d].u # u PROVE call'[d] = call[d] \/ call'[d] = IdleCall
  BY <1>1, <1>2
<1>3. ASSUME NEW d \in Calls, call'[d].u = u PROVE call'[d].pc # "idle" /\ Suits(call'[d], u)
  <2>1. CASE d = c
    BY <1>1, <1>3, <2>1, IdleCallType, NullAssumption
  <2>2. CASE d # c
    BY <1>1, <1>3, <2>2, CallFacts
  <2>. QED
    BY <2>1, <2>2
<1>4. ASSUME NEW d \in Calls \ {c}, call'[c].pc \in Locked, call'[c].u = u,
             call'[d].pc \in Locked, call'[d].u = u
      PROVE  FALSE
  <2>1. call[d].pc \in Locked /\ call[d].u = u
    BY <1>1, <1>4
  <2>2. RowLocked(u)
    BY <2>1 DEF RowLocked, Locked
  <2>3. call[c].pc \in Locked /\ call[c].u = u
    BY <1>1, <1>4, <2>2 DEF Locked
  <2>. QED
    BY <2>1, <2>3 DEF Inv, CallsInv
<1>5. ASSUME NEW d \in Calls, NEW e \in Calls, call'[d].pc \in Locked, call'[d].u = u,
             call'[e].pc \in Locked, call'[e].u = u
      PROVE  d = e
  <2>1. CASE d # c /\ e # c
    BY <1>1, <1>5, <2>1 DEF Inv, CallsInv
  <2>. QED
    BY <1>4, <1>5, <2>1
<1>6. ASSUME row'[u].status = "cancelled", file'[u] = Absent, NEW d \in Calls, call'[d].u = u
      PROVE  FALSE
  <2>1. \A e \in Calls : call[e].u # u
    BY <1>6 DEF Inv, MarkersInv
  <2>2. d = c
    BY <1>1, <1>6, <2>1
  <2>3. x.u = u /\ x.pc # "idle" /\ call[c].pc = "idle"
    BY <1>1, <1>6, <2>1, <2>2, IdleCallType, NullAssumption
  <2>. QED
    BY <1>6, <2>3
<1>. QED
  BY <1>1, <1>2, <1>3, <1>5, <1>6, UploadStepInv

-----------------------------------------------------------------------------
(* Calls *)

\* A step of call c that changes no row and no object.
LEMMA QuietInv ==
  ASSUME Inv, UNCHANGED <<row, result, exec, file, worker>>, NEW u \in Uploads, NEW c \in Calls,
         call[c].u = u \/ call[c].pc = "idle",
         NEW x \in CallState, call' = [call EXCEPT ![c] = x],
         x = IdleCall \/ (x.u = u /\ x.pc # "idle" /\ CallOK(x, row[u], result[u], file[u])),
         pending' \in [Calls -> BOOLEAN], faults' \in 0..MaxFaults,
         x.pc \in Locked => call[c].pc \in Locked \/ ~RowLocked(u),
         x.pc # "idle" /\ call[c].pc = "idle" => row[u].status # "cancelled"
  PROVE  Inv'
<1>1. row' = row /\ result' = result /\ file' = file /\ UNCHANGED <<exec, worker>>
  OBVIOUS
<1>2. OnlyUpload(u) /\ UploadSuits(u)
  BY <1>1, UploadFacts DEF OnlyUpload, UploadSuits
<1>3. \A d \in Calls \ {c} : call[d].u = u => Suits(call[d], u)
  BY <1>1, CallFacts DEF Suits
<1>4. x = IdleCall \/ (x.u = u /\ x.pc # "idle" /\ Suits(x, u))
  BY <1>1 DEF Suits
<1>. QED
  BY <1>1, <1>2, <1>3, <1>4, CallStepInv

LEMMA ReturnInv ==
  ASSUME Inv, NEW c \in Calls, call[c].pc # "idle", Return(c),
         UNCHANGED <<row, result, exec, file, worker>>,
         pending' \in [Calls -> BOOLEAN], faults' \in 0..MaxFaults
  PROVE  Inv'
<1>1. call' = [call EXCEPT ![c] = IdleCall] /\ call[c].u \in Uploads
  BY CallFacts DEF Return
<1>2. PICK u \in Uploads : call[c].u = u
  BY <1>1
<1>3. PICK x \in CallState : x = IdleCall /\ x.pc = "idle" /\ x.pc \notin Locked
  BY IdleCallType DEF Locked
<1>4. call' = [call EXCEPT ![c] = x]
  BY <1>1, <1>3
<1>5. /\ x = IdleCall \/ (x.u = u /\ x.pc # "idle" /\ CallOK(x, row[u], result[u], file[u]))
      /\ call[c].u = u \/ call[c].pc = "idle"
      /\ x.pc \in Locked => call[c].pc \in Locked \/ ~RowLocked(u)
      /\ x.pc # "idle" /\ call[c].pc = "idle" => row[u].status # "cancelled"
  BY <1>2, <1>3
<1>. QED
  BY <1>4, <1>5, QuietInv

Pcs == {"recover", "store", "publish", "recheck", "verify", "queue", "find", "mark",
        "publishMarker", "replace", "finish", "remove", "erase"}

\* The call goes on to pc, perhaps with version v or for its second try.
LEMMA GoOnInv ==
  ASSUME Inv, NEW c \in Calls, call[c].pc # "idle",
         UNCHANGED <<row, result, exec, file, worker>>, faults' = faults,
         pending' \in [Calls -> BOOLEAN],
         NEW pc \in Pcs, NEW v \in Versions \union {NoVersion},
         \/ Goto(c, pc) /\ v = call[c].version
         \/ call' = [call EXCEPT ![c] = [@ EXCEPT !.pc = pc, !.version = v]]
         \/ call' = [call EXCEPT ![c] = [@ EXCEPT !.pc = pc, !.retried = TRUE]] /\ v = call[c].version,
         pc \in {"publish", "verify", "queue"} => v \in Versions,
         pc = "queue" /\ row[call[c].u].status \in {"none", "uploading"} => file[call[c].u] = v,
         pc \in Called =>
           /\ row[call[c].u].status \in {"cancelling", "cancelled", "deleted"}
           /\ row[call[c].u].status # "cancelling" \/ pc = "finish" => file[call[c].u] = Marker,
         pc \notin Locked
  PROVE  Inv'
<1>. DEFINE u == call[c].u
<1>1. /\ call[c] \in CallState /\ call \in [Calls -> CallState] /\ u \in Uploads
      /\ faults' \in 0..MaxFaults
  BY CallFacts
<1>2. PICK x \in CallState : /\ call' = [call EXCEPT ![c] = x]
                             /\ x.pc = pc /\ x.u = u /\ x.version = v
  <2>1. CASE Goto(c, pc) /\ v = call[c].version
    <3>. DEFINE x == [call[c] EXCEPT !.pc = pc]
    <3>1. x \in CallState /\ x.pc = pc /\ x.u = u /\ x.version = v
      BY <1>1, <2>1 DEF CallState, Pcs
    <3>2. call' = [call EXCEPT ![c] = x]
      BY <1>1, <2>1 DEF Goto
    <3>. HIDE DEF x
    <3>. QED
      BY <3>1, <3>2
  <2>2. CASE call' = [call EXCEPT ![c] = [@ EXCEPT !.pc = pc, !.version = v]]
    <3>. DEFINE x == [call[c] EXCEPT !.pc = pc, !.version = v]
    <3>1. x \in CallState /\ x.pc = pc /\ x.u = u /\ x.version = v
      BY <1>1 DEF CallState, Pcs
    <3>2. call' = [call EXCEPT ![c] = x]
      BY <1>1, <2>2
    <3>. HIDE DEF x
    <3>. QED
      BY <3>1, <3>2
  <2>3. CASE /\ call' = [call EXCEPT ![c] = [@ EXCEPT !.pc = pc, !.retried = TRUE]]
             /\ v = call[c].version
    <3>. DEFINE x == [call[c] EXCEPT !.pc = pc, !.retried = TRUE]
    <3>1. x \in CallState /\ x.pc = pc /\ x.u = u /\ x.version = v
      BY <1>1, <2>3 DEF CallState, Pcs
    <3>2. call' = [call EXCEPT ![c] = x]
      BY <1>1, <2>3
    <3>. HIDE DEF x
    <3>. QED
      BY <3>1, <3>2
  <2>. QED
    BY <2>1, <2>2, <2>3
<1>3. CallOK(x, row[u], result[u], file[u])
  BY <1>2 DEF CallOK
<1>4. pc # "idle"
  BY DEF Pcs
<1>. HIDE DEF u
<1>. QED
  BY <1>1, <1>2, <1>3, <1>4, QuietInv DEF u

\* What a call for an upload starts as.
LEMMA StartFacts ==
  ASSUME NEW c \in Calls, NEW u \in Uploads, NEW pc \in Pcs, Starts(c, u, pc)
  PROVE  \E x \in CallState :
           /\ call' = [call EXCEPT ![c] = x] /\ x.pc = pc /\ x.u = u /\ call[c].pc = "idle"
<1>. DEFINE x == [IdleCall EXCEPT !.pc = pc, !.u = u]
<1>1. x \in CallState /\ x.pc = pc /\ x.u = u
  BY IdleCallType DEF CallState, Pcs
<1>2. call' = [call EXCEPT ![c] = x] /\ call[c].pc = "idle"
  BY DEF Starts
<1>. HIDE DEF x
<1>. QED
  BY <1>1, <1>2

-----------------------------------------------------------------------------
(* The upload *)

LEMMA ReserveInv ==
  ASSUME Inv, NEW c \in Calls, NEW u \in Uploads, Reserve(c, u)
  PROVE  Inv'
<1>. DEFINE r == [row[u] EXCEPT !.status = "uploading"]
<1>1. PICK x \in CallState : /\ call' = [call EXCEPT ![c] = x]
                             /\ x.pc = "recover" /\ x.u = u /\ call[c].pc = "idle"
  BY StartFacts DEF Reserve, Pcs
<1>2. /\ UploadOK(row[u], result[u], exec[u], file[u]) /\ row[u].status \in {"none", "uploading"}
      /\ row[u] \in Row /\ result[u] \in Result /\ file[u] \in Place
      /\ result \in [Uploads -> Result] /\ file \in [Uploads -> Place]
  BY UploadFacts DEF Reserve
<1>3. r \in Row /\ r.status = "uploading" /\ r.version = row[u].version
  BY <1>2 DEF Row
<1>4. /\ row' = [row EXCEPT ![u] = r] /\ result' = result /\ file' = file
      /\ UNCHANGED <<exec, pending, worker, faults>>
  BY DEF Reserve, diskVars
<1>. HIDE DEF r
<1>5. OnlyUpload(u) /\ row'[u] = r
  BY <1>2, <1>3, <1>4, CallFacts, UploadFacts DEF OnlyUpload
<1>6. UploadSuits(u)
  BY <1>2, <1>3, <1>4, <1>5 DEF UploadOK, Before, UploadSuits
<1>7. Suits(x, u)
  BY <1>1 DEF CallOK, Called, Locked, Suits
<1>8. ASSUME NEW d \in Calls \ {c}, call[d].u = u PROVE Suits(call[d], u)
  <2>1. CallOK(call[d], row[u], result[u], file[u])
    BY <1>8, CallFacts
  <2>. QED
    BY <1>2, <1>3, <1>4, <1>5, <2>1 DEF CallOK, Suits
<1>9. x.pc # "idle" /\ x.pc \notin Locked /\ row'[u].status # "cancelled"
  BY <1>1, <1>3, <1>5 DEF Locked
<1>. QED
  BY <1>1, <1>5, <1>6, <1>7, <1>8, <1>9, CallStepInv

LEMMA RecoverInv ==
  ASSUME Inv, NEW c \in Calls, Recover(c)
  PROVE  Inv'
<1>1. /\ call[c].pc # "idle" /\ call[c].version \in Versions \union {NoVersion}
      /\ UNCHANGED <<row, result, exec, file, worker>> /\ faults' = faults
      /\ pending' \in [Calls -> BOOLEAN] /\ faults' \in 0..MaxFaults
  BY CallFacts DEF Recover, dbVars, diskVars, CallState
<1>2. CASE Stored(call[c].u) /\ Found(c, "verify")
  BY <1>1, <1>2, GoOnInv DEF Found, Stored, Pcs, Called, Locked
<1>3. CASE Return(c)
  BY <1>1, <1>3, ReturnInv
<1>4. CASE Goto(c, "store")
  BY <1>1, <1>4, GoOnInv DEF Pcs, Called, Locked
<1>. QED
  BY <1>2, <1>3, <1>4 DEF Recover

LEMMA StoreInv ==
  ASSUME Inv, NEW c \in Calls, Store(c)
  PROVE  Inv'
<1>1. /\ call[c].pc # "idle" /\ call[c].version \in Versions \union {NoVersion}
      /\ UNCHANGED <<row, result, exec, file, worker>> /\ faults' = faults
      /\ pending' \in [Calls -> BOOLEAN]
  BY CallFacts DEF Store, dbVars, CallState
<1>2. ASSUME NEW v \in Versions,
             call' = [call EXCEPT ![c] = [@ EXCEPT !.pc = "publish", !.version = v]]
      PROVE  Inv'
  BY <1>1, <1>2, GoOnInv DEF Pcs, Called, Locked
<1>3. CASE Goto(c, "recheck")
  BY <1>1, <1>3, GoOnInv DEF Pcs, Called, Locked
<1>. QED
  BY <1>2, <1>3 DEF Store

LEMMA RecheckInv ==
  ASSUME Inv, NEW c \in Calls, Recheck(c)
  PROVE  Inv'
<1>1. /\ call[c].pc # "idle" /\ UNCHANGED <<row, result, exec, file, worker>> /\ faults' = faults
      /\ pending' \in [Calls -> BOOLEAN] /\ faults' \in 0..MaxFaults
  BY CallFacts DEF Recheck, dbVars, diskVars
<1>2. CASE Stored(call[c].u) /\ Found(c, "verify")
  BY <1>1, <1>2, GoOnInv DEF Found, Stored, Pcs, Called, Locked
<1>3. CASE Return(c)
  BY <1>1, <1>3, ReturnInv
<1>. QED
  BY <1>2, <1>3 DEF Recheck

LEMMA VerifyInv ==
  ASSUME Inv, NEW c \in Calls, Verify(c)
  PROVE  Inv'
<1>1. /\ call[c].pc = "verify" /\ call[c].version \in Versions
      /\ UNCHANGED <<row, result, exec, file, worker>> /\ faults' = faults
      /\ pending' \in [Calls -> BOOLEAN] /\ faults' \in 0..MaxFaults
  BY CallFacts DEF Verify, dbVars, diskVars, CallOK
<1>2. CASE file[call[c].u] = call[c].version /\ Goto(c, "queue")
  BY <1>1, <1>2, GoOnInv DEF Pcs, Called, Locked
<1>3. CASE Return(c)
  BY <1>1, <1>3, ReturnInv
<1>. QED
  BY <1>2, <1>3 DEF Verify

LEMMA FindInv ==
  ASSUME Inv, NEW c \in Calls, Find(c)
  PROVE  Inv'
<1>1. /\ call[c].pc # "idle" /\ UNCHANGED <<row, result, exec, file, worker>> /\ faults' = faults
      /\ pending' \in [Calls -> BOOLEAN] /\ faults' \in 0..MaxFaults
  BY CallFacts DEF Find, dbVars, diskVars
<1>2. CASE Stored(call[c].u) /\ Found(c, "queue")
  BY <1>1, <1>2, GoOnInv DEF Found, Stored, Pcs, Called, Locked
<1>3. CASE Return(c)
  BY <1>1, <1>3, ReturnInv
<1>. QED
  BY <1>2, <1>3 DEF Find


\* The call goes on to pc.
LEMMA GotoFacts ==
  ASSUME Inv, NEW c \in Calls, call[c].pc # "idle", NEW pc \in Pcs, Goto(c, pc)
  PROVE  \E x \in CallState :
           /\ call' = [call EXCEPT ![c] = x] /\ x.pc = pc /\ x.pc # "idle"
           /\ x.u = call[c].u /\ x.version = call[c].version
<1>. DEFINE x == [call[c] EXCEPT !.pc = pc]
<1>1. x \in CallState /\ x.pc = pc /\ x.u = call[c].u /\ x.version = call[c].version
  BY CallFacts DEF CallState, Pcs
<1>2. call' = [call EXCEPT ![c] = x] /\ pc # "idle"
  BY CallFacts DEF Goto, Pcs
<1>. HIDE DEF x
<1>. QED
  BY <1>1, <1>2

LEMMA TidiedType ==
  ASSUME Inv, NEW c \in Calls, Tidied(c)
  PROVE  pending' \in [Calls -> BOOLEAN]
BY CallFacts DEF Tidied

\* An object at the path that was empty.
LEMMA ObjectSuits ==
  ASSUME Inv, NEW u \in Uploads, file[u] = Absent, row[u].status # "cancelled",
         UNCHANGED <<row, result>>, file'[u] \in Versions
  PROVE  UploadSuits(u) /\ \A d \in Calls : call[d].u = u => Suits(call[d], u)
<1>1. row[u].status = "queued" => result[u] # "none"
  BY UploadFacts, VersionsAssumption DEF UploadOK
<1>2. UploadSuits(u)
  BY <1>1, UploadFacts DEF UploadSuits, UploadOK
<1>3. ASSUME NEW d \in Calls, call[d].u = u PROVE Suits(call[d], u)
  <2>1. CallOK(call[d], row[u], result[u], file[u])
    BY <1>3, CallFacts
  <2>2. Absent # Marker /\ file[u] # Marker
    BY DEF Absent, Marker
  <2>. QED
    BY <2>1, <2>2, VersionsAssumption DEF Suits, CallOK
<1>. QED
  BY <1>2, <1>3

\* A marker at the path of a cancelled upload.
LEMMA MarkerSuits ==
  ASSUME Inv, NEW u \in Uploads, row[u].status \in {"cancelling", "cancelled", "deleted"},
         UNCHANGED <<row, result>>, file'[u] = Marker
  PROVE  UploadSuits(u) /\ \A d \in Calls : call[d].u = u => Suits(call[d], u)
<1>1. UploadSuits(u)
  BY UploadFacts DEF UploadSuits, UploadOK
<1>2. ASSUME NEW d \in Calls, call[d].u = u PROVE Suits(call[d], u)
  <2>1. CallOK(call[d], row[u], result[u], file[u])
    BY <1>2, CallFacts
  <2>. QED
    BY <2>1 DEF Suits, CallOK
<1>. QED
  BY <1>1, <1>2

LEMMA PublishInv ==
  ASSUME Inv, NEW c \in Calls, Publish(c)
  PROVE  Inv'
<1>. DEFINE u == call[c].u
<1>1. /\ call[c].pc = "publish" /\ call[c].version \in Versions /\ u \in Uploads
      /\ UNCHANGED <<row, result, exec, worker, faults>> /\ faults' \in 0..MaxFaults
      /\ file \in [Uploads -> Place] /\ call \in [Calls -> CallState]
      /\ pending \in [Calls -> BOOLEAN]
  BY CallFacts, UploadFacts DEF Publish, dbVars, CallOK
<1>2. CASE /\ file[u] = Absent /\ file' = [file EXCEPT ![u] = call[c].version]
           /\ Goto(c, "verify") /\ Tidied(c)
  <2>1. PICK x \in CallState :
          /\ call' = [call EXCEPT ![c] = x] /\ x.pc = "verify" /\ x.u = u
          /\ x.version = call[c].version
    BY <1>1, <1>2, GotoFacts DEF Pcs
  <2>2. pending' \in [Calls -> BOOLEAN]
    BY <1>2, TidiedType
  <2>3. file' \in [Uploads -> Place] /\ file'[u] = call[c].version
        /\ \A v \in Uploads \ {u} : file'[v] = file[v]
    BY <1>1, <1>2 DEF Place
  <2>. HIDE DEF u
  <2>4. OnlyUpload(u)
    BY <1>1, <2>2, <2>3, UploadFacts DEF OnlyUpload
  <2>5. row[u].status # "cancelled"
    BY <1>1, <1>2 DEF Inv, MarkersInv, u
  <2>6. UploadSuits(u) /\ \A d \in Calls : call[d].u = u => Suits(call[d], u)
    BY <1>1, <1>2, <2>3, <2>5, ObjectSuits
  <2>7. Suits(x, u) /\ x.pc # "idle" /\ x.pc \notin Locked
    BY <1>1, <2>1 DEF Suits, CallOK, Called, Locked
  <2>. QED
    BY <1>1, <2>1, <2>4, <2>5, <2>6, <2>7, CallStepInv DEF u
<1>3. CASE Goto(c, "recheck") /\ (Tidied(c) \/ UNCHANGED pending) /\ UNCHANGED file
  BY <1>1, <1>3, TidiedType, GoOnInv, CallFacts DEF Pcs, Called, Locked
<1>4. CASE /\ call' = [call EXCEPT ![c] = [@ EXCEPT !.pc = "store", !.retried = TRUE]]
           /\ UNCHANGED diskVars
  BY <1>1, <1>4, GoOnInv DEF Pcs, Called, Locked, diskVars
<1>. QED
  BY <1>2, <1>3, <1>4 DEF Publish, diskVars

LEMMA QueueStoredUploadInv ==
  ASSUME Inv, NEW c \in Calls, QueueStoredUpload(c)
  PROVE  Inv'
<1>. DEFINE u == call[c].u
            v == call[c].version
<1>1. /\ call[c].pc = "queue" /\ v \in Versions /\ u \in Uploads /\ ~RowLocked(u)
      /\ UNCHANGED <<result, exec, file, pending, worker, faults>> /\ Return(c)
      /\ faults' \in 0..MaxFaults /\ pending' \in [Calls -> BOOLEAN]
      /\ CallOK(call[c], row[u], result[u], file[u])
  BY CallFacts DEF QueueStoredUpload, diskVars, CallOK
<1>2. CASE row' = row
  BY <1>1, <1>2, ReturnInv
<1>3. CASE Queueable(u) /\ row' = [row EXCEPT ![u] = [status |-> "queued", version |-> v]]
  <2>. DEFINE r == [status |-> "queued", version |-> v]
  <2>1. r \in Row /\ r.status = "queued" /\ r.version = v
    BY <1>1 DEF Row
  <2>2. row[u].status = "uploading" /\ file[u] = v /\ row \in [Uploads -> Row]
    BY <1>1, <1>3, UploadFacts DEF Queueable, CallOK
  <2>. HIDE DEF r
  <2>3. row' = [row EXCEPT ![u] = r]
    BY <1>3 DEF r
  <2>. HIDE DEF u, v
  <2>4. OnlyUpload(u) /\ row'[u] = r
    BY <1>1, <2>1, <2>2, <2>3, UploadFacts DEF OnlyUpload
  <2>5. UploadSuits(u)
    <3>1. result[u] = "none" /\ exec[u].status = "none" /\ v # NoVersion
      BY <1>1, <2>2, UploadFacts, NullAssumption DEF UploadOK, Before
    <3>. QED
      BY <1>1, <2>1, <2>2, <2>4, <3>1 DEF UploadSuits, UploadOK, Before
  <2>6. ASSUME NEW d \in Calls, call[d].u = u PROVE Suits(call[d], u)
    <3>1. CallOK(call[d], row[u], result[u], file[u])
      BY <1>1, <2>6, CallFacts
    <3>2. call[d].pc \notin Locked
      BY <1>1, <2>6 DEF RowLocked, Locked
    <3>. QED
      BY <2>1, <2>2, <2>4, <3>1, <3>2 DEF Suits, CallOK
  <2>7. PICK x \in CallState : x = IdleCall /\ x.pc = "idle" /\ x.pc \notin Locked
    BY IdleCallType DEF Locked
  <2>8. call' = [call EXCEPT ![c] = x] /\ call[c].u = u
    BY <1>1, <2>7 DEF Return, u
  <2>. QED
    BY <1>1, <2>1, <2>4, <2>5, <2>6, <2>7, <2>8, CallStepInv
<1>. QED
  BY <1>2, <1>3 DEF QueueStoredUpload

LEMMA ReconcileInv ==
  ASSUME Inv, NEW c \in Calls, NEW u \in Uploads, Reconcile(c, u)
  PROVE  Inv'
<1>1. PICK x \in CallState : /\ call' = [call EXCEPT ![c] = x]
                             /\ x.pc = "find" /\ x.u = u /\ call[c].pc = "idle"
  BY StartFacts DEF Reconcile, Pcs
<1>2. CallOK(x, row[u], result[u], file[u]) /\ x.pc # "idle" /\ x.pc \notin Locked
  BY <1>1 DEF CallOK, Called, Locked
<1>3. /\ UNCHANGED <<row, result, exec, file, worker>> /\ row[u].status # "cancelled"
      /\ pending' \in [Calls -> BOOLEAN] /\ faults' \in 0..MaxFaults
  BY CallFacts DEF Reconcile, dbVars, diskVars
<1>. QED
  BY <1>1, <1>2, <1>3, QuietInv


-----------------------------------------------------------------------------
(* The cancellation *)

LEMMA CancelInv ==
  ASSUME Inv, NEW c \in Calls, NEW u \in Uploads, Cancel(c, u)
  PROVE  Inv'
<1>. DEFINE r == [status |-> "cancelling", version |-> NoVersion]
<1>1. PICK x \in CallState : /\ call' = [call EXCEPT ![c] = x]
                             /\ x.pc = "mark" /\ x.u = u /\ call[c].pc = "idle"
  BY StartFacts DEF Cancel, Pcs
<1>2. /\ UploadOK(row[u], result[u], exec[u], file[u])
      /\ row[u].status \in {"uploading", "cancelling"} /\ ~RowLocked(u)
      /\ row \in [Uploads -> Row] /\ row' = [row EXCEPT ![u] = r]
      /\ UNCHANGED <<result, exec, file, pending, worker, faults>>
  BY UploadFacts DEF Cancel, Cancellable, diskVars
<1>3. r \in Row /\ r.status = "cancelling" /\ r.version = NoVersion
  BY DEF Row
<1>. HIDE DEF r
<1>4. OnlyUpload(u) /\ row'[u] = r
  BY <1>2, <1>3, CallFacts, UploadFacts DEF OnlyUpload
<1>5. UploadSuits(u)
  BY <1>2, <1>3, <1>4 DEF UploadOK, Before, UploadSuits
<1>6. Suits(x, u)
  BY <1>1, <1>3, <1>4 DEF CallOK, Called, Locked, Suits
<1>7. ASSUME NEW d \in Calls, call[d].u = u PROVE Suits(call[d], u)
  <2>1. CallOK(call[d], row[u], result[u], file[u])
    BY <1>7, CallFacts
  <2>2. call[d].pc \notin Locked
    BY <1>2, <2>1 DEF CallOK
  <2>. QED
    BY <1>2, <1>3, <1>4, <2>1, <2>2 DEF CallOK, Suits
<1>8. x.pc # "idle" /\ x.pc \notin Locked /\ row'[u].status # "cancelled"
  BY <1>1, <1>3, <1>4 DEF Locked
<1>. QED
  BY <1>1, <1>4, <1>5, <1>6, <1>7, <1>8, CallStepInv

LEMMA MarkInv ==
  ASSUME Inv, NEW c \in Calls, Mark(c)
  PROVE  Inv'
<1>1. /\ call[c].pc = "mark" /\ call[c].version \in Versions \union {NoVersion}
      /\ UNCHANGED <<row, result, exec, file, worker>> /\ faults' = faults
      /\ pending' \in [Calls -> BOOLEAN] /\ faults' \in 0..MaxFaults
      /\ CallOK(call[c], row[call[c].u], result[call[c].u], file[call[c].u])
  BY CallFacts DEF Mark, dbVars, CallState
<1>2. CASE file[call[c].u] = Marker /\ Goto(c, "finish")
  BY <1>1, <1>2, GoOnInv DEF Pcs, Called, Locked, CallOK
<1>3. CASE Return(c)
  BY <1>1, <1>3, ReturnInv
<1>4. CASE Goto(c, "publishMarker")
  BY <1>1, <1>4, GoOnInv DEF Pcs, Called, Locked, CallOK
<1>. QED
  BY <1>2, <1>3, <1>4 DEF Mark

\* The marker is put at the path.
LEMMA MarkedInv ==
  ASSUME Inv, NEW c \in Calls, call[c].pc \in Called,
         file' = [file EXCEPT ![call[c].u] = Marker], Goto(c, "finish"),
         UNCHANGED <<row, result, exec, worker, faults>>, pending' \in [Calls -> BOOLEAN]
  PROVE  Inv'
<1>. DEFINE u == call[c].u
<1>1. /\ call[c].pc # "idle" /\ u \in Uploads /\ file \in [Uploads -> Place]
      /\ faults' \in 0..MaxFaults /\ row[u].status \in {"cancelling", "cancelled", "deleted"}
  BY CallFacts, UploadFacts DEF Called, CallOK
<1>2. PICK x \in CallState : call' = [call EXCEPT ![c] = x] /\ x.pc = "finish" /\ x.u = u
  BY <1>1, GotoFacts DEF Pcs
<1>. HIDE DEF u
<1>3. OnlyUpload(u) /\ file'[u] = Marker
  BY <1>1, UploadFacts DEF OnlyUpload, Place, u
<1>4. UploadSuits(u) /\ \A d \in Calls : call[d].u = u => Suits(call[d], u)
  BY <1>1, <1>3, MarkerSuits
<1>5. Suits(x, u) /\ x.pc # "idle" /\ x.pc \notin Locked
  BY <1>1, <1>2, <1>3 DEF Suits, CallOK, Called, Locked
<1>6. file'[u] # Absent /\ call[c].u = u
  BY <1>3 DEF Absent, Marker, u
<1>. QED
  BY <1>1, <1>2, <1>3, <1>4, <1>5, <1>6, CallStepInv

LEMMA PublishMarkerInv ==
  ASSUME Inv, NEW c \in Calls, PublishMarker(c)
  PROVE  Inv'
<1>1. /\ call[c].pc = "publishMarker" /\ call[c].version \in Versions \union {NoVersion}
      /\ UNCHANGED <<row, result, exec, worker, faults>> /\ faults' \in 0..MaxFaults
      /\ pending \in [Calls -> BOOLEAN]
      /\ CallOK(call[c], row[call[c].u], result[call[c].u], file[call[c].u])
  BY CallFacts DEF PublishMarker, dbVars, CallState
<1>2. CASE file' = [file EXCEPT ![call[c].u] = Marker] /\ Goto(c, "finish") /\ Tidied(c)
  BY <1>1, <1>2, TidiedType, MarkedInv DEF Called
<1>3. CASE file[call[c].u] = Marker /\ Goto(c, "finish") /\ Tidied(c) /\ UNCHANGED file
  BY <1>1, <1>3, TidiedType, GoOnInv DEF Pcs, Called, Locked, CallOK
<1>4. CASE Goto(c, "replace") /\ UNCHANGED diskVars
  BY <1>1, <1>4, GoOnInv DEF Pcs, Called, Locked, CallOK, diskVars
<1>5. CASE Return(c) /\ UNCHANGED diskVars
  BY <1>1, <1>5, ReturnInv DEF diskVars
<1>6. CASE /\ call' = [call EXCEPT ![c] = [@ EXCEPT !.pc = "mark", !.retried = TRUE]]
           /\ UNCHANGED diskVars
  BY <1>1, <1>6, GoOnInv DEF Pcs, Called, Locked, CallOK, diskVars
<1>. QED
  BY <1>2, <1>3, <1>4, <1>5, <1>6 DEF PublishMarker

LEMMA ReplaceInv ==
  ASSUME Inv, NEW c \in Calls, Replace(c)
  PROVE  Inv'
<1>1. /\ call[c].pc = "replace" /\ call[c].version \in Versions \union {NoVersion}
      /\ UNCHANGED <<row, result, exec, worker, faults>> /\ faults' \in 0..MaxFaults
      /\ pending \in [Calls -> BOOLEAN]
      /\ CallOK(call[c], row[call[c].u], result[call[c].u], file[call[c].u])
  BY CallFacts DEF Replace, dbVars, CallState
<1>2. CASE /\ file' = [file EXCEPT ![call[c].u] = Marker] /\ Goto(c, "finish")
           /\ pending' = [pending EXCEPT ![c] = FALSE]
  BY <1>1, <1>2, MarkedInv DEF Called
<1>3. CASE Return(c) /\ UNCHANGED diskVars
  BY <1>1, <1>3, ReturnInv DEF diskVars
<1>4. CASE /\ call' = [call EXCEPT ![c] = [@ EXCEPT !.pc = "mark", !.retried = TRUE]]
           /\ UNCHANGED diskVars
  BY <1>1, <1>4, GoOnInv DEF Pcs, Called, Locked, CallOK, diskVars
<1>. QED
  BY <1>2, <1>3, <1>4 DEF Replace

LEMMA FinishCancelInv ==
  ASSUME Inv, NEW c \in Calls, FinishCancel(c)
  PROVE  Inv'
<1>. DEFINE u == call[c].u
            st == IF row[u].status = "cancelling" THEN "cancelled" ELSE row[u].status
            r == [row[u] EXCEPT !.status = st]
<1>1. /\ call[c].pc = "finish" /\ u \in Uploads /\ Return(c) /\ row[u] \in Row
      /\ row \in [Uploads -> Row]
      /\ UNCHANGED <<result, exec, file, pending, worker, faults>>
      /\ row[u].status \in {"cancelling", "cancelled", "deleted"} /\ file[u] = Marker
  BY CallFacts, UploadFacts DEF FinishCancel, diskVars, CallOK, Called
<1>2. r \in Row /\ r.status = st /\ r.version = row[u].version
  BY <1>1 DEF Row
<1>3. row' = [row EXCEPT ![u] = r]
  BY <1>1 DEF FinishCancel
<1>. HIDE DEF r
<1>. HIDE DEF u
<1>4. OnlyUpload(u) /\ row'[u] = r
  BY <1>1, <1>2, <1>3, CallFacts, UploadFacts DEF OnlyUpload
<1>5. UploadSuits(u)
  BY <1>1, <1>2, <1>4, UploadFacts DEF UploadSuits, UploadOK, Before
<1>6. ASSUME NEW d \in Calls, call[d].u = u PROVE Suits(call[d], u)
  <2>1. CallOK(call[d], row[u], result[u], file[u])
    BY <1>1, <1>6, CallFacts
  <2>. QED
    BY <1>1, <1>2, <1>4, <2>1 DEF CallOK, Suits
<1>7. PICK x \in CallState : x = IdleCall /\ x.pc = "idle" /\ x.pc \notin Locked
  BY IdleCallType DEF Locked
<1>8. call' = [call EXCEPT ![c] = x] /\ call[c].u = u /\ file'[u] # Absent
  BY <1>1, <1>7 DEF Return, u, Absent, Marker
<1>. QED
  BY <1>1, <1>4, <1>5, <1>6, <1>7, <1>8, CallStepInv


-----------------------------------------------------------------------------
(* The deletion *)

LEMMA DeleteInv ==
  ASSUME Inv, NEW c \in Calls, NEW u \in Uploads, Delete(c, u)
  PROVE  Inv'
<1>1. PICK x \in CallState : /\ call' = [call EXCEPT ![c] = x]
                             /\ x.pc = "remove" /\ x.u = u /\ call[c].pc = "idle"
  BY StartFacts DEF Delete, Pcs
<1>2. /\ UNCHANGED <<row, result, exec, file, worker>> /\ row[u].status = "queued"
      /\ result[u] # "none" /\ ~RowLocked(u)
      /\ pending' \in [Calls -> BOOLEAN] /\ faults' \in 0..MaxFaults
  BY CallFacts DEF Delete, Deletable, dbVars, diskVars
<1>3. CallOK(x, row[u], result[u], file[u]) /\ x.pc # "idle"
  BY <1>1, <1>2 DEF CallOK, Called, Locked
<1>. QED
  BY <1>1, <1>2, <1>3, QuietInv

LEMMA RemoveObjectInv ==
  ASSUME Inv, NEW c \in Calls, RemoveObject(c)
  PROVE  Inv'
<1>. DEFINE u == call[c].u
<1>1. /\ call[c].pc = "remove" /\ u \in Uploads /\ file \in [Uploads -> Place]
      /\ UNCHANGED <<row, result, exec, pending, worker, faults>> /\ faults' \in 0..MaxFaults
      /\ pending' \in [Calls -> BOOLEAN]
      /\ row[u].status = "queued" /\ result[u] # "none"
  BY CallFacts, UploadFacts DEF RemoveObject, dbVars, CallOK, Locked
<1>2. CASE file' = [file EXCEPT ![u] = Absent] /\ Goto(c, "erase")
  <2>1. PICK x \in CallState : call' = [call EXCEPT ![c] = x] /\ x.pc = "erase" /\ x.u = u
    BY <1>1, <1>2, GotoFacts DEF Pcs
  <2>. HIDE DEF u
  <2>2. OnlyUpload(u) /\ file'[u] = Absent
    BY <1>1, <1>2, UploadFacts DEF OnlyUpload, Place
  <2>3. UploadSuits(u)
    BY <1>1, <2>2, UploadFacts DEF UploadSuits, UploadOK, Before
  <2>4. ASSUME NEW d \in Calls, call[d].u = u PROVE Suits(call[d], u)
    <3>1. CallOK(call[d], row[u], result[u], file[u])
      BY <1>1, <2>4, CallFacts
    <3>. QED
      BY <1>1, <3>1 DEF Suits, CallOK
  <2>5. Suits(x, u) /\ x.pc # "idle" /\ call[c].pc \in Locked /\ call[c].u = u
    BY <1>1, <2>1 DEF Suits, CallOK, Called, Locked, u
  <2>. QED
    BY <1>1, <2>1, <2>2, <2>3, <2>4, <2>5, CallStepInv
<1>3. CASE Return(c) /\ UNCHANGED file
  BY <1>1, <1>3, ReturnInv
<1>. QED
  BY <1>2, <1>3 DEF RemoveObject

LEMMA EraseRowsInv ==
  ASSUME Inv, NEW c \in Calls, EraseRows(c)
  PROVE  Inv'
<1>. DEFINE u == call[c].u
            r == [status |-> "deleted", version |-> NoVersion]
<1>1. /\ call[c].pc = "erase" /\ u \in Uploads /\ Return(c) /\ r \in Row
      /\ row \in [Uploads -> Row] /\ result \in [Uploads -> Result]
      /\ UNCHANGED <<exec, file, pending, worker, faults>>
      /\ row' = [row EXCEPT ![u] = r] /\ result' = [result EXCEPT ![u] = "none"]
      /\ row[u].status = "queued"
  BY CallFacts, UploadFacts DEF EraseRows, diskVars, CallOK, Locked, Row
<1>2. r.status = "deleted" /\ r.version = NoVersion
  OBVIOUS
<1>. HIDE DEF u, r
<1>3. OnlyUpload(u) /\ row'[u] = r
  BY <1>1, CallFacts, UploadFacts DEF OnlyUpload, Result
<1>4. UploadSuits(u)
  BY <1>2, <1>3 DEF UploadSuits, UploadOK, Before
<1>5. ASSUME NEW d \in Calls \ {c}, call[d].u = u PROVE Suits(call[d], u)
  <2>1. CallOK(call[d], row[u], result[u], file[u])
    BY <1>1, <1>5, CallFacts
  <2>2. call[d].pc \notin Locked
    BY <1>1, <1>5 DEF Inv, CallsInv, Locked, u
  <2>. QED
    BY <1>1, <1>2, <1>3, <2>1, <2>2 DEF Suits, CallOK
<1>6. PICK x \in CallState : x = IdleCall /\ x.pc = "idle" /\ x.pc \notin Locked
  BY IdleCallType DEF Locked
<1>7. call' = [call EXCEPT ![c] = x] /\ call[c].u = u
  BY <1>1, <1>6 DEF Return, u
<1>. QED
  BY <1>1, <1>2, <1>3, <1>4, <1>5, <1>6, <1>7, CallStepInv

\* A step about upload u while its calls stay where they are.
LEMMA CallsStayInv ==
  ASSUME Inv, NEW u \in Uploads, OnlyUpload(u), UploadSuits(u), call' = call,
         \A d \in Calls : call[d].u = u => Suits(call[d], u),
         row'[u].status = "cancelled" /\ file'[u] = Absent => \A d \in Calls : call[d].u # u
  PROVE  Inv'
<1>1. call' \in [Calls -> CallState]
  BY DEF Inv, UploadsTypeOK
<1>2. \A d \in Calls : call'[d].u = u => call'[d].pc # "idle" /\ Suits(call'[d], u)
  BY CallFacts
<1>3. \A c, d \in Calls :
        call'[c].pc \in Locked /\ call'[c].u = u /\ call'[d].pc \in Locked /\ call'[d].u = u =>
          c = d
  BY DEF Inv, CallsInv
<1>. QED
  BY <1>1, <1>2, <1>3, UploadStepInv

LEMMA DeleteCancelledInv ==
  ASSUME Inv, NEW u \in Uploads, DeleteCancelled(u)
  PROVE  Inv'
<1>. DEFINE r == [status |-> "deleted", version |-> NoVersion]
<1>1. /\ row[u].status = "cancelled" /\ r \in Row /\ row \in [Uploads -> Row]
      /\ row' = [row EXCEPT ![u] = r] /\ call' = call
      /\ UNCHANGED <<result, exec, file, pending, worker, faults>>
  BY UploadFacts DEF DeleteCancelled, diskVars, Row
<1>2. r.status = "deleted" /\ r.version = NoVersion
  OBVIOUS
<1>. HIDE DEF r
<1>3. /\ row' \in [Uploads -> Row] /\ row'[u] = r
      /\ \A v \in Uploads \ {u} : row'[v] = row[v]
  BY <1>1
<1>4. pending' \in [Calls -> BOOLEAN] /\ faults' \in 0..MaxFaults
  BY <1>1 DEF Inv, UploadsTypeOK
<1>5. OnlyUpload(u)
  BY <1>1, <1>3, <1>4, UploadFacts DEF OnlyUpload
<1>6. UploadSuits(u)
  BY <1>2, <1>3 DEF UploadSuits, UploadOK, Before
<1>7. ASSUME NEW d \in Calls, call[d].u = u PROVE Suits(call[d], u)
  <2>1. CallOK(call[d], row[u], result[u], file[u])
    BY <1>7, CallFacts
  <2>. QED
    BY <1>1, <1>2, <1>3, <2>1 DEF Suits, CallOK
<1>. QED
  BY <1>1, <1>2, <1>3, <1>5, <1>6, <1>7, CallsStayInv

LEMMA ReclaimMarkerInv ==
  ASSUME Inv, NEW u \in Uploads, ReclaimMarker(u)
  PROVE  Inv'
<1>1. /\ file[u] = Marker /\ \A c \in Calls : call[c].u # u
      /\ file' = [file EXCEPT ![u] = Absent] /\ call' = call
      /\ UNCHANGED <<row, result, exec, pending, worker, faults>>
  BY DEF ReclaimMarker, dbVars
<1>2. /\ file' \in [Uploads -> Place] /\ file'[u] = Absent
      /\ \A v \in Uploads \ {u} : file'[v] = file[v]
  BY <1>1, UploadFacts DEF Place
<1>3. pending' \in [Calls -> BOOLEAN] /\ faults' \in 0..MaxFaults
  BY <1>1 DEF Inv, UploadsTypeOK
<1>4. OnlyUpload(u)
  BY <1>1, <1>2, <1>3, UploadFacts DEF OnlyUpload
<1>5. UploadSuits(u)
  BY <1>1, <1>2, UploadFacts, VersionsAssumption DEF UploadSuits, UploadOK, Before
<1>. QED
  BY <1>1, <1>4, <1>5, CallsStayInv

LEMMA FaultType == ASSUME Inv, Fault PROVE faults' \in 0..MaxFaults
BY FaultsAssumption DEF Inv, UploadsTypeOK, Fault

LEMMA StopInv ==
  ASSUME Inv, NEW c \in Calls, Stop(c)
  PROVE  Inv'
<1>1. /\ call[c].pc # "idle" /\ Return(c) /\ UNCHANGED <<row, result, exec, file, worker>>
      /\ pending' \in [Calls -> BOOLEAN] /\ faults' \in 0..MaxFaults
  BY FaultType, CallFacts DEF Stop, dbVars, diskVars
<1>. QED
  BY <1>1, ReturnInv

LEMMA SweepInv ==
  ASSUME Inv, NEW c \in Calls, Sweep(c) \/ SweepStalled(c)
  PROVE  Inv'
<1>1. /\ UNCHANGED <<row, result, exec, file, call, worker>>
      /\ pending' \in [Calls -> BOOLEAN] /\ faults' \in 0..MaxFaults
  BY FaultType, CallFacts DEF Sweep, SweepStalled, dbVars
<1>2. UploadsTypeOK'
  BY <1>1 DEF Inv, UploadsTypeOK
<1>. QED
  BY <1>1, <1>2 DEF Inv, UploadsInv, CallsInv, MarkersInv, WorkersInv


-----------------------------------------------------------------------------
(* The files worker *)

\* A step of the parse: a result appears, and nothing else that a call looks at.
LEMMA ParseStepInv ==
  ASSUME Inv, UNCHANGED <<row, file, pending, call>>, faults' \in 0..MaxFaults,
         exec' \in [Uploads -> Execution], result' \in [Uploads -> Result],
         worker' \in [Workers -> WorkerState], WorkersInv',
         \A u \in Uploads : UploadOK(row[u], result'[u], exec'[u], file[u]),
         \A u \in Uploads : result'[u] = result[u] \/ result'[u] # "none"
  PROVE  Inv'
<1>1. row' = row /\ file' = file /\ pending' = pending /\ call' = call
  OBVIOUS
<1>2. UploadsTypeOK'
  BY <1>1 DEF Inv, UploadsTypeOK
<1>3. UploadsInv' /\ MarkersInv'
  BY <1>1 DEF Inv, UploadsInv, MarkersInv
<1>4. ASSUME NEW c \in Calls
      PROVE  \/ call[c] = IdleCall
             \/ /\ call[c].u \in Uploads /\ call[c].pc # "idle"
                /\ CallOK(call[c], row[call[c].u], result'[call[c].u], file[call[c].u])
  <2>1. CASE call[c].pc = "idle"
    BY <2>1, CallFacts
  <2>2. CASE call[c].pc # "idle"
    <3>1. /\ call[c].u \in Uploads
          /\ CallOK(call[c], row[call[c].u], result[call[c].u], file[call[c].u])
      BY <2>2, CallFacts
    <3>2. CallOK(call[c], row[call[c].u], result'[call[c].u], file[call[c].u])
      BY <3>1 DEF CallOK
    <3>. QED
      BY <2>2, <3>1, <3>2
  <2>. QED
    BY <2>1, <2>2
<1>5. CallsInv'
  BY <1>1, <1>4 DEF Inv, CallsInv
<1>. QED
  BY <1>2, <1>3, <1>5 DEF Inv

LEMMA WorkerFacts ==
  ASSUME Inv, NEW w \in Workers
  PROVE  /\ worker \in [Workers -> WorkerState] /\ worker[w] \in WorkerState
         /\ worker[w].pc # "idle" => worker[w].u \in Uploads
         /\ worker[w].pc = "settle" => worker[w].outcome \in {"parsed", "invalid_document"}
         /\ exec \in [Uploads -> Execution] /\ result \in [Uploads -> Result]
         /\ faults \in 0..MaxFaults
BY DEF Inv, UploadsTypeOK, WorkersInv

LEMMA IdleWorkerType == IdleWorker \in WorkerState /\ IdleWorker.pc = "idle"
<1>1. MaxFence \in Nat
  BY BudgetAssumption, FaultsAssumption DEF MaxFence
<1>. QED
  BY <1>1 DEF IdleWorker, WorkerState, Result

\* One worker goes on; x is what it makes of itself.
LEMMA OneWorker ==
  ASSUME Inv, NEW w \in Workers, NEW x \in WorkerState, worker' = [worker EXCEPT ![w] = x],
         x.pc # "idle" => x.u \in Uploads,
         x.pc = "settle" => x.outcome \in {"parsed", "invalid_document"}
  PROVE  worker' \in [Workers -> WorkerState] /\ WorkersInv'
<1>1. /\ worker' \in [Workers -> WorkerState] /\ worker'[w] = x
      /\ \A v \in Workers \ {w} : worker'[v] = worker[v]
  BY WorkerFacts
<1>2. WorkersInv'
  <2>. SUFFICES ASSUME NEW v \in Workers
                PROVE  /\ worker'[v].pc # "idle" => worker'[v].u \in Uploads
                       /\ worker'[v].pc = "settle" =>
                            worker'[v].outcome \in {"parsed", "invalid_document"}
    BY DEF WorkersInv
  <2>. QED
    BY <1>1, WorkerFacts
<1>. QED
  BY <1>1, <1>2

LEMMA IdleAgain ==
  ASSUME Inv, NEW w \in Workers, worker' = [worker EXCEPT ![w] = IdleWorker]
  PROVE  worker' \in [Workers -> WorkerState] /\ WorkersInv'
<1>1. PICK x \in WorkerState : x = IdleWorker /\ x.pc = "idle"
  BY IdleWorkerType
<1>2. worker' = [worker EXCEPT ![w] = x]
  BY <1>1
<1>. QED
  BY <1>1, <1>2, OneWorker

\* The attempt goes on to pc.
LEMMA AttemptGoesOn ==
  ASSUME Inv, NEW w \in Workers, worker[w].pc # "idle", NEW pc \in {"parse", "failing"},
         worker' = [worker EXCEPT ![w].pc = pc]
  PROVE  worker' \in [Workers -> WorkerState] /\ WorkersInv'
<1>. DEFINE x == [worker[w] EXCEPT !.pc = pc]
<1>1. x \in WorkerState /\ x.pc = pc /\ x.u = worker[w].u
  BY WorkerFacts DEF WorkerState
<1>2. worker' = [worker EXCEPT ![w] = x] /\ worker[w].u \in Uploads
  BY WorkerFacts
<1>. HIDE DEF x
<1>. QED
  BY <1>1, <1>2, OneWorker

\* Only the worker moves.
LEMMA WorkerOnlyInv ==
  ASSUME Inv, UNCHANGED <<row, result, exec, file, pending, call>>, faults' \in 0..MaxFaults,
         worker' \in [Workers -> WorkerState], WorkersInv'
  PROVE  Inv'
<1>1. exec' = exec /\ result' = result /\ UNCHANGED <<row, file, pending, call>>
  OBVIOUS
<1>2. exec' \in [Uploads -> Execution] /\ result' \in [Uploads -> Result]
  BY <1>1 DEF Inv, UploadsTypeOK
<1>3. \A u \in Uploads : UploadOK(row[u], result'[u], exec'[u], file[u])
  BY <1>1 DEF Inv, UploadsInv
<1>. QED
  BY <1>1, <1>2, <1>3, ParseStepInv

\* The lease of an attempt ends.
LEMMA LeaseEnds ==
  ASSUME Inv, NEW u \in Uploads, UNCHANGED <<row, result, file, pending, call>>,
         exec' = [exec EXCEPT ![u].live = FALSE], faults' \in 0..MaxFaults,
         worker' \in [Workers -> WorkerState], WorkersInv'
  PROVE  Inv'
<1>. DEFINE e == [exec[u] EXCEPT !.live = FALSE]
<1>1. e \in Execution /\ e.status = exec[u].status /\ exec' = [exec EXCEPT ![u] = e]
  BY UploadFacts DEF Execution
<1>. HIDE DEF e
<1>2. /\ exec' \in [Uploads -> Execution] /\ exec'[u] = e
      /\ \A v \in Uploads \ {u} : exec'[v] = exec[v]
  BY <1>1, UploadFacts
<1>3. result' = result /\ result' \in [Uploads -> Result]
  BY UploadFacts
<1>4. ASSUME NEW v \in Uploads PROVE UploadOK(row[v], result'[v], exec'[v], file[v])
  <2>1. UploadOK(row[v], result[v], exec[v], file[v]) /\ exec'[v].status = exec[v].status
    BY <1>1, <1>2, UploadFacts
  <2>. QED
    BY <1>3, <2>1 DEF UploadOK
<1>. QED
  BY <1>2, <1>3, <1>4, ParseStepInv

\* The parse is settled: the one step that writes a result.
LEMMA SettleParseInv ==
  ASSUME Inv, NEW w \in Workers, worker[w].pc # "idle", Eligible(w),
         NEW outcome \in {"parsed", "invalid_document", "processing_failed"},
         SettleParse(w, outcome), UNCHANGED <<file, pending, call, faults>>,
         worker' = [worker EXCEPT ![w] = IdleWorker]
  PROVE  Inv'
<1>. DEFINE u == worker[w].u
            st == IF outcome = "processing_failed" THEN "failed" ELSE "completed"
            e == [exec[u] EXCEPT !.status = st]
<1>1. /\ u \in Uploads /\ row' = row /\ faults' \in 0..MaxFaults
      /\ row[u].status = "queued" /\ exec[u].status = "running"
      /\ result' = [result EXCEPT ![u] = outcome] /\ exec' = [exec EXCEPT ![u] = e]
  BY WorkerFacts DEF SettleParse, Eligible, Owned
<1>2. e \in Execution /\ e.status = st
  BY <1>1, UploadFacts DEF Execution
<1>. HIDE DEF u, e
<1>3. /\ exec' \in [Uploads -> Execution] /\ result' \in [Uploads -> Result]
      /\ exec'[u] = e /\ result'[u] = outcome
      /\ \A v \in Uploads \ {u} : exec'[v] = exec[v] /\ result'[v] = result[v]
  BY <1>1, <1>2, UploadFacts DEF Result
<1>4. UploadOK(row[u], outcome, e, file[u])
  BY <1>1, <1>2, UploadFacts DEF UploadOK, Before
<1>5. \A v \in Uploads : UploadOK(row[v], result'[v], exec'[v], file[v])
  <2>. SUFFICES ASSUME NEW v \in Uploads PROVE UploadOK(row[v], result'[v], exec'[v], file[v])
    OBVIOUS
  <2>1. CASE v = u
    BY <1>3, <1>4, <2>1
  <2>2. CASE v # u
    BY <1>3, <2>2, UploadFacts
  <2>. QED
    BY <2>1, <2>2
<1>6. \A v \in Uploads : result'[v] = result[v] \/ result'[v] # "none"
  BY <1>3
<1>7. worker' \in [Workers -> WorkerState] /\ WorkersInv'
  BY IdleAgain
<1>. QED
  BY <1>1, <1>3, <1>5, <1>6, <1>7, ParseStepInv

LEMMA ClaimInv ==
  ASSUME Inv, NEW w \in Workers, NEW u \in Uploads, Claim(w, u)
  PROVE  Inv'
<1>. DEFINE n == exec[u].fence + 1
            e == [status |-> "running", fence |-> n, live |-> TRUE]
<1>1. /\ exec[u] \in Execution /\ row[u].status = "queued" /\ exec[u].status \in {"none", "running"}
      /\ exec \in [Uploads -> Execution]
      /\ UNCHANGED <<row, result, file, pending, call, faults>>
  BY UploadFacts DEF Claim, UploadOK, diskVars
<1>2. n \in 0..MaxFence
  <2>1. exec[u].fence \in Nat /\ exec[u].fence < MaxFence /\ MaxFence \in Nat
    BY <1>1, BudgetAssumption, FaultsAssumption DEF Execution, MaxFence, Claim
  <2>. QED
    BY <2>1
<1>3. e \in Execution /\ e.status = "running" /\ exec' = [exec EXCEPT ![u] = e]
  BY <1>2 DEF Execution, Claim
<1>4. PICK pc \in {"read", "fail"} :
        worker' = [worker EXCEPT ![w] = [pc |-> pc, u |-> u, fence |-> n, outcome |-> "none"]]
  BY DEF Claim
<1>. HIDE DEF n, e
<1>5. worker' \in [Workers -> WorkerState] /\ WorkersInv'
  <2>. DEFINE x == [pc |-> pc, u |-> u, fence |-> n, outcome |-> "none"]
  <2>1. x \in WorkerState /\ x.u \in Uploads /\ x.pc # "settle"
    BY <1>2 DEF WorkerState, Result
  <2>2. worker' = [worker EXCEPT ![w] = x]
    BY <1>4
  <2>. HIDE DEF x
  <2>. QED
    BY <2>1, <2>2, OneWorker
<1>6. /\ exec' \in [Uploads -> Execution] /\ exec'[u] = e
      /\ \A v \in Uploads \ {u} : exec'[v] = exec[v]
  BY <1>1, <1>3
<1>7. result' = result /\ result' \in [Uploads -> Result] /\ faults' \in 0..MaxFaults
  BY <1>1, WorkerFacts
<1>8. \A v \in Uploads : UploadOK(row[v], result'[v], exec'[v], file[v])
  <2>. SUFFICES ASSUME NEW v \in Uploads PROVE UploadOK(row[v], result'[v], exec'[v], file[v])
    OBVIOUS
  <2>1. UploadOK(row[v], result[v], exec[v], file[v])
    BY UploadFacts
  <2>2. CASE v = u
    BY <1>1, <1>3, <1>6, <1>7, <2>1, <2>2 DEF UploadOK, Before
  <2>3. CASE v # u
    BY <1>6, <1>7, <2>1, <2>3
  <2>. QED
    BY <2>2, <2>3
<1>. QED
  BY <1>1, <1>5, <1>6, <1>7, <1>8, ParseStepInv

LEMMA FailParseInv ==
  ASSUME Inv, NEW w \in Workers, worker[w].pc # "idle", FailParse(w),
         UNCHANGED <<file, pending, call, faults>>, worker' = [worker EXCEPT ![w] = IdleWorker]
  PROVE  Inv'
<1>1. CASE Eligible(w)
  BY <1>1, SettleParseInv DEF FailParse
<1>2. CASE ~Eligible(w)
  BY <1>2, IdleAgain, WorkerOnlyInv, WorkerFacts DEF FailParse, dbVars
<1>. QED
  BY <1>1, <1>2

LEMMA WorkerStepInv ==
  ASSUME Inv, NEW w \in Workers, WorkerStep(w)
  PROVE  Inv'
<1>1. CASE ReadDocument(w)
  <2>1. PICK pc \in {"parse", "failing"} : worker' = [worker EXCEPT ![w].pc = pc]
    BY <1>1 DEF ReadDocument
  <2>2. /\ worker[w].pc # "idle" /\ UNCHANGED <<row, result, exec, file, pending, call>>
        /\ faults' \in 0..MaxFaults
    BY <1>1, WorkerFacts DEF ReadDocument, dbVars, diskVars
  <2>. QED
    BY <2>1, <2>2, AttemptGoesOn, WorkerOnlyInv
<1>2. CASE Parse(w)
  <2>1. /\ worker[w].pc # "idle" /\ UNCHANGED <<row, result, exec, file, pending, call>>
        /\ faults' \in 0..MaxFaults
    BY <1>2, WorkerFacts DEF Parse, dbVars, diskVars
  <2>2. ASSUME NEW outcome \in {"parsed", "invalid_document"},
               worker' = [worker EXCEPT ![w] = [@ EXCEPT !.pc = "settle", !.outcome = outcome]]
        PROVE  worker' \in [Workers -> WorkerState] /\ WorkersInv'
    <3>. DEFINE x == [worker[w] EXCEPT !.pc = "settle", !.outcome = outcome]
    <3>1. x \in WorkerState /\ x.u = worker[w].u /\ x.outcome = outcome
      BY WorkerFacts DEF WorkerState, Result
    <3>2. worker' = [worker EXCEPT ![w] = x] /\ worker[w].u \in Uploads
      BY <2>1, <2>2, WorkerFacts
    <3>. HIDE DEF x
    <3>. QED
      BY <3>1, <3>2, OneWorker
  <2>3. worker' \in [Workers -> WorkerState] /\ WorkersInv'
    BY <1>2, <2>1, <2>2, AttemptGoesOn DEF Parse
  <2>. QED
    BY <2>1, <2>3, WorkerOnlyInv
<1>3. CASE Settle(w)
  <2>1. CASE Eligible(w)
    BY <1>3, <2>1, SettleParseInv, WorkerFacts DEF Settle, diskVars
  <2>2. CASE ~Eligible(w)
    <3>1. /\ worker[w].pc # "idle" /\ UNCHANGED <<row, result, exec, file, pending, call>>
          /\ faults' \in 0..MaxFaults /\ worker' = [worker EXCEPT ![w].pc = "failing"]
      BY <1>3, <2>2, WorkerFacts DEF Settle, dbVars, diskVars
    <3>. QED
      BY <3>1, AttemptGoesOn, WorkerOnlyInv
  <2>. QED
    BY <2>1, <2>2
<1>4. CASE RecordFailure(w)
  BY <1>4, FailParseInv DEF RecordFailure, diskVars
<1>5. CASE GiveUp(w)
  <2>1. /\ worker[w].pc # "idle" /\ worker' = [worker EXCEPT ![w] = IdleWorker]
        /\ UNCHANGED <<file, pending, call, faults>> /\ faults' \in 0..MaxFaults
    BY <1>5, WorkerFacts DEF GiveUp, diskVars
  <2>2. CASE FailParse(w)
    BY <2>1, <2>2, FailParseInv
  <2>3. CASE /\ exec' = IF Owned(w) THEN [exec EXCEPT ![worker[w].u].live = FALSE] ELSE exec
             /\ UNCHANGED <<row, result>>
    <3>1. worker' \in [Workers -> WorkerState] /\ WorkersInv'
      BY <2>1, IdleAgain
    <3>2. CASE exec' = exec
      BY <2>1, <2>3, <3>1, <3>2, WorkerOnlyInv
    <3>3. CASE exec' = [exec EXCEPT ![worker[w].u].live = FALSE]
      <4>1. worker[w].u \in Uploads
        BY <2>1, WorkerFacts
      <4>. QED
        BY <2>1, <2>3, <3>1, <3>3, <4>1, LeaseEnds
    <3>. QED
      BY <2>3, <3>2, <3>3
  <2>. QED
    BY <1>5, <2>2, <2>3 DEF GiveUp
<1>. QED
  BY <1>1, <1>2, <1>3, <1>4, <1>5, ClaimInv DEF WorkerStep

LEMMA CrashWorkerInv ==
  ASSUME Inv, NEW w \in Workers, CrashWorker(w)
  PROVE  Inv'
<1>1. /\ UNCHANGED <<row, result, exec, file, pending, call>> /\ faults' \in 0..MaxFaults
      /\ worker' = [worker EXCEPT ![w] = IdleWorker]
  BY FaultType DEF CrashWorker, dbVars, diskVars
<1>. QED
  BY <1>1, IdleAgain, WorkerOnlyInv

LEMMA LapseInv ==
  ASSUME Inv, NEW u \in Uploads, LapseUnheld(u) \/ StallAttempt(u)
  PROVE  Inv'
<1>1. /\ UNCHANGED <<row, result, file, pending, call>> /\ faults' \in 0..MaxFaults
      /\ worker' = worker /\ exec' = [exec EXCEPT ![u].live = FALSE]
  BY FaultType, UploadFacts DEF LapseUnheld, StallAttempt, diskVars, Inv, UploadsTypeOK
<1>2. worker' \in [Workers -> WorkerState] /\ WorkersInv'
  BY <1>1 DEF Inv, UploadsTypeOK, WorkersInv
<1>. QED
  BY <1>1, <1>2, LeaseEnds


-----------------------------------------------------------------------------
(* The invariant *)

LEMMA InitInv == Init => Inv
<1>. SUFFICES ASSUME Init PROVE Inv
  OBVIOUS
<1>1. MaxFence \in Nat
  BY BudgetAssumption, FaultsAssumption DEF MaxFence
<1>2. UploadsTypeOK
  BY <1>1, IdleCallType, IdleWorkerType, FaultsAssumption
     DEF Init, UploadsTypeOK, Row, Result, Execution
<1>3. UploadsInv /\ MarkersInv
  BY DEF Init, UploadsInv, UploadOK, MarkersInv
<1>4. CallsInv
  BY IdleCallType DEF Init, CallsInv, Locked
<1>5. WorkersInv
  BY IdleWorkerType DEF Init, WorkersInv
<1>. QED
  BY <1>2, <1>3, <1>4, <1>5 DEF Inv

LEMMA NextInv == Inv /\ [Next]_vars => Inv'
<1>. SUFFICES ASSUME Inv, [Next]_vars PROVE Inv'
  OBVIOUS
<1>1. ASSUME NEW c \in Calls, NEW u \in Uploads,
             Reserve(c, u) \/ Reconcile(c, u) \/ Cancel(c, u) \/ Delete(c, u)
      PROVE  Inv'
  BY <1>1, ReserveInv, ReconcileInv, CancelInv, DeleteInv
<1>2. ASSUME NEW c \in Calls, CallStep(c) PROVE Inv'
  <2>1. CASE Recover(c) \/ Store(c) \/ Publish(c) \/ Recheck(c) \/ Verify(c) \/ Find(c)
    BY <2>1, RecoverInv, StoreInv, PublishInv, RecheckInv, VerifyInv, FindInv
  <2>2. CASE Mark(c) \/ PublishMarker(c) \/ Replace(c) \/ FinishCancel(c)
    BY <2>2, MarkInv, PublishMarkerInv, ReplaceInv, FinishCancelInv
  <2>3. CASE QueueStoredUpload(c) \/ RemoveObject(c) \/ EraseRows(c)
    BY <2>3, QueueStoredUploadInv, RemoveObjectInv, EraseRowsInv
  <2>. QED
    BY <1>2, <2>1, <2>2, <2>3 DEF CallStep
<1>3. ASSUME NEW c \in Calls, Stop(c) \/ Sweep(c) \/ SweepStalled(c) PROVE Inv'
  BY <1>3, StopInv, SweepInv
<1>4. ASSUME NEW w \in Workers, WorkerStep(w) \/ CrashWorker(w) PROVE Inv'
  BY <1>4, WorkerStepInv, CrashWorkerInv
<1>5. ASSUME NEW u \in Uploads,
             DeleteCancelled(u) \/ LapseUnheld(u) \/ StallAttempt(u) \/ ReclaimMarker(u)
      PROVE  Inv'
  BY <1>5, DeleteCancelledInv, LapseInv, ReclaimMarkerInv
<1>6. CASE UNCHANGED vars
  BY <1>6 DEF vars, Inv, UploadsTypeOK, UploadsInv, CallsInv, MarkersInv, WorkersInv
<1>. QED
  BY <1>1, <1>2, <1>3, <1>4, <1>5, <1>6 DEF Next

LEMMA InvCorrect == Spec => []Inv
BY InitInv, NextInv, PTL DEF Spec

\* The steps that put something at a path or take it away.
LEMMA FileSteps ==
  ASSUME [Next]_vars
  PROVE  \/ file' = file
         \/ \E c \in Calls : Publish(c) \/ PublishMarker(c) \/ Replace(c) \/ RemoveObject(c)
         \/ \E u \in Uploads : ReclaimMarker(u)
<1>1. ASSUME NEW c \in Calls,
             \/ \E u \in Uploads : Reserve(c, u) \/ Reconcile(c, u) \/ Cancel(c, u) \/ Delete(c, u)
             \/ Stop(c) \/ Sweep(c) \/ SweepStalled(c)
      PROVE  file' = file
  BY <1>1 DEF Reserve, Reconcile, Cancel, Delete, Stop, Sweep, SweepStalled, diskVars
<1>2. ASSUME NEW c \in Calls, CallStep(c)
      PROVE  file' = file \/ Publish(c) \/ PublishMarker(c) \/ Replace(c) \/ RemoveObject(c)
  BY <1>2 DEF CallStep, Recover, Store, Recheck, Verify, QueueStoredUpload, Find, Mark,
     FinishCancel, EraseRows, diskVars
<1>3. ASSUME NEW w \in Workers, WorkerStep(w) \/ CrashWorker(w) PROVE file' = file
  BY <1>3 DEF WorkerStep, Claim, ReadDocument, Parse, Settle, RecordFailure, GiveUp,
     CrashWorker, diskVars
<1>4. ASSUME NEW u \in Uploads, DeleteCancelled(u) \/ LapseUnheld(u) \/ StallAttempt(u)
      PROVE  file' = file
  BY <1>4 DEF DeleteCancelled, LapseUnheld, StallAttempt, diskVars
<1>5. CASE UNCHANGED vars
  BY <1>5 DEF vars
<1>. QED
  BY <1>1, <1>2, <1>3, <1>4, <1>5 DEF Next

\* The steps that write a result or remove one.
LEMMA ResultSteps ==
  ASSUME Inv, [Next]_vars
  PROVE  \/ result' = result
         \/ \E w \in Workers, outcome \in Result :
              worker[w].pc # "idle" /\ Eligible(w) /\ SettleParse(w, outcome)
         \/ \E c \in Calls : EraseRows(c)
<1>1. ASSUME NEW c \in Calls,
             \/ \E u \in Uploads : Reserve(c, u) \/ Reconcile(c, u) \/ Cancel(c, u) \/ Delete(c, u)
             \/ Stop(c) \/ Sweep(c) \/ SweepStalled(c)
      PROVE  result' = result
  BY <1>1 DEF Reserve, Reconcile, Cancel, Delete, Stop, Sweep, SweepStalled, dbVars
<1>2. ASSUME NEW c \in Calls, CallStep(c) PROVE result' = result \/ EraseRows(c)
  BY <1>2 DEF CallStep, Recover, Store, Publish, Recheck, Verify, QueueStoredUpload, Find, Mark,
     PublishMarker, Replace, FinishCancel, RemoveObject, dbVars
<1>3. ASSUME NEW w \in Workers, WorkerStep(w) \/ CrashWorker(w)
      PROVE  \/ result' = result
             \/ \E outcome \in Result :
                  worker[w].pc # "idle" /\ Eligible(w) /\ SettleParse(w, outcome)
  <2>1. FailParse(w) => result' = result \/ (Eligible(w) /\ SettleParse(w, "processing_failed"))
    BY DEF FailParse, dbVars
  <2>2. CASE Settle(w)
    BY <2>2, WorkerFacts DEF Settle, dbVars, WorkerState
  <2>3. CASE RecordFailure(w) \/ GiveUp(w)
    BY <2>1, <2>3 DEF RecordFailure, GiveUp, Result
  <2>4. CASE (\E u \in Uploads : Claim(w, u)) \/ ReadDocument(w) \/ Parse(w) \/ CrashWorker(w)
    BY <2>4 DEF Claim, ReadDocument, Parse, CrashWorker, dbVars
  <2>. QED
    BY <1>3, <2>2, <2>3, <2>4 DEF WorkerStep
<1>4. ASSUME NEW u \in Uploads,
             DeleteCancelled(u) \/ LapseUnheld(u) \/ StallAttempt(u) \/ ReclaimMarker(u)
      PROVE  result' = result
  BY <1>4 DEF DeleteCancelled, LapseUnheld, StallAttempt, ReclaimMarker, dbVars
<1>5. CASE UNCHANGED vars
  BY <1>5 DEF vars
<1>. QED
  BY <1>1, <1>2, <1>3, <1>4, <1>5 DEF Next

-----------------------------------------------------------------------------
(* Theorems *)

\* Every reachable state is typed.
THEOREM UploadsTypeCorrect == Spec => []UploadsTypeOK
<1>1. Inv => UploadsTypeOK
  BY DEF Inv
<1>. QED
  BY <1>1, InvCorrect, PTL

\* Whatever other calls for an upload do, once it is queued its object stays at its
\* path, at the version of its row, until the parse is over.
THEOREM QueuedAlwaysHasObject == Spec => []QueuedHasObject
<1>1. Inv => QueuedHasObject
  BY DEF Inv, UploadsInv, UploadOK, QueuedHasObject
<1>. QED
  BY <1>1, InvCorrect, PTL

\* No object is left of a cancelled upload, also when a slow call goes on to store it
\* after the cancellation, and after its marker was reclaimed.
THEOREM CancelledNeverHasObject == Spec => []CancelledHasNoObject
<1>1. Inv => CancelledHasNoObject
  BY VersionsAssumption DEF Inv, UploadsInv, UploadOK, CancelledHasNoObject, Stored
<1>. QED
  BY <1>1, InvCorrect, PTL

\* The result that a client reads and the execution of the command agree, although
\* an attempt may stall, crash or be superseded at any of its steps.
THEOREM ResultAlwaysTellsExecution == Spec => []ResultTellsExecution
<1>1. Inv => ResultTellsExecution
  BY DEF Inv, UploadsInv, UploadOK, ResultTellsExecution, Before
<1>. QED
  BY <1>1, InvCorrect, PTL

\* A published object is never overwritten by another; it gives way only to the
\* marker of a cancellation that is not over, or to the deletion of a settled upload.
THEOREM ObjectsAreNeverOverwritten == Spec => ObjectsAreNotOverwritten
<1>. DEFINE A == \A u \in Uploads :
                   Stored(u) /\ file'[u] # file[u] =>
                     \/ file'[u] = Marker /\ row[u].status = "cancelling"
                     \/ file'[u] = Absent /\ row[u].status = "queued" /\ result[u] # "none"
<1>1. Inv /\ [Next]_vars => [A]_vars
  <2>. SUFFICES ASSUME Inv, [Next]_vars, NEW u \in Uploads, Stored(u), file'[u] # file[u]
                PROVE  \/ file'[u] = Marker /\ row[u].status = "cancelling"
                       \/ file'[u] = Absent /\ row[u].status = "queued" /\ result[u] # "none"
    OBVIOUS
  <2>0. file[u] \notin {Absent, Marker} /\ file \in [Uploads -> Place]
    BY UploadFacts, VersionsAssumption DEF Stored
  <2>1. ASSUME NEW c \in Calls, Publish(c) \/ PublishMarker(c) PROVE FALSE
    <3>1. \/ file' = file
          \/ /\ call[c].u \in Uploads /\ file[call[c].u] = Absent
             /\ \E f : file' = [file EXCEPT ![call[c].u] = f]
      BY <2>1, CallFacts DEF Publish, PublishMarker, diskVars
    <3>. QED
      BY <2>0, <3>1
  <2>2. ASSUME NEW c \in Calls, Replace(c)
        PROVE  file'[u] = Marker /\ row[u].status = "cancelling"
    <3>1. /\ call[c].u \in Uploads /\ file' = [file EXCEPT ![call[c].u] = Marker]
          /\ CallOK(call[c], row[call[c].u], result[call[c].u], file[call[c].u])
          /\ call[c].pc = "replace"
      BY <2>2, CallFacts DEF Replace, diskVars
    <3>2. call[c].u = u
      BY <2>0, <3>1
    <3>. QED
      BY <2>0, <3>1, <3>2 DEF CallOK, Called
  <2>3. ASSUME NEW c \in Calls, RemoveObject(c)
        PROVE  file'[u] = Absent /\ row[u].status = "queued" /\ result[u] # "none"
    <3>1. /\ call[c].u \in Uploads /\ file' = [file EXCEPT ![call[c].u] = Absent]
          /\ CallOK(call[c], row[call[c].u], result[call[c].u], file[call[c].u])
          /\ call[c].pc = "remove"
      BY <2>3, CallFacts DEF RemoveObject
    <3>2. call[c].u = u
      BY <2>0, <3>1
    <3>. QED
      BY <2>0, <3>1, <3>2 DEF CallOK, Locked
  <2>4. ASSUME NEW v \in Uploads, ReclaimMarker(v) PROVE FALSE
    BY <2>0, <2>4 DEF ReclaimMarker
  <2>. QED
    BY <2>1, <2>2, <2>3, <2>4, FileSteps
<1>. QED
  BY <1>1, InvCorrect, PTL DEF Spec, ObjectsAreNotOverwritten

\* A result, once a client may have seen it, is not replaced by a late attempt: only
\* the deletion of the upload takes it away.
THEOREM ResultsAreAlwaysFinal == Spec => ResultsAreFinal
<1>. DEFINE A == \A u \in Uploads :
                   result[u] # "none" /\ result'[u] # result[u] => row'[u].status = "deleted"
<1>1. Inv /\ [Next]_vars => [A]_vars
  <2>. SUFFICES ASSUME Inv, [Next]_vars, NEW u \in Uploads, result[u] # "none",
                       result'[u] # result[u]
                PROVE  row'[u].status = "deleted"
    OBVIOUS
  <2>1. ASSUME NEW w \in Workers, NEW outcome \in Result, worker[w].pc # "idle", Eligible(w),
               SettleParse(w, outcome)
        PROVE  FALSE
    <3>1. /\ worker[w].u \in Uploads /\ result' = [result EXCEPT ![worker[w].u] = outcome]
          /\ exec[worker[w].u].status = "running" /\ row[worker[w].u].status = "queued"
      BY <2>1, WorkerFacts DEF SettleParse, Eligible, Owned
    <3>2. worker[w].u = u
      BY <3>1, UploadFacts
    <3>. QED
      BY <3>1, <3>2, UploadFacts DEF UploadOK
  <2>2. ASSUME NEW c \in Calls, EraseRows(c) PROVE row'[u].status = "deleted"
    <3>1. /\ call[c].u \in Uploads /\ result' = [result EXCEPT ![call[c].u] = "none"]
          /\ row' = [row EXCEPT ![call[c].u] = [status |-> "deleted", version |-> NoVersion]]
      BY <2>2, CallFacts DEF EraseRows
    <3>2. call[c].u = u
      BY <3>1, UploadFacts
    <3>. QED
      BY <3>1, <3>2, UploadFacts
  <2>. QED
    BY <2>1, <2>2, ResultSteps
<1>. QED
  BY <1>1, InvCorrect, PTL DEF Spec, ResultsAreFinal
=============================================================================
