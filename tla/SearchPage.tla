----------------------------- MODULE SearchPage -----------------------------
(***************************************************************************)
(* The pages of the web application that follow a search, and what the API *)
(* gives them: apps/web/src/components/job-search-view.tsx, the detail and *)
(* the event stream of a run in apps/api/src/app.ts, and the session both  *)
(* are read under.  The search itself is RunLifecycle.                     *)
(*                                                                         *)
(* A page learns the outcome twice over: it polls the detail of the run,   *)
(* and it keeps an EventSource whose messages make it ask again.  The      *)
(* handlers of the API await between their queries, messages travel, and   *)
(* connections break; the pages are those of one owner in one browser, so  *)
(* they share the cookie.                                                  *)
(***************************************************************************)
EXTENDS Integers, FiniteSets, Sequences

CONSTANTS
  Searches, Fingerprints,   \* those of RunLifecycle
  Endings,      \* the outcomes searches come to by themselves
  Pages,        \* tabs of the browser
  Streams,      \* requests for a stream the API may be busy with
  StreamCap,    \* open streams of one owner: 2
  MaxTurns,     \* how often the access token lapses in one behaviour
  MaxFaults,    \* failed requests, broken connections and reloads in one behaviour
  NoSearch, NoPage

VARIABLES
  log, found,   \* the searches, as in RunLifecycle
  page,         \* page[p]: what page p shows, asks and listens to
  stream,       \* stream[k]: where the handler of a stream stands
  session,      \* the session: alive or over, its access token
  faults

runVars == <<log, found>>
vars == <<log, found, page, stream, session, faults>>

Runs == INSTANCE RunLifecycle

ASSUME CapAssumption == StreamCap \in Nat \ {0}
ASSUME BoundsAssumption == MaxTurns \in Nat /\ MaxFaults \in Nat
ASSUME NullsAssumption == NoSearch \notin Searches /\ NoPage \notin Pages
ASSUME EndingsAssumption == Endings \subseteq Runs!Outcomes

-----------------------------------------------------------------------------
(* Types *)

\* What the page shows of its run: nothing yet, an unfinished or a finished
\* run; a page that "left" was sent to the sign-in form.
View == {"away", "unknown", "open", "closed", "left"}

\* A request for the detail waits, has read the run, or has read the postings too.
Fetch == {"idle", "asked", "status", "answered"}

\* The EventSource: none, connecting or reconnecting, connected, refused for
\* good, or closed by the page when it was told that the run is over.
Source == {"none", "asking", "open", "refused", "settled"}

MaxLog == 3     \* SearchQueued, SearchStarted and an outcome

Page == [run : Searches \union {NoSearch}, view : View, jobs : SUBSET Fingerprints,
         fetch : Fetch, readClosed : BOOLEAN, readJobs : SUBSET Fingerprints,
         source : Source, last : 0..MaxLog]

Message == [kind : {"progress"}, id : 1..MaxLog] \union [kind : {"settled", "expired"}, id : {0}]

\* "admitted" is before the second look at the cap, "ending" after the handler's
\* clean-up, when what it wrote may still be on its way.
Stream == [pc : {"free", "admitted", "watch", "read", "status", "pending", "ending"},
           page : Pages \union {NoPage}, run : Searches \union {NoSearch},
           cursor : 0..MaxLog, token : 0..MaxTurns, quiet : BOOLEAN, wire : Seq(Message)]

Session == [live : BOOLEAN, token : 0..MaxTurns, lapsed : BOOLEAN]

NewPage == [run |-> NoSearch, view |-> "away", jobs |-> {}, fetch |-> "idle",
            readClosed |-> FALSE, readJobs |-> {}, source |-> "none", last |-> 0]

NoStream == [pc |-> "free", page |-> NoPage, run |-> NoSearch, cursor |-> 0,
             token |-> 0, quiet |-> FALSE, wire |-> <<>>]

Init ==
  /\ Runs!Init
  /\ page = [p \in Pages |-> NewPage]
  /\ stream = [k \in Streams |-> NoStream]
  /\ session = [live |-> TRUE, token |-> 0, lapsed |-> FALSE]
  /\ faults = 0

-----------------------------------------------------------------------------
(* The search, and the session *)

RunStep ==
  /\ \E s \in Searches :
       \/ Runs!Submit(s)
       \/ Runs!Start(s)
       \/ \E outcome \in Endings, postings \in SUBSET Fingerprints :
            Runs!Close(s, outcome, postings)
  /\ UNCHANGED <<page, stream, session, faults>>

\* The cookie the browser sends is always the newest access token.
CookieAccepted == session.live /\ ~session.lapsed

\* The fifteen minutes of the access token are over.
Lapse ==
  /\ CookieAccepted
  /\ session.token < MaxTurns
  /\ session' = [session EXCEPT !.lapsed = TRUE]
  /\ UNCHANGED <<runVars, page, stream, faults>>

\* The session ends: signed out elsewhere, or past its own expiry.
EndSession ==
  /\ session.live
  /\ session' = [session EXCEPT !.live = FALSE]
  /\ UNCHANGED <<runVars, page, stream, faults>>

-----------------------------------------------------------------------------
(* The page: its detail query *)

\* The connections of p that the page itself gives up; the API notices later.
Hangup(p) ==
  [k \in Streams |-> IF stream[k].page = p
                     THEN [stream[k] EXCEPT !.page = NoPage, !.wire = <<>>]
                     ELSE stream[k]]

\* A new request for the detail, which replaces one that is under way.
Asking(p) == [page[p] EXCEPT !.fetch = "asked", !.readClosed = FALSE, !.readJobs = {}]

NotAsking(p) == [page[p] EXCEPT !.fetch = "idle", !.readClosed = FALSE, !.readJobs = {}]

Leave(p) ==
  /\ page' = [page EXCEPT ![p] = [NewPage EXCEPT !.view = "left"]]
  /\ stream' = Hangup(p)

OpenPage(p, s) ==
  /\ page[p].view = "away"
  /\ log[s] # <<>>
  /\ page' = [page EXCEPT ![p] = [NewPage EXCEPT !.run = s, !.view = "unknown", !.fetch = "asked"]]
  /\ UNCHANGED <<runVars, stream, session, faults>>

\* Mutant: a page that has an EventSource does not poll.
PolledWithoutStream(p) == page[p].view \in {"unknown", "open"} /\ page[p].source = "none"

\* Every ten seconds until the run that is shown is settled.
Polled(p) == page[p].view \in {"unknown", "open"}

Poll(p) ==
  /\ Polled(p)
  /\ page[p].fetch = "idle"
  /\ page' = [page EXCEPT ![p] = Asking(p)]
  /\ UNCHANGED <<runVars, stream, session, faults>>

\* The window is looked at again: the session and what is shown are asked for
\* anew.  The question for the session is never preceded by a refresh.
Focus(p) ==
  /\ page[p].view \in {"unknown", "open", "closed"}
  /\ page[p].fetch = "idle"
  /\ IF CookieAccepted
     THEN page' = [page EXCEPT ![p] = Asking(p)] /\ UNCHANGED stream
     ELSE Leave(p)
  /\ UNCHANGED <<runVars, session, faults>>

\* A request the API answers with 401 refreshes the session first and is sent
\* again; when that fails too, the page goes to the sign-in form.
Refresh(p) ==
  /\ page[p].fetch = "asked"
  /\ ~CookieAccepted
  /\ IF session.live
     THEN /\ session' = [session EXCEPT !.token = @ + 1, !.lapsed = FALSE]
          /\ UNCHANGED <<page, stream>>
     ELSE Leave(p) /\ UNCHANGED session
  /\ UNCHANGED <<runVars, faults>>

\* The handler of the detail reads the run first, in a query of its own.
ReadRun(p) ==
  /\ page[p].fetch = "asked"
  /\ CookieAccepted
  /\ page' = [page EXCEPT ![p].fetch = "status", ![p].readClosed = Runs!Closed(page[p].run)]
  /\ UNCHANGED <<runVars, stream, session, faults>>

ReadJobs(p) ==
  /\ page[p].fetch = "status"
  /\ page' = [page EXCEPT ![p].fetch = "answered", ![p].readJobs = found[page[p].run]]
  /\ UNCHANGED <<runVars, stream, session, faults>>

\* Mutant: the status of the answer is read after the postings.
AnsweredClosedLate(p) == Runs!Closed(page[p].run)

AnsweredClosed(p) == page[p].readClosed

\* The answer arrives.  With a settled run the effect closes the EventSource.
ShowDetail(p) ==
  /\ page[p].fetch = "answered"
  /\ IF AnsweredClosed(p)
     THEN /\ page' = [page EXCEPT ![p] = [NotAsking(p) EXCEPT
                        !.view = "closed", !.jobs = page[p].readJobs,
                        !.source = "none", !.last = 0]]
          /\ stream' = Hangup(p)
     ELSE /\ page' = [page EXCEPT ![p] = [NotAsking(p) EXCEPT
                        !.view = "open", !.jobs = page[p].readJobs]]
          /\ UNCHANGED stream
  /\ UNCHANGED <<runVars, session, faults>>

\* The owner cancels, which the page offers while it shows an unfinished run,
\* and asks again.  (For a run that is over by now that is all that happens.)
Cancel(p) ==
  /\ page[p].view = "open"
  /\ CookieAccepted
  /\ Runs!Open(page[p].run)
  /\ Runs!Close(page[p].run, "SearchCancelled", {})
  /\ page' = [page EXCEPT ![p] = Asking(p)]
  /\ UNCHANGED <<stream, session, faults>>

-----------------------------------------------------------------------------
(* The page: its EventSource *)

\* While the run that is shown is queued or running.
Listen(p) ==
  /\ page[p].view = "open" /\ page[p].source = "none"
  /\ page' = [page EXCEPT ![p].source = "asking", ![p].last = 0]
  /\ UNCHANGED <<runVars, stream, session, faults>>

\* What the page does with a message: every progress makes the detail stale and
\* asks for it anew, whether or not a request is under way.
Heard(p, m) ==
  CASE m.kind = "progress" -> [Asking(p) EXCEPT !.last = m.id]
    [] m.kind = "settled"  -> [Asking(p) EXCEPT !.source = "settled"]
    [] m.kind = "expired"  -> [NewPage EXCEPT !.view = "left"]

Deliver(k) ==
  LET p == stream[k].page
      m == Head(stream[k].wire) IN
  /\ p # NoPage
  /\ stream[k].wire # <<>>
  /\ page' = [page EXCEPT ![p] = Heard(p, m)]
  /\ stream' = IF m.kind = "progress"
               THEN [stream EXCEPT ![k].wire = Tail(@)]
               ELSE Hangup(p)
  /\ UNCHANGED <<runVars, session, faults>>

-----------------------------------------------------------------------------
(* The API: GET /api/searches/:id/events *)

\* A stream counts from its second look at the cap to its clean-up.
Counted == {k \in Streams : stream[k].pc \in {"watch", "read", "status", "pending"}}

CapReached == Cardinality(Counted) >= StreamCap

\* Any answer but 200 ends an EventSource for good.
Refused(p) == page' = [page EXCEPT ![p].source = "refused"]

\* Authentication and the first look at the cap, before the queries.
Admit(p, k) ==
  /\ page[p].source = "asking"
  /\ \A j \in Streams : stream[j].page # p
  /\ stream[k].pc = "free"
  /\ IF ~CookieAccepted \/ CapReached
     THEN Refused(p) /\ UNCHANGED stream
     ELSE /\ stream' = [stream EXCEPT ![k] = [NoStream EXCEPT
                          !.pc = "admitted", !.page = p, !.run = page[p].run,
                          !.cursor = page[p].last, !.token = session.token]]
          /\ UNCHANGED page
  /\ UNCHANGED <<runVars, session, faults>>

\* Mutant: the cap is looked at once.
AdmittedIsEnough(k) == FALSE

FullAfterAll(k) == CapReached

\* The second look, after the awaits, and the entry in the map of streams.
Accept(k) ==
  /\ stream[k].pc = "admitted"
  /\ LET p == stream[k].page IN
     IF FullAfterAll(k)
     THEN /\ stream' = [stream EXCEPT ![k] = NoStream]
          /\ IF p # NoPage THEN Refused(p) ELSE UNCHANGED page
     ELSE /\ stream' = [stream EXCEPT ![k].pc = "watch"]
          /\ IF p # NoPage THEN page' = [page EXCEPT ![p].source = "open"] ELSE UNCHANGED page
  /\ UNCHANGED <<runVars, session, faults>>

Written(k, messages) ==
  IF stream[k].page = NoPage THEN <<>> ELSE stream[k].wire \o messages

\* Every round asks first whether the cookie of the request still opens a session.
Watch(k) ==
  /\ stream[k].pc = "watch"
  /\ stream' = IF CookieAccepted /\ stream[k].token = session.token
               THEN [stream EXCEPT ![k].pc = "read"]
               ELSE [stream EXCEPT ![k].pc = "ending",
                                   ![k].wire = Written(k, <<[kind |-> "expired", id |-> 0]>>)]
  /\ UNCHANGED <<runVars, page, session, faults>>

\* Mutant: the query asks for the events from the cursor on.
NewsFromLast(k) ==
  LET heard == IF stream[k].cursor = 0 THEN 0 ELSE stream[k].cursor - 1 IN
  [i \in 1..(Len(log[stream[k].run]) - heard) |-> [kind |-> "progress", id |-> heard + i]]

\* The events after the cursor.  (A run has three at most, fewer than the fifty
\* of a query.)
News(k) ==
  [i \in 1..(Len(log[stream[k].run]) - stream[k].cursor) |->
     [kind |-> "progress", id |-> stream[k].cursor + i]]

\* They are written, and an outcome among them ends the stream.
ReadEvents(k) ==
  LET news == News(k)
      over == news # <<>> /\ Runs!Closed(stream[k].run) IN
  /\ stream[k].pc = "read"
  /\ stream' = [stream EXCEPT ![k] = [@ EXCEPT
                  !.cursor = Len(log[stream[k].run]), !.quiet = news = <<>> /\ ~over,
                  !.pc = IF over THEN "ending" ELSE "status",
                  !.wire = Written(k, news \o IF over THEN <<[kind |-> "settled", id |-> 0]>>
                                                      ELSE <<>>)]]
  /\ UNCHANGED <<runVars, page, session, faults>>

\* Then the run is read: unless it is over and had no news, a second passes.
ReadStatus(k) ==
  /\ stream[k].pc = "status"
  /\ stream' = [stream EXCEPT ![k].quiet = FALSE, ![k].pc =
                  IF stream[k].quiet /\ Runs!Closed(stream[k].run) THEN "pending" ELSE "watch"]
  /\ UNCHANGED <<runVars, page, session, faults>>

NothingPending(k) == stream[k].cursor = Len(log[stream[k].run])

\* The outcome may have been logged between the two reads.
ReadPending(k) ==
  /\ stream[k].pc = "pending"
  /\ stream' = IF NothingPending(k)
               THEN [stream EXCEPT ![k].pc = "ending",
                                   ![k].wire = Written(k, <<[kind |-> "settled", id |-> 0]>>)]
               ELSE [stream EXCEPT ![k].pc = "watch"]
  /\ UNCHANGED <<runVars, page, session, faults>>

\* After 25 s, or when the API shuts down or a query fails.
Abort(k) ==
  /\ k \in Counted
  /\ stream' = [stream EXCEPT ![k].pc = "ending", ![k].quiet = FALSE]
  /\ UNCHANGED <<runVars, page, session, faults>>

\* The connection is gone.  A page that is still listening connects again, with
\* the id of the last event it heard.
End(k) ==
  LET p == stream[k].page IN
  /\ stream[k].pc = "ending" /\ stream[k].wire = <<>>
  /\ stream' = [stream EXCEPT ![k] = NoStream]
  /\ page' = IF p # NoPage THEN [page EXCEPT ![p].source = "asking"] ELSE page
  /\ UNCHANGED <<runVars, session, faults>>

\* The API notices that the page hung up.
HungUp(k) ==
  /\ k \in Counted /\ stream[k].page = NoPage
  /\ stream' = [stream EXCEPT ![k] = NoStream]
  /\ UNCHANGED <<runVars, page, session, faults>>

StreamStep(k) ==
  \/ Accept(k)
  \/ Watch(k)
  \/ ReadEvents(k)
  \/ ReadStatus(k)
  \/ ReadPending(k)
  \/ Abort(k)
  \/ End(k)
  \/ HungUp(k)
  \/ Deliver(k)

-----------------------------------------------------------------------------
(* Faults *)

Fault == faults < MaxFaults /\ faults' = faults + 1

\* A request for the detail fails: the network, a time-out, a budget.
FetchFails(p) ==
  /\ page[p].fetch # "idle"
  /\ page' = [page EXCEPT ![p] = NotAsking(p)]
  /\ UNCHANGED <<runVars, stream, session>>
  /\ Fault

\* The connection of a stream breaks, with what was on it; the page notices at
\* once and the API later.
Break(k) ==
  LET p == stream[k].page IN
  /\ p # NoPage
  /\ page' = [page EXCEPT ![p].source = "asking"]
  /\ stream' = Hangup(p)
  /\ UNCHANGED <<runVars, session>>
  /\ Fault

\* The budget of thirty streams a minute is used up.
OverBudget(p) ==
  /\ page[p].source = "asking"
  /\ \A j \in Streams : stream[j].page # p
  /\ Refused(p)
  /\ UNCHANGED <<runVars, stream, session>>
  /\ Fault

\* The page is loaded again.
Reload(p) ==
  /\ page[p].view \in {"unknown", "open", "closed"}
  /\ page' = [page EXCEPT ![p] = [NewPage EXCEPT !.run = page[p].run, !.view = "unknown",
                                                 !.fetch = "asked"]]
  /\ stream' = Hangup(p)
  /\ UNCHANGED <<runVars, session>>
  /\ Fault

-----------------------------------------------------------------------------

DetailStep(p) == Poll(p) \/ Refresh(p) \/ ReadRun(p) \/ ReadJobs(p) \/ ShowDetail(p)

Next ==
  \/ RunStep
  \/ Lapse
  \/ EndSession
  \/ \E p \in Pages :
       \/ \E s \in Searches : OpenPage(p, s)
       \/ DetailStep(p)
       \/ Focus(p)
       \/ Cancel(p)
       \/ Listen(p)
       \/ \E k \in Streams : Admit(p, k)
  \/ \E k \in Streams : StreamStep(k)
  \/ \E p \in Pages : FetchFails(p) \/ OverBudget(p) \/ Reload(p)
  \/ \E k \in Streams : Break(k)

Spec == Init /\ [][Next]_vars

\* The page's timer runs and its requests are answered; nothing is assumed of
\* the streams, which the API may end or refuse at any time.
FairSpec == Spec /\ \A p \in Pages : WF_vars(DetailStep(p))

-----------------------------------------------------------------------------
(* What the page can rely on *)

\* Types; in particular the owner never holds more streams than the cap, though
\* requests pass the first look at it together.
PageTypeOK ==
  /\ page \in [Pages -> Page]
  /\ stream \in [Streams -> Stream]
  /\ session \in Session
  /\ faults \in 0..MaxFaults
  /\ Cardinality(Counted) <= StreamCap

\* A page that shows a finished run, and has stopped asking, shows all of its
\* postings: the run is read before them, and settles together with them.
FinishedPageIsComplete ==
  \A p \in Pages :
    page[p].view = "closed" =>
      Runs!Closed(page[p].run) /\ page[p].jobs = found[page[p].run]

\* An EventSource hears every event of the run once and in order, over as many
\* connections as it takes: what it is handed is the event after the last one,
\* and only a new EventSource starts again.  It is told that the run is over
\* only after the last event.
StreamTellsAll ==
  [][/\ \A k \in Streams :
          Deliver(k) /\ Head(stream[k].wire).kind = "progress" =>
            Head(stream[k].wire).id = page[stream[k].page].last + 1
     /\ \A p \in Pages :
          /\ page'[p].last # page[p].last =>
               \/ page'[p].last = page[p].last + 1
               \/ page'[p].last = 0 /\ "none" \in {page[p].source, page'[p].source}
          /\ page'[p].source = "settled" /\ page[p].source # "settled" =>
               Runs!Closed(page[p].run) /\ page[p].last = Len(log[page[p].run])]_vars

\* Whoever looks at a finished run gets to see that it is, with or without a
\* stream, unless the page is sent to the sign-in form.
PagesSettle ==
  \A p \in Pages, s \in Searches :
    (page[p].run = s /\ Runs!Closed(s)) ~> page[p].view \in {"closed", "left"}
=============================================================================
