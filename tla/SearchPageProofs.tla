-------------------------- MODULE SearchPageProofs --------------------------
(***************************************************************************)
(* Theorems about SearchPage, for any number of searches, postings, pages, *)
(* streams, and any cap.                                                   *)
(***************************************************************************)
EXTENDS SearchPage, FiniteSetTheorems, SequenceTheorems, TLAPS

Events == {"SearchQueued", "SearchStarted"} \union Runs!Outcomes

\* Runs!Closed, of a log that may not be that of the present state.
ClosedIn(l, s) == l[s] # <<>> /\ l[s][Len(l[s])] \in Runs!Outcomes

\* A log has room for its outcome.
RunsOK ==
  /\ log \in [Searches -> Seq(Events)] /\ found \in [Searches -> SUBSET Fingerprints]
  /\ \A s \in Searches :
       Len(log[s]) <= MaxLog /\ (Len(log[s]) = MaxLog => ClosedIn(log, s))

Looking == {"unknown", "open", "closed"}

\* A page follows a search while it is looked at, listens only when it has shown the
\* run, and has heard no more than the log holds.
PageOK(l, v) ==
  /\ v.view \in Looking => v.run \in Searches /\ v.last <= Len(l[v.run])
  /\ v.view \notin Looking => v.fetch = "idle" /\ ~v.readClosed /\ v.source = "none"
  /\ v.view = "unknown" => v.source = "none"

\* An answer that tells the run is over has its postings with it, and so does the
\* page that shows it.
AnswerOK(l, f, v) ==
  /\ v.readClosed => ClosedIn(l, v.run)
  /\ v.readClosed /\ v.fetch = "answered" => v.readJobs = f[v.run]
  /\ v.view = "closed" => ClosedIn(l, v.run) /\ v.jobs = f[v.run]

PageGood(l, f, v) == PageOK(l, v) /\ AnswerOK(l, f, v)

\* The handler of a stream has written no more than the log holds; a stream that
\* nobody listens to has nothing on its way; the run whose last events are looked
\* for once more is closed.
HandlerOK(l, w) ==
  /\ w.pc # "free" => w.run \in Searches /\ w.cursor <= Len(l[w.run])
  /\ w.pc = "free" => w.page = NoPage
  /\ w.page = NoPage => w.wire = <<>>
  /\ w.pc = "pending" => ClosedIn(l, w.run)

Spoken(wire) == wire # <<>> /\ wire[Len(wire)].kind # "progress"

\* What is on its way to page v: the events after the last one it heard, up to the
\* cursor, and then at most one last message.
WireOK(w, v) ==
  /\ v.run = w.run
  /\ v.source = IF w.pc = "admitted" THEN "asking" ELSE "open"
  /\ \A i \in 1..Len(w.wire) :
       IF w.wire[i].kind = "progress" THEN w.wire[i].id = v.last + i
       ELSE w.pc = "ending" /\ i = Len(w.wire)
  /\ Spoken(w.wire) => w.cursor + 1 = v.last + Len(w.wire)
  /\ ~Spoken(w.wire) => w.cursor = v.last + Len(w.wire)

\* That the run is over is said when every event is.
SaidOK(l, w) ==
  \A i \in 1..Len(w.wire) :
    w.wire[i].kind = "settled" => ClosedIn(l, w.run) /\ w.cursor = Len(l[w.run])

StreamsOK(l, st, pg) ==
  /\ \A k \in Streams : HandlerOK(l, st[k]) /\ SaidOK(l, st[k])
  /\ \A k \in Streams, p \in Pages : st[k].page = p => WireOK(st[k], pg[p])
  /\ \A j, k \in Streams : st[j].page = st[k].page /\ st[k].page # NoPage => j = k

\* A token that lapsed has a successor.
SessionOK(v) == v.live /\ v.lapsed => v.token < MaxTurns

Inv ==
  /\ PageTypeOK /\ IsFiniteSet(Counted)
  /\ RunsOK /\ SessionOK(session)
  /\ StreamsOK(log, stream, page)
  /\ \A p \in Pages : PageGood(log, found, page[p])

-----------------------------------------------------------------------------
(* The searches *)

\* What every step of a search keeps: a log only grows, and a closed one is final.
RunsGrow ==
  /\ RunsOK'
  /\ \A s \in Searches :
       /\ Len(log[s]) <= Len(log'[s])
       /\ ClosedIn(log, s) => log'[s] = log[s] /\ found'[s] = found[s]

LEMMA SameRuns == RunsOK /\ UNCHANGED runVars => RunsGrow
<1>. SUFFICES ASSUME RunsOK, UNCHANGED runVars PROVE RunsGrow
  OBVIOUS
<1>1. log' = log /\ found' = found
  BY DEF runVars
<1>2. RunsOK'
  BY <1>1 DEF RunsOK, ClosedIn
<1>3. \A s \in Searches : Len(log[s]) \in Nat
  BY DEF RunsOK
<1>. QED
  BY <1>1, <1>2, <1>3 DEF RunsGrow

LEMMA ClosedFacts == \A s : Runs!Closed(s) <=> ClosedIn(log, s)
BY DEF Runs!Closed, Runs!Last, ClosedIn

\* One more event in the log of an unfinished run.
LEMMA OneMoreEvent ==
  ASSUME RunsOK, NEW s \in Searches, NEW e \in Events, ~ClosedIn(log, s),
         Len(log[s]) + 1 = MaxLog => e \in Runs!Outcomes,
         log' = [log EXCEPT ![s] = Append(@, e)],
         NEW f \in SUBSET Fingerprints, found' = found \/ found' = [found EXCEPT ![s] = f]
  PROVE  RunsGrow
<1>0. /\ log \in [Searches -> Seq(Events)] /\ found \in [Searches -> SUBSET Fingerprints]
      /\ Len(log[s]) \in Nat /\ Len(log[s]) < MaxLog
  <2>1. log \in [Searches -> Seq(Events)] /\ found \in [Searches -> SUBSET Fingerprints]
    BY DEF RunsOK
  <2>2. log[s] \in Seq(Events)
    BY <2>1
  <2>3. Len(log[s]) \in Nat
    BY <2>2
  <2>4. Len(log[s]) <= MaxLog /\ Len(log[s]) # MaxLog
    BY DEF RunsOK
  <2>5. \A n \in Nat : n <= MaxLog /\ n # MaxLog => n < MaxLog
    BY DEF MaxLog
  <2>6. Len(log[s]) < MaxLog
    BY <2>3, <2>4, <2>5
  <2>. QED
    BY <2>1, <2>3, <2>6
<1>1. /\ log'[s] = Append(log[s], e)
      /\ \A r \in Searches \ {s} : log'[r] = log[r] /\ found'[r] = found[r]
  BY <1>0
<1>2. log'[s] \in Seq(Events) /\ Len(log'[s]) = Len(log[s]) + 1 /\ log'[s][Len(log'[s])] = e
  BY <1>0, <1>1
<1>3. log' \in [Searches -> Seq(Events)] /\ found' \in [Searches -> SUBSET Fingerprints]
  BY <1>0, <1>1, <1>2
<1>4. Len(log'[s]) = MaxLog => ClosedIn(log', s)
  BY <1>0, <1>2 DEF ClosedIn, MaxLog
<1>5. ASSUME NEW r \in Searches
      PROVE  /\ Len(log'[r]) <= MaxLog /\ (Len(log'[r]) = MaxLog => ClosedIn(log', r))
             /\ Len(log[r]) <= Len(log'[r])
             /\ ClosedIn(log, r) => log'[r] = log[r] /\ found'[r] = found[r]
  <2>1. CASE r = s
    BY <2>1, <1>0, <1>2, <1>4 DEF MaxLog
  <2>2. CASE r # s
    <3>1. Len(log[r]) \in Nat
      BY <1>0
    <3>. QED
      BY <2>2, <3>1, <1>1 DEF RunsOK, ClosedIn
  <2>. QED
    BY <2>1, <2>2
<1>. QED
  BY <1>3, <1>5 DEF RunsGrow, RunsOK

LEMMA CloseGrows ==
  ASSUME RunsOK, NEW s \in Searches, NEW outcome \in Runs!Outcomes,
         NEW postings \in SUBSET Fingerprints, Runs!Close(s, outcome, postings)
  PROVE  RunsGrow
<1>1. ~ClosedIn(log, s)
  BY DEF Runs!Close, Runs!Open, Runs!Last, ClosedIn
<1>2. /\ log' = [log EXCEPT ![s] = Append(@, outcome)]
      /\ found' = [found EXCEPT ![s] = postings] /\ outcome \in Events
  BY DEF Runs!Close, Events
<1>. QED
  BY <1>1, <1>2, OneMoreEvent

LEMMA RunStepGrows == RunsOK /\ RunStep => RunsGrow
<1>. SUFFICES ASSUME RunsOK, RunStep PROVE RunsGrow
  OBVIOUS
<1>1. ASSUME NEW s \in Searches, Runs!Submit(s) PROVE RunsGrow
  <2>1. log[s] = <<>> /\ log' = [log EXCEPT ![s] = Append(@, "SearchQueued")] /\ found' = found
    BY <1>1 DEF Runs!Submit
  <2>2. Len(log[s]) + 1 # MaxLog /\ ~ClosedIn(log, s)
    BY <2>1 DEF MaxLog, ClosedIn
  <2>. QED
    BY <2>1, <2>2, OneMoreEvent DEF Events
<1>2. ASSUME NEW s \in Searches, Runs!Start(s) PROVE RunsGrow
  <2>1. /\ log[s] = <<"SearchQueued">> /\ log' = [log EXCEPT ![s] = Append(@, "SearchStarted")]
        /\ found' = found
    BY <1>2 DEF Runs!Start
  <2>2. Len(log[s]) + 1 # MaxLog /\ ~ClosedIn(log, s)
    BY <2>1 DEF MaxLog, ClosedIn, Runs!Outcomes
  <2>. QED
    BY <2>1, <2>2, OneMoreEvent DEF Events
<1>. QED
  BY <1>1, <1>2, CloseGrows, EndingsAssumption DEF RunStep

\* What is known of pages and streams survives a step of a search.
LEMMA GoodGrows ==
  ASSUME RunsOK, RunsGrow, NEW v \in Page, PageGood(log, found, v)
  PROVE  PageGood(log', found', v)
<1>1. CASE v.view \in Looking
  <2>1. v.run \in Searches /\ v.last \in Nat
    BY <1>1 DEF PageGood, PageOK, Page, MaxLog
  <2>2. Len(log[v.run]) \in Nat /\ Len(log'[v.run]) \in Nat
    BY <2>1 DEF RunsGrow, RunsOK
  <2>3. v.last <= Len(log'[v.run])
    BY <1>1, <2>1, <2>2 DEF PageGood, PageOK, RunsGrow
  <2>4. ClosedIn(log, v.run) => ClosedIn(log', v.run) /\ found'[v.run] = found[v.run]
    BY <2>1 DEF RunsGrow, ClosedIn
  <2>. QED
    BY <1>1, <2>1, <2>3, <2>4 DEF PageGood, PageOK, AnswerOK
<1>2. CASE v.view \notin Looking
  <2>1. v.view # "closed"
    BY <1>2 DEF Looking
  <2>. QED
    BY <1>2, <2>1 DEF PageGood, PageOK, AnswerOK
<1>. QED
  BY <1>1, <1>2

LEMMA HandlerGrows ==
  ASSUME RunsOK, RunsGrow, NEW w \in Stream, HandlerOK(log, w), SaidOK(log, w)
  PROVE  HandlerOK(log', w) /\ SaidOK(log', w)
<1>1. CASE w.pc # "free"
  <2>1. w.run \in Searches /\ w.cursor \in Nat
    BY <1>1 DEF HandlerOK, Stream, MaxLog
  <2>2. Len(log[w.run]) \in Nat /\ Len(log'[w.run]) \in Nat
    BY <2>1 DEF RunsGrow, RunsOK
  <2>3. w.cursor <= Len(log'[w.run])
    BY <1>1, <2>1, <2>2 DEF HandlerOK, RunsGrow
  <2>4. ClosedIn(log, w.run) => ClosedIn(log', w.run) /\ log'[w.run] = log[w.run]
    BY <2>1 DEF RunsGrow, ClosedIn
  <2>. QED
    BY <1>1, <2>1, <2>3, <2>4 DEF HandlerOK, SaidOK
<1>2. CASE w.pc = "free"
  <2>1. w.wire = <<>>
    BY <1>2 DEF HandlerOK
  <2>. QED
    BY <1>2, <2>1 DEF HandlerOK, SaidOK
<1>. QED
  BY <1>1, <1>2

LEMMA InvFacts ==
  ASSUME Inv
  PROVE  /\ page \in [Pages -> Page] /\ stream \in [Streams -> Stream]
         /\ session \in Session /\ faults \in 0..MaxFaults
         /\ RunsOK /\ SessionOK(session) /\ StreamsOK(log, stream, page)
         /\ \A p \in Pages : PageGood(log, found, page[p])
BY DEF Inv, PageTypeOK

\* The count of the open streams of the owner.
LEMMA CountedFacts ==
  ASSUME Inv, NEW k \in Streams,
         \/ Counted' \subseteq Counted
         \/ ~CapReached /\ Counted' \subseteq Counted \union {k}
  PROVE  IsFiniteSet(Counted') /\ Cardinality(Counted') <= StreamCap
<1>1. IsFiniteSet(Counted) /\ Cardinality(Counted) \in Nat /\ Cardinality(Counted) <= StreamCap
  BY FS_CardinalityType DEF Inv, PageTypeOK
<1>2. CASE Counted' \subseteq Counted
  <2>1. IsFiniteSet(Counted') /\ Cardinality(Counted') <= Cardinality(Counted)
    BY <1>1, <1>2, FS_Subset
  <2>2. Cardinality(Counted') \in Nat
    BY <2>1, FS_CardinalityType
  <2>. QED
    BY <1>1, <2>1, <2>2, CapAssumption
<1>3. CASE ~CapReached /\ Counted' \subseteq Counted \union {k}
  <2>. DEFINE T == Counted \union {k}
  <2>0. /\ IsFiniteSet(T)
        /\ Cardinality(T) = IF k \in Counted THEN Cardinality(Counted)
                            ELSE Cardinality(Counted) + 1
    BY <1>1, FS_AddElement
  <2>1. IsFiniteSet(T) /\ Cardinality(T) \in Nat /\ Cardinality(T) <= Cardinality(Counted) + 1
    <3>. HIDE DEF T
    <3>. QED
      BY <1>1, <2>0, FS_CardinalityType
  <2>2. IsFiniteSet(Counted') /\ Cardinality(Counted') <= Cardinality(T)
    BY <1>3, <2>1, FS_Subset
  <2>3. Cardinality(Counted') \in Nat
    BY <2>2, FS_CardinalityType
  <2>4. Cardinality(Counted) < StreamCap
    BY <1>1, <1>3, CapAssumption DEF CapReached
  <2>. HIDE DEF T
  <2>. QED
    BY <1>1, <2>1, <2>2, <2>3, <2>4, CapAssumption
<1>. QED
  BY <1>2, <1>3

LEMMA CountedStays ==
  ASSUME Inv, \A k \in Streams : stream'[k].pc = stream[k].pc
  PROVE  IsFiniteSet(Counted') /\ Cardinality(Counted') <= StreamCap
<1>1. Counted' = Counted
  BY DEF Counted
<1>. QED
  BY <1>1 DEF Inv, PageTypeOK

\* Steps of a search change nothing that the invariant says of the rest.
LEMMA RunsInv ==
  ASSUME Inv, RunsGrow, UNCHANGED <<page, stream, session, faults>>
  PROVE  Inv'
<1>1. /\ page \in [Pages -> Page] /\ stream \in [Streams -> Stream]
      /\ RunsOK /\ StreamsOK(log, stream, page)
      /\ \A p \in Pages : PageGood(log, found, page[p])
  BY InvFacts
<1>2. \A p \in Pages : PageGood(log', found', page[p])
  BY <1>1, GoodGrows
<1>3. \A k \in Streams : HandlerOK(log', stream[k]) /\ SaidOK(log', stream[k])
  BY <1>1, HandlerGrows DEF StreamsOK
<1>4. StreamsOK(log', stream, page)
  BY <1>1, <1>3 DEF StreamsOK
<1>5. PageTypeOK' /\ IsFiniteSet(Counted')
  BY CountedStays DEF Inv, PageTypeOK
<1>. QED
  BY <1>2, <1>4, <1>5 DEF Inv, RunsGrow

-----------------------------------------------------------------------------
(* Steps of a page *)

\* A step of page p and perhaps of a search; p goes on listening as it did or is
\* heard by nobody.
LEMMA PageStepGrows ==
  ASSUME Inv, RunsGrow, stream' = stream, NEW p \in Pages, NEW v \in Page,
         page' = [page EXCEPT ![p] = v], PageGood(log', found', v),
         \/ v.run = page[p].run /\ v.source = page[p].source /\ v.last = page[p].last
         \/ \A k \in Streams : stream[k].page # p,
         session' = session, faults' \in 0..MaxFaults
  PROVE  Inv'
<1>0. /\ page \in [Pages -> Page] /\ stream \in [Streams -> Stream] /\ RunsOK
      /\ session \in Session /\ SessionOK(session)
      /\ StreamsOK(log, stream, page) /\ \A q \in Pages : PageGood(log, found, page[q])
  BY InvFacts
<1>1. page' \in [Pages -> Page] /\ page'[p] = v /\ \A q \in Pages \ {p} : page'[q] = page[q]
  BY <1>0
<1>2. RunsOK'
  BY DEF RunsGrow
<1>3. ASSUME NEW q \in Pages PROVE PageGood(log', found', page'[q])
  BY <1>0, <1>1, GoodGrows
<1>4. ASSUME NEW k \in Streams, NEW q \in Pages, stream'[k].page = q
      PROVE  WireOK(stream'[k], page'[q])
  <2>1. stream'[k] = stream[k] /\ WireOK(stream[k], page[q])
    BY <1>0, <1>4 DEF StreamsOK
  <2>2. CASE q = p
    BY <1>1, <1>4, <2>1, <2>2 DEF WireOK
  <2>. QED
    BY <1>1, <2>1, <2>2
<1>5. \A k \in Streams : HandlerOK(log', stream[k]) /\ SaidOK(log', stream[k])
  BY <1>0, HandlerGrows DEF StreamsOK
<1>6. StreamsOK(log', stream', page')
  BY <1>0, <1>4, <1>5 DEF StreamsOK
<1>7. PageTypeOK' /\ IsFiniteSet(Counted')
  BY <1>0, <1>1, CountedStays DEF PageTypeOK
<1>. QED
  BY <1>0, <1>2, <1>3, <1>6, <1>7 DEF Inv

LEMMA PageStepInv ==
  ASSUME Inv, UNCHANGED <<runVars, stream>>, NEW p \in Pages, NEW v \in Page,
         page' = [page EXCEPT ![p] = v], PageGood(log, found, v),
         \/ v.run = page[p].run /\ v.source = page[p].source /\ v.last = page[p].last
         \/ \A k \in Streams : stream[k].page # p,
         session' = session, faults' \in 0..MaxFaults
  PROVE  Inv'
<1>1. RunsGrow /\ log' = log /\ found' = found
  BY InvFacts, SameRuns DEF runVars
<1>. QED
  BY <1>1, PageStepGrows

\* A page that hangs up may become anything.
LEMMA HangupInv ==
  ASSUME Inv, UNCHANGED runVars, NEW p \in Pages, NEW v \in Page,
         page' = [page EXCEPT ![p] = v], PageGood(log, found, v), stream' = Hangup(p),
         session' = session, faults' \in 0..MaxFaults
  PROVE  Inv'
<1>0. /\ page \in [Pages -> Page] /\ stream \in [Streams -> Stream] /\ RunsOK
      /\ session \in Session /\ SessionOK(session)
      /\ StreamsOK(log, stream, page) /\ \A q \in Pages : PageGood(log, found, page[q])
  BY InvFacts
<1>1. page' \in [Pages -> Page] /\ page'[p] = v /\ \A q \in Pages \ {p} : page'[q] = page[q]
  BY <1>0
<1>2. RunsOK' /\ log' = log /\ found' = found
  BY <1>0, SameRuns DEF RunsGrow, runVars
<1>3. \A q \in Pages : PageGood(log', found', page'[q])
  BY <1>0, <1>1, <1>2
<1>4. ASSUME NEW k \in Streams
      PROVE  /\ stream'[k] \in Stream /\ stream'[k].pc = stream[k].pc
             /\ HandlerOK(log, stream'[k]) /\ SaidOK(log, stream'[k])
             /\ stream'[k].page # p
             /\ stream'[k].page # NoPage => stream'[k] = stream[k]
  <2>. DEFINE w == [stream[k] EXCEPT !.page = NoPage, !.wire = <<>>]
  <2>0. stream[k] \in Stream /\ HandlerOK(log, stream[k]) /\ SaidOK(log, stream[k])
    BY <1>0 DEF StreamsOK
  <2>1. CASE stream[k].page = p
    <3>1. stream'[k] = w
      BY <2>1 DEF Hangup
    <3>2. <<>> \in Seq(Message)
      OBVIOUS
    <3>3. /\ w \in Stream /\ w.pc = stream[k].pc /\ w.page = NoPage /\ w.wire = <<>>
          /\ w.run = stream[k].run /\ w.cursor = stream[k].cursor
      BY <2>0, <3>2 DEF Stream
    <3>. HIDE DEF w
    <3>. QED
      BY <2>0, <3>1, <3>3, NullsAssumption DEF HandlerOK, SaidOK
  <2>2. CASE stream[k].page # p
    <3>1. stream'[k] = stream[k]
      BY <2>2 DEF Hangup
    <3>. QED
      BY <2>0, <2>2, <3>1
  <2>. QED
    BY <2>1, <2>2
<1>5. stream' \in [Streams -> Stream]
  BY <1>4 DEF Hangup
<1>6. ASSUME NEW k \in Streams, NEW q \in Pages, stream'[k].page = q
      PROVE  WireOK(stream'[k], page'[q])
  BY <1>0, <1>1, <1>4, <1>6, NullsAssumption DEF StreamsOK
<1>7. StreamsOK(log', stream', page')
  BY <1>0, <1>2, <1>4, <1>6 DEF StreamsOK
<1>8. PageTypeOK' /\ IsFiniteSet(Counted')
  BY <1>0, <1>1, <1>4, <1>5, CountedStays DEF PageTypeOK
<1>. QED
  BY <1>0, <1>2, <1>3, <1>7, <1>8 DEF Inv

\* A step of the handler of stream k, and perhaps of the page it is heard by.
LEMMA StreamStepInv ==
  ASSUME Inv, UNCHANGED <<runVars, session, faults>>,
         NEW k \in Streams, NEW w \in Stream, stream' = [stream EXCEPT ![k] = w],
         page' \in [Pages -> Page], \A q \in Pages : PageGood(log, found, page'[q]),
         HandlerOK(log, w), SaidOK(log, w),
         w.page \in Pages => /\ WireOK(w, page'[w.page])
                             /\ \A j \in Streams \ {k} : stream[j].page # w.page,
         \A j \in Streams \ {k}, q \in Pages : stream[j].page = q => page'[q] = page[q],
         w.pc \in {"watch", "read", "status", "pending"} => k \in Counted \/ ~CapReached
  PROVE  Inv'
<1>0. /\ page \in [Pages -> Page] /\ stream \in [Streams -> Stream] /\ RunsOK
      /\ session \in Session /\ SessionOK(session) /\ faults \in 0..MaxFaults
      /\ StreamsOK(log, stream, page)
  BY InvFacts
<1>1. /\ stream' \in [Streams -> Stream] /\ stream'[k] = w
      /\ \A j \in Streams \ {k} : stream'[j] = stream[j]
  BY <1>0
<1>2. RunsOK' /\ log' = log /\ found' = found
  BY <1>0, SameRuns DEF RunsGrow, runVars
<1>3. w.page \in Pages \union {NoPage}
  BY DEF Stream
<1>4. \A j \in Streams : HandlerOK(log, stream'[j]) /\ SaidOK(log, stream'[j])
  BY <1>0, <1>1 DEF StreamsOK
<1>5. ASSUME NEW j \in Streams, NEW q \in Pages, stream'[j].page = q
      PROVE  WireOK(stream'[j], page'[q])
  BY <1>0, <1>1, <1>5 DEF StreamsOK
<1>6. ASSUME NEW i \in Streams, NEW j \in Streams, stream'[i].page = stream'[j].page,
             stream'[j].page # NoPage
      PROVE  i = j
  BY <1>0, <1>1, <1>3, <1>6 DEF StreamsOK
<1>7. StreamsOK(log', stream', page')
  BY <1>2, <1>4, <1>5, <1>6 DEF StreamsOK
<1>8. IsFiniteSet(Counted') /\ Cardinality(Counted') <= StreamCap
  <2>1. CASE w.pc \in {"watch", "read", "status", "pending"} /\ k \notin Counted
    <3>1. ~CapReached /\ Counted' \subseteq Counted \union {k}
      BY <1>1, <2>1 DEF Counted
    <3>. QED
      BY <3>1, CountedFacts
  <2>2. CASE ~(w.pc \in {"watch", "read", "status", "pending"} /\ k \notin Counted)
    <3>1. Counted' \subseteq Counted
      BY <1>1, <2>2 DEF Counted
    <3>. QED
      BY <3>1, CountedFacts
  <2>. QED
    BY <2>1, <2>2
<1>9. PageTypeOK'
  BY <1>0, <1>1, <1>8 DEF PageTypeOK
<1>. QED
  BY <1>0, <1>2, <1>7, <1>8, <1>9 DEF Inv

-----------------------------------------------------------------------------
(* The detail query of a page *)

\* The page and the stream it may be heard by.
LEMMA PageFacts ==
  ASSUME Inv, NEW p \in Pages
  PROVE  /\ page[p] \in Page /\ PageGood(log, found, page[p])
         /\ page[p].last \in 0..MaxLog /\ page[p].run \in Searches \union {NoSearch}
         /\ page[p].view \in Looking => page[p].run \in Searches
         /\ page[p].source \notin {"asking", "open"} =>
              \A k \in Streams : stream[k].page # p
<1>1. page[p] \in Page /\ PageGood(log, found, page[p])
  BY InvFacts
<1>2. page[p].source \notin {"asking", "open"} => \A k \in Streams : stream[k].page # p
  BY InvFacts DEF StreamsOK, WireOK
<1>. QED
  BY <1>1, <1>2 DEF Page, PageGood, PageOK

LEMMA AskingIsGood ==
  ASSUME Inv, NEW p \in Pages, page[p].view \in Looking
  PROVE  /\ Asking(p) \in Page /\ PageGood(log, found, Asking(p))
         /\ Asking(p).run = page[p].run /\ Asking(p).source = page[p].source
         /\ Asking(p).last = page[p].last /\ Asking(p).view = page[p].view
         /\ Asking(p).fetch = "asked" /\ ~Asking(p).readClosed /\ Asking(p).jobs = page[p].jobs
<1>1. page[p] \in Page /\ PageGood(log, found, page[p])
  BY PageFacts
<1>2. /\ Asking(p) \in Page
      /\ Asking(p).run = page[p].run /\ Asking(p).source = page[p].source
      /\ Asking(p).last = page[p].last /\ Asking(p).view = page[p].view
      /\ Asking(p).fetch = "asked" /\ ~Asking(p).readClosed /\ Asking(p).jobs = page[p].jobs
  BY <1>1 DEF Asking, Page, Fetch
<1>. QED
  BY <1>1, <1>2 DEF PageGood, PageOK, AnswerOK

LEMMA NotAskingIsGood ==
  ASSUME Inv, NEW p \in Pages
  PROVE  /\ NotAsking(p) \in Page /\ PageGood(log, found, NotAsking(p))
         /\ NotAsking(p).run = page[p].run /\ NotAsking(p).source = page[p].source
         /\ NotAsking(p).last = page[p].last /\ NotAsking(p).view = page[p].view
         /\ NotAsking(p).fetch = "idle" /\ ~NotAsking(p).readClosed
<1>1. page[p] \in Page /\ PageGood(log, found, page[p])
  BY PageFacts
<1>2. /\ NotAsking(p) \in Page
      /\ NotAsking(p).run = page[p].run /\ NotAsking(p).source = page[p].source
      /\ NotAsking(p).last = page[p].last /\ NotAsking(p).view = page[p].view
      /\ NotAsking(p).fetch = "idle" /\ ~NotAsking(p).readClosed
      /\ NotAsking(p).jobs = page[p].jobs
  BY <1>1 DEF NotAsking, Page, Fetch
<1>. QED
  BY <1>1, <1>2 DEF PageGood, PageOK, AnswerOK

LEMMA NewPageType ==
  /\ NewPage \in Page /\ NewPage.fetch = "idle" /\ ~NewPage.readClosed
  /\ NewPage.source = "none" /\ NewPage.last = 0 /\ NewPage.view = "away"
BY DEF NewPage, Page, View, Fetch, Source, MaxLog

LEMMA LeaveInv ==
  ASSUME Inv, NEW p \in Pages, Leave(p), UNCHANGED <<runVars, session, faults>>
  PROVE  Inv'
<1>. DEFINE v == [NewPage EXCEPT !.view = "left"]
<1>1. v \in Page /\ v.view = "left" /\ v.fetch = "idle" /\ ~v.readClosed /\ v.source = "none"
  BY NewPageType DEF Page, View
<1>2. page' = [page EXCEPT ![p] = v] /\ stream' = Hangup(p)
  BY DEF Leave
<1>. HIDE DEF v
<1>3. PageGood(log, found, v)
  BY <1>1 DEF PageGood, PageOK, AnswerOK, Looking
<1>. QED
  BY <1>1, <1>2, <1>3, HangupInv, InvFacts

\* A page that asks for a run and listens to nothing yet.
LEMMA LookingAnew ==
  ASSUME Inv, NEW s \in Searches
  PROVE  LET v == [NewPage EXCEPT !.run = s, !.view = "unknown", !.fetch = "asked"]
         IN  v \in Page /\ PageGood(log, found, v)
<1>. DEFINE v == [NewPage EXCEPT !.run = s, !.view = "unknown", !.fetch = "asked"]
<1>1. /\ v \in Page /\ v.run = s /\ v.view = "unknown" /\ ~v.readClosed /\ v.source = "none"
      /\ v.last = 0
  BY NewPageType DEF Page, View, Fetch
<1>. HIDE DEF v
<1>2. Len(log[s]) \in Nat
  BY InvFacts DEF RunsOK
<1>3. PageGood(log, found, v)
  BY <1>1, <1>2 DEF PageGood, PageOK, AnswerOK, Looking
<1>. QED
  BY <1>1, <1>3 DEF v

LEMMA OpenPageInv ==
  ASSUME Inv, NEW p \in Pages, NEW s \in Searches, OpenPage(p, s)
  PROVE  Inv'
<1>. DEFINE v == [NewPage EXCEPT !.run = s, !.view = "unknown", !.fetch = "asked"]
<1>1. v \in Page /\ PageGood(log, found, v)
  BY LookingAnew
<1>2. page' = [page EXCEPT ![p] = v] /\ UNCHANGED <<runVars, stream, session, faults>>
  BY DEF OpenPage
<1>3. \A k \in Streams : stream[k].page # p
  BY PageFacts DEF OpenPage, PageGood, PageOK, Looking
<1>. HIDE DEF v
<1>. QED
  BY <1>1, <1>2, <1>3, PageStepInv, InvFacts

LEMMA PollInv ==
  ASSUME Inv, NEW p \in Pages, Poll(p) \/ (Focus(p) /\ CookieAccepted)
  PROVE  Inv'
<1>1. page[p].view \in Looking
  BY DEF Poll, Polled, Focus, Looking
<1>2. page' = [page EXCEPT ![p] = Asking(p)] /\ UNCHANGED <<runVars, stream, session, faults>>
  BY DEF Poll, Focus
<1>. QED
  BY <1>1, <1>2, AskingIsGood, PageStepInv, InvFacts

LEMMA FocusInv ==
  ASSUME Inv, NEW p \in Pages, Focus(p)
  PROVE  Inv'
<1>1. CASE CookieAccepted
  BY <1>1, PollInv
<1>2. CASE ~CookieAccepted
  BY <1>2, LeaveInv DEF Focus
<1>. QED
  BY <1>1, <1>2

\* A step of the session alone.
LEMMA SessionStepInv ==
  ASSUME Inv, UNCHANGED <<runVars, page, stream, faults>>, session' \in Session,
         SessionOK(session')
  PROVE  Inv'
<1>1. /\ page \in [Pages -> Page] /\ stream \in [Streams -> Stream] /\ RunsOK
      /\ StreamsOK(log, stream, page) /\ faults \in 0..MaxFaults
      /\ \A p \in Pages : PageGood(log, found, page[p])
  BY InvFacts
<1>2. RunsOK' /\ log' = log /\ found' = found
  BY <1>1, SameRuns DEF RunsGrow, runVars
<1>3. PageTypeOK' /\ IsFiniteSet(Counted')
  BY <1>1, CountedStays DEF PageTypeOK
<1>. QED
  BY <1>1, <1>2, <1>3 DEF Inv

LEMMA SessionInv ==
  ASSUME Inv, Lapse \/ EndSession
  PROVE  Inv'
<1>1. session \in Session /\ SessionOK(session)
  BY InvFacts
<1>2. session' \in Session /\ SessionOK(session')
  BY <1>1 DEF Lapse, EndSession, Session, SessionOK
<1>. QED
  BY <1>2, SessionStepInv DEF Lapse, EndSession

LEMMA RefreshInv ==
  ASSUME Inv, NEW p \in Pages, Refresh(p)
  PROVE  Inv'
<1>1. CASE session.live
  <2>1. session \in Session /\ session.lapsed /\ session.token < MaxTurns
    BY <1>1, InvFacts DEF Refresh, CookieAccepted, SessionOK
  <2>2. session.token + 1 \in 0..MaxTurns
    BY <2>1, BoundsAssumption DEF Session
  <2>3. session' = [session EXCEPT !.token = session.token + 1, !.lapsed = FALSE]
    BY <1>1 DEF Refresh
  <2>4. session' \in Session /\ ~session'.lapsed
    BY <2>1, <2>2, <2>3 DEF Session
  <2>. QED
    BY <1>1, <2>4, SessionStepInv DEF Refresh, SessionOK
<1>2. CASE ~session.live
  BY <1>2, LeaveInv DEF Refresh
<1>. QED
  BY <1>1, <1>2

LEMMA ReadRunInv ==
  ASSUME Inv, NEW p \in Pages, ReadRun(p)
  PROVE  Inv'
<1>. DEFINE c == Runs!Closed(page[p].run)
            v == [page[p] EXCEPT !.fetch = "status", !.readClosed = c]
<1>0. c \in BOOLEAN /\ (c <=> ClosedIn(log, page[p].run))
  BY ClosedFacts DEF Runs!Closed
<1>1. page[p] \in Page /\ PageGood(log, found, page[p]) /\ page[p].view \in Looking
  BY PageFacts DEF ReadRun, PageGood, PageOK
<1>. HIDE DEF c
<1>2. /\ v \in Page /\ v.run = page[p].run /\ v.source = page[p].source
      /\ v.last = page[p].last /\ v.view = page[p].view /\ v.fetch = "status"
      /\ v.readClosed = c /\ v.jobs = page[p].jobs
  BY <1>0, <1>1 DEF Page, Fetch
<1>3. page' = [page EXCEPT ![p] = v]
  BY DEF ReadRun, c
<1>. HIDE DEF v
<1>4. PageGood(log, found, v)
  BY <1>0, <1>1, <1>2 DEF PageGood, PageOK, AnswerOK
<1>. QED
  BY <1>2, <1>3, <1>4, PageStepInv, InvFacts DEF ReadRun

LEMMA ReadJobsInv ==
  ASSUME Inv, NEW p \in Pages, ReadJobs(p)
  PROVE  Inv'
<1>. DEFINE v == [page[p] EXCEPT !.fetch = "answered", !.readJobs = found[page[p].run]]
<1>1. page[p] \in Page /\ PageGood(log, found, page[p]) /\ page[p].view \in Looking
  BY PageFacts DEF ReadJobs, PageGood, PageOK
<1>2. found[page[p].run] \in SUBSET Fingerprints
  BY <1>1, InvFacts DEF RunsOK, PageGood, PageOK
<1>3. /\ v \in Page /\ v.run = page[p].run /\ v.source = page[p].source
      /\ v.last = page[p].last /\ v.view = page[p].view /\ v.readJobs = found[v.run]
      /\ v.readClosed = page[p].readClosed /\ v.jobs = page[p].jobs
  BY <1>1, <1>2 DEF Page, Fetch
<1>4. page' = [page EXCEPT ![p] = v]
  BY DEF ReadJobs
<1>. HIDE DEF v
<1>5. PageGood(log, found, v)
  BY <1>1, <1>3 DEF PageGood, PageOK, AnswerOK
<1>. QED
  BY <1>3, <1>4, <1>5, PageStepInv, InvFacts DEF ReadJobs

LEMMA ShowDetailInv ==
  ASSUME Inv, NEW p \in Pages, ShowDetail(p)
  PROVE  Inv'
<1>0. /\ page[p] \in Page /\ PageGood(log, found, page[p]) /\ page[p].fetch = "answered"
      /\ UNCHANGED <<runVars, session, faults>>
  BY PageFacts DEF ShowDetail
<1>1. page[p].view \in Looking /\ page[p].run \in Searches
  BY <1>0 DEF PageGood, PageOK
<1>2. /\ NotAsking(p) \in Page /\ PageGood(log, found, NotAsking(p))
      /\ NotAsking(p).run = page[p].run /\ NotAsking(p).source = page[p].source
      /\ NotAsking(p).last = page[p].last /\ ~NotAsking(p).readClosed
  BY NotAskingIsGood
<1>3. Len(log[page[p].run]) \in Nat /\ page[p].readJobs \in SUBSET Fingerprints
  BY <1>0, <1>1, InvFacts DEF RunsOK, Page
<1>4. CASE page[p].readClosed
  <2>. DEFINE v == [NotAsking(p) EXCEPT !.view = "closed", !.jobs = page[p].readJobs,
                                        !.source = "none", !.last = 0]
  <2>1. /\ v \in Page /\ v.view = "closed" /\ v.jobs = page[p].readJobs /\ v.last = 0
        /\ v.source = "none" /\ v.run = page[p].run /\ ~v.readClosed
    <3>. DEFINE u == [NotAsking(p) EXCEPT !.view = "closed", !.jobs = page[p].readJobs]
    <3>1. /\ u \in Page /\ u.view = "closed" /\ u.jobs = page[p].readJobs
          /\ u.run = page[p].run /\ ~u.readClosed
      BY <1>2, <1>3 DEF Page, View
    <3>. DEFINE n == [u EXCEPT !.source = "none"]
    <3>2. v = [n EXCEPT !.last = 0]
      OBVIOUS
    <3>. HIDE DEF u, v
    <3>3. /\ n \in Page /\ n.view = "closed" /\ n.jobs = page[p].readJobs
          /\ n.run = page[p].run /\ ~n.readClosed /\ n.source = "none"
      BY <3>1 DEF Page, Source
    <3>. HIDE DEF n
    <3>. QED
      BY <3>2, <3>3 DEF Page, MaxLog
  <2>2. page' = [page EXCEPT ![p] = v] /\ stream' = Hangup(p)
    BY <1>4 DEF ShowDetail, AnsweredClosed
  <2>. HIDE DEF v
  <2>3. PageGood(log, found, v)
    BY <1>0, <1>1, <1>3, <1>4, <2>1 DEF PageGood, PageOK, AnswerOK, Looking
  <2>. QED
    BY <1>0, <2>1, <2>2, <2>3, HangupInv, InvFacts
<1>5. CASE ~page[p].readClosed
  <2>. DEFINE v == [NotAsking(p) EXCEPT !.view = "open", !.jobs = page[p].readJobs]
  <2>1. /\ v \in Page /\ v.view = "open" /\ v.last = page[p].last
        /\ v.source = page[p].source /\ v.run = page[p].run /\ ~v.readClosed
    BY <1>2, <1>3 DEF Page, View
  <2>2. page' = [page EXCEPT ![p] = v] /\ UNCHANGED stream
    BY <1>5 DEF ShowDetail, AnsweredClosed
  <2>. HIDE DEF v
  <2>3. PageGood(log, found, v)
    BY <1>0, <1>1, <2>1 DEF PageGood, PageOK, AnswerOK, Looking
  <2>. QED
    BY <1>0, <2>1, <2>2, <2>3, PageStepInv, InvFacts
<1>. QED
  BY <1>4, <1>5

LEMMA CancelInv ==
  ASSUME Inv, NEW p \in Pages, Cancel(p)
  PROVE  Inv'
<1>0. page[p].view \in Looking /\ page[p].run \in Searches
  BY PageFacts DEF Cancel, Looking
<1>1. RunsGrow
  <2>1. Runs!Close(page[p].run, "SearchCancelled", {})
    BY DEF Cancel
  <2>2. "SearchCancelled" \in Runs!Outcomes
    BY DEF Runs!Outcomes
  <2>3. PICK s \in Searches : Runs!Close(s, "SearchCancelled", {})
    BY <1>0, <2>1
  <2>. QED
    BY <2>2, <2>3, CloseGrows, InvFacts
<1>2. /\ Asking(p) \in Page /\ PageGood(log', found', Asking(p))
      /\ Asking(p).run = page[p].run /\ Asking(p).source = page[p].source
      /\ Asking(p).last = page[p].last
  <2>. DEFINE v == Asking(p)
  <2>1. /\ v \in Page /\ PageGood(log, found, v)
        /\ v.run = page[p].run /\ v.source = page[p].source /\ v.last = page[p].last
    BY <1>0, AskingIsGood
  <2>. HIDE DEF v
  <2>2. PageGood(log', found', v)
    BY <1>1, <2>1, GoodGrows, InvFacts
  <2>. QED
    BY <2>1, <2>2 DEF v
<1>3. /\ page' = [page EXCEPT ![p] = Asking(p)]
      /\ UNCHANGED <<stream, session, faults>>
  BY DEF Cancel
<1>. QED
  BY <1>1, <1>2, <1>3, PageStepGrows, InvFacts

-----------------------------------------------------------------------------
(* The EventSource of a page, and what fails *)

\* A page that shows a run, and whose EventSource is another.
LEMMA SourceIsGood ==
  ASSUME Inv, NEW p \in Pages, page[p].view \in Looking \ {"unknown"}, NEW src \in Source
  PROVE  LET v == [page[p] EXCEPT !.source = src]
         IN  /\ v \in Page /\ PageGood(log, found, v) /\ v.source = src
             /\ v.run = page[p].run /\ v.last = page[p].last /\ v.view = page[p].view
<1>. DEFINE v == [page[p] EXCEPT !.source = src]
<1>1. page[p] \in Page /\ PageGood(log, found, page[p])
  BY PageFacts
<1>2. /\ v \in Page /\ v.source = src
      /\ v.run = page[p].run /\ v.last = page[p].last /\ v.view = page[p].view
      /\ v.fetch = page[p].fetch /\ v.jobs = page[p].jobs
      /\ v.readClosed = page[p].readClosed /\ v.readJobs = page[p].readJobs
  BY <1>1 DEF Page
<1>. HIDE DEF v
<1>3. PageGood(log, found, v)
  BY <1>1, <1>2 DEF PageGood, PageOK, AnswerOK, Looking
<1>. QED
  BY <1>2, <1>3 DEF v

\* Who is connecting or connected looks at a run.
LEMMA ListenerLooks ==
  ASSUME Inv, NEW p \in Pages, page[p].source # "none"
  PROVE  page[p].view \in Looking \ {"unknown"} /\ page[p].run \in Searches
BY PageFacts DEF PageGood, PageOK, Looking

LEMMA ListenInv ==
  ASSUME Inv, NEW p \in Pages, Listen(p)
  PROVE  Inv'
<1>. DEFINE u == [page[p] EXCEPT !.source = "asking"]
            v == [u EXCEPT !.last = 0]
<1>1. page[p].view = "open" /\ page[p].source = "none" /\ page[p].run \in Searches
  BY PageFacts DEF Listen, Looking
<1>2. u \in Page /\ PageGood(log, found, u) /\ u.run = page[p].run /\ u.view = "open"
  BY <1>1, SourceIsGood DEF Looking, Source
<1>. HIDE DEF u
<1>3. /\ v \in Page /\ v.last = 0 /\ v.run = u.run /\ v.view = u.view /\ v.jobs = u.jobs
      /\ v.fetch = u.fetch /\ v.readClosed = u.readClosed /\ v.readJobs = u.readJobs
  BY <1>2 DEF Page, MaxLog
<1>4. Len(log[v.run]) \in Nat
  BY <1>1, <1>2, <1>3, InvFacts DEF RunsOK
<1>. HIDE DEF v
<1>5. PageGood(log, found, v)
  BY <1>1, <1>2, <1>3, <1>4 DEF PageGood, PageOK, AnswerOK, Looking
<1>6. page' = [page EXCEPT ![p] = v]
  BY DEF Listen, u, v
<1>7. \A k \in Streams : stream[k].page # p
  BY <1>1, PageFacts
<1>. QED
  BY <1>3, <1>5, <1>6, <1>7, PageStepInv, InvFacts DEF Listen

LEMMA OverBudgetInv ==
  ASSUME Inv, NEW p \in Pages, UNCHANGED <<runVars, stream, session>>,
         page[p].source = "asking", \A k \in Streams : stream[k].page # p, Refused(p),
         faults' \in 0..MaxFaults
  PROVE  Inv'
<1>. DEFINE v == [page[p] EXCEPT !.source = "refused"]
<1>1. v \in Page /\ PageGood(log, found, v)
  BY ListenerLooks, SourceIsGood DEF Source
<1>2. page' = [page EXCEPT ![p] = v]
  BY DEF Refused
<1>. HIDE DEF v
<1>. QED
  BY <1>1, <1>2, PageStepInv

LEMMA FaultType == ASSUME Inv, Fault PROVE faults' \in 0..MaxFaults
BY InvFacts, BoundsAssumption DEF Fault

LEMMA FetchFailsInv ==
  ASSUME Inv, NEW p \in Pages, FetchFails(p)
  PROVE  Inv'
BY NotAskingIsGood, PageStepInv, FaultType DEF FetchFails

LEMMA ReloadInv ==
  ASSUME Inv, NEW p \in Pages, Reload(p)
  PROVE  Inv'
<1>. DEFINE s == page[p].run
            v == [NewPage EXCEPT !.run = s, !.view = "unknown", !.fetch = "asked"]
<1>1. s \in Searches
  BY PageFacts DEF Reload, Looking
<1>2. v \in Page /\ PageGood(log, found, v)
  BY <1>1, LookingAnew
<1>3. page' = [page EXCEPT ![p] = v] /\ stream' = Hangup(p)
  BY DEF Reload
<1>. HIDE DEF v
<1>. QED
  BY <1>2, <1>3, HangupInv, FaultType DEF Reload

LEMMA BreakInv ==
  ASSUME Inv, NEW k \in Streams, Break(k)
  PROVE  Inv'
<1>. DEFINE p == stream[k].page
            v == [page[p] EXCEPT !.source = "asking"]
<1>0. p \in Pages
  BY InvFacts DEF Break, Stream
<1>1. page[p].source # "none"
  BY <1>0, InvFacts DEF StreamsOK, WireOK
<1>2. v \in Page /\ PageGood(log, found, v)
  BY <1>0, <1>1, ListenerLooks, SourceIsGood DEF Source
<1>3. page' = [page EXCEPT ![p] = v] /\ stream' = Hangup(p)
  BY DEF Break
<1>. HIDE DEF v, p
<1>. QED
  BY <1>0, <1>2, <1>3, HangupInv, FaultType DEF Break

-----------------------------------------------------------------------------
(* The handler of a stream *)

LEMMA StreamFacts ==
  ASSUME Inv, NEW k \in Streams
  PROVE  /\ stream[k] \in Stream /\ stream[k].wire \in Seq(Message)
         /\ stream[k].page \in Pages \union {NoPage}
         /\ HandlerOK(log, stream[k]) /\ SaidOK(log, stream[k])
         /\ stream[k].page \in Pages =>
              /\ WireOK(stream[k], page[stream[k].page])
              /\ \A j \in Streams \ {k} : stream[j].page # stream[k].page
         /\ page \in [Pages -> Page] /\ \A q \in Pages : PageGood(log, found, page[q])
<1>1. stream[k] \in Stream
  BY InvFacts
<1>2. stream[k].wire \in Seq(Message) /\ stream[k].page \in Pages \union {NoPage}
  BY <1>1 DEF Stream
<1>. QED
  BY <1>1, <1>2, InvFacts, NullsAssumption DEF StreamsOK

LEMMA NoStreamType ==
  /\ NoStream \in Stream /\ NoStream.pc = "free" /\ NoStream.page = NoPage
  /\ NoStream.wire = <<>> /\ \A l : HandlerOK(l, NoStream) /\ SaidOK(l, NoStream)
<1>1. <<>> \in Seq(Message) /\ 0 \in 0..MaxLog /\ 0 \in 0..MaxTurns
  BY BoundsAssumption DEF MaxLog
<1>2. /\ NoStream \in Stream /\ NoStream.pc = "free" /\ NoStream.page = NoPage
      /\ NoStream.wire = <<>>
  BY <1>1 DEF NoStream, Stream
<1>. QED
  BY <1>2 DEF HandlerOK, SaidOK

\* A handler that steps on without a word.
LEMMA SilentInv ==
  ASSUME Inv, UNCHANGED <<runVars, page, session, faults>>, NEW k \in Streams, k \in Counted,
         NEW pc \in {"watch", "read", "status", "pending", "ending"}, NEW quiet \in BOOLEAN,
         pc = "pending" => ClosedIn(log, stream[k].run),
         stream' = [stream EXCEPT ![k] = [stream[k] EXCEPT !.pc = pc, !.quiet = quiet]]
  PROVE  Inv'
<1>. DEFINE w == [stream[k] EXCEPT !.pc = pc, !.quiet = quiet]
<1>1. /\ stream[k].pc \in {"watch", "read", "status", "pending"}
      /\ stream[k] \in Stream /\ HandlerOK(log, stream[k]) /\ SaidOK(log, stream[k])
      /\ page \in [Pages -> Page] /\ \A q \in Pages : PageGood(log, found, page[q])
  BY StreamFacts DEF Counted
<1>2. /\ w \in Stream /\ w.pc = pc /\ w.page = stream[k].page /\ w.run = stream[k].run
      /\ w.cursor = stream[k].cursor /\ w.wire = stream[k].wire
  BY <1>1 DEF Stream
<1>3. stream' = [stream EXCEPT ![k] = w]
  OBVIOUS
<1>. HIDE DEF w
<1>4. HandlerOK(log, w) /\ SaidOK(log, w)
  BY <1>1, <1>2 DEF HandlerOK, SaidOK
<1>5. w.page \in Pages => /\ WireOK(w, page'[w.page])
                          /\ \A j \in Streams \ {k} : stream[j].page # w.page
  <2>1. w.page \in Pages => WireOK(stream[k], page[w.page])
                            /\ \A j \in Streams \ {k} : stream[j].page # w.page
    BY <1>2, StreamFacts
  <2>. QED
    BY <1>1, <1>2, <2>1 DEF WireOK
<1>. QED
  BY <1>1, <1>2, <1>3, <1>4, <1>5, StreamStepInv

\* A handler that ends, after a last message to whoever listens.
LEMMA LastWordInv ==
  ASSUME Inv, UNCHANGED <<runVars, page, session, faults>>, NEW k \in Streams, k \in Counted,
         NEW m \in Message, m.kind # "progress",
         m.kind = "settled" =>
           ClosedIn(log, stream[k].run) /\ stream[k].cursor = Len(log[stream[k].run]),
         stream' = [stream EXCEPT ![k].pc = "ending", ![k].wire = Written(k, <<m>>)]
  PROVE  Inv'
<1>. DEFINE u == Written(k, <<m>>)
            w == [stream[k] EXCEPT !.pc = "ending", !.wire = u]
<1>1. /\ stream[k].pc \in {"watch", "read", "status", "pending"}
      /\ stream[k] \in Stream /\ stream[k].wire \in Seq(Message)
      /\ stream[k].page \in Pages \union {NoPage}
      /\ HandlerOK(log, stream[k]) /\ SaidOK(log, stream[k])
      /\ page \in [Pages -> Page] /\ \A q \in Pages : PageGood(log, found, page[q])
  BY StreamFacts DEF Counted
<1>2. u \in Seq(Message)
  BY <1>1 DEF Written
<1>3. /\ stream[k].page = NoPage => u = <<>>
      /\ stream[k].page # NoPage =>
           /\ Len(u) = Len(stream[k].wire) + 1 /\ u[Len(u)] = m
           /\ \A i \in 1..Len(stream[k].wire) : u[i] = stream[k].wire[i]
  BY <1>1 DEF Written
<1>. HIDE DEF u
<1>4. /\ w \in Stream /\ w.pc = "ending" /\ w.page = stream[k].page /\ w.run = stream[k].run
      /\ w.cursor = stream[k].cursor /\ w.wire = u
  BY <1>1, <1>2 DEF Stream
<1>5. stream' = [stream EXCEPT ![k] = w]
  BY DEF u
<1>. HIDE DEF w
<1>6. Len(stream[k].wire) \in Nat
  BY <1>1
<1>7. HandlerOK(log, w)
  BY <1>1, <1>3, <1>4 DEF HandlerOK
<1>8. SaidOK(log, w)
  <2>1. CASE stream[k].page = NoPage
    BY <1>3, <1>4, <2>1 DEF SaidOK
  <2>2. CASE stream[k].page # NoPage
    <3>. SUFFICES ASSUME NEW i \in 1..Len(u), u[i].kind = "settled"
                  PROVE  ClosedIn(log, stream[k].run)
                         /\ stream[k].cursor = Len(log[stream[k].run])
      BY <1>4 DEF SaidOK
    <3>1. CASE i = Len(u)
      BY <1>3, <2>2, <3>1
    <3>2. CASE i # Len(u)
      <4>1. i \in 1..Len(stream[k].wire) /\ stream[k].wire[i].kind = "settled"
        BY <1>3, <1>6, <2>2, <3>2
      <4>. QED
        BY <1>1, <4>1 DEF SaidOK
    <3>. QED
      BY <3>1, <3>2
  <2>. QED
    BY <2>1, <2>2
<1>9. ASSUME w.page \in Pages
      PROVE  /\ WireOK(w, page'[w.page])
             /\ \A j \in Streams \ {k} : stream[j].page # w.page
  <2>. DEFINE p == stream[k].page
  <2>1. /\ p \in Pages /\ p # NoPage /\ WireOK(stream[k], page[p])
        /\ \A j \in Streams \ {k} : stream[j].page # p
    BY <1>4, <1>9, StreamFacts, NullsAssumption
  <2>2. page[p].last \in Nat /\ stream[k].cursor \in Nat
    BY <1>1, <2>1, PageFacts DEF Stream, MaxLog
  <2>3. \A i \in 1..Len(stream[k].wire) :
          stream[k].wire[i].kind = "progress" /\ stream[k].wire[i].id = page[p].last + i
    BY <1>1, <2>1 DEF WireOK
  <2>4. ~Spoken(stream[k].wire)
    BY <1>1, <1>6, <2>3 DEF Spoken
  <2>5. \A i \in 1..Len(u) :
          IF u[i].kind = "progress" THEN u[i].id = page[p].last + i ELSE i = Len(u)
    BY <1>3, <1>6, <2>1, <2>3
  <2>6. Spoken(u)
    BY <1>3, <1>6, <2>1 DEF Spoken
  <2>7. stream[k].cursor + 1 = page[p].last + Len(u)
    <3>1. stream[k].cursor = page[p].last + Len(stream[k].wire)
      BY <2>1, <2>4 DEF WireOK
    <3>2. Len(u) = Len(stream[k].wire) + 1
      BY <1>3, <2>1
    <3>. HIDE DEF p
    <3>. QED
      BY <1>6, <2>2, <3>1, <3>2
  <2>8. page[p].run = stream[k].run /\ page[p].source = "open"
    BY <1>1, <2>1 DEF WireOK
  <2>. QED
    BY <1>4, <2>1, <2>5, <2>6, <2>7, <2>8 DEF WireOK
<1>. QED
  BY <1>1, <1>4, <1>5, <1>7, <1>8, <1>9, StreamStepInv

LEMMA WatchInv ==
  ASSUME Inv, NEW k \in Streams, Watch(k)
  PROVE  Inv'
<1>1. k \in Counted /\ stream[k] \in Stream
  BY StreamFacts DEF Watch, Counted
<1>2. CASE stream' = [stream EXCEPT ![k].pc = "read"]
  <2>1. stream[k].quiet \in BOOLEAN
    BY <1>1 DEF Stream
  <2>2. [stream[k] EXCEPT !.pc = "read"] =
          [stream[k] EXCEPT !.pc = "read", !.quiet = stream[k].quiet]
    BY <1>1 DEF Stream
  <2>3. stream' = [stream EXCEPT ![k] = [stream[k] EXCEPT !.pc = "read",
                                                          !.quiet = stream[k].quiet]]
    BY <1>2, <2>2
  <2>. QED
    BY <1>1, <2>1, <2>3, SilentInv DEF Watch
<1>3. CASE stream' = [stream EXCEPT ![k].pc = "ending",
                                    ![k].wire = Written(k, <<[kind |-> "expired", id |-> 0]>>)]
  <2>1. [kind |-> "expired", id |-> 0] \in Message
    BY DEF Message
  <2>. QED
    BY <1>1, <1>3, <2>1, LastWordInv DEF Watch
<1>. QED
  BY <1>2, <1>3 DEF Watch

LEMMA ReadStatusInv ==
  ASSUME Inv, NEW k \in Streams, ReadStatus(k)
  PROVE  Inv'
<1>1. k \in Counted
  BY DEF ReadStatus, Counted
<1>2. PICK pc \in {"pending", "watch"} :
        /\ stream' = [stream EXCEPT ![k].quiet = FALSE, ![k].pc = pc]
        /\ pc = "pending" => ClosedIn(log, stream[k].run)
  BY ClosedFacts DEF ReadStatus
<1>3. stream[k] \in Stream
  BY StreamFacts
<1>4. [stream[k] EXCEPT !.quiet = FALSE, !.pc = pc] = [stream[k] EXCEPT !.pc = pc, !.quiet = FALSE]
  BY <1>3 DEF Stream
<1>5. stream' = [stream EXCEPT ![k] = [stream[k] EXCEPT !.pc = pc, !.quiet = FALSE]]
  BY <1>2, <1>4
<1>. QED
  BY <1>1, <1>2, <1>5, SilentInv DEF ReadStatus

LEMMA AbortInv ==
  ASSUME Inv, NEW k \in Streams, Abort(k)
  PROVE  Inv'
BY SilentInv DEF Abort

LEMMA ReadPendingInv ==
  ASSUME Inv, NEW k \in Streams, ReadPending(k)
  PROVE  Inv'
<1>1. k \in Counted /\ stream[k] \in Stream /\ ClosedIn(log, stream[k].run)
  BY StreamFacts DEF ReadPending, Counted, HandlerOK
<1>2. CASE NothingPending(k)
  <2>1. [kind |-> "settled", id |-> 0] \in Message
    BY DEF Message
  <2>. QED
    BY <1>1, <1>2, <2>1, LastWordInv DEF ReadPending, NothingPending
<1>3. CASE ~NothingPending(k)
  <2>1. [stream[k] EXCEPT !.pc = "watch"] =
          [stream[k] EXCEPT !.pc = "watch", !.quiet = stream[k].quiet]
    BY <1>1 DEF Stream
  <2>2. stream' = [stream EXCEPT ![k] = [stream[k] EXCEPT !.pc = "watch",
                                                          !.quiet = stream[k].quiet]]
    BY <1>3, <2>1 DEF ReadPending
  <2>3. stream[k].quiet \in BOOLEAN
    BY <1>1 DEF Stream
  <2>. QED
    BY <1>1, <2>2, <2>3, SilentInv DEF ReadPending
<1>. QED
  BY <1>2, <1>3

\* A stream that is freed: nobody listens to it any more.
LEMMA FreedInv ==
  ASSUME Inv, UNCHANGED <<runVars, session, faults>>, NEW k \in Streams,
         stream' = [stream EXCEPT ![k] = NoStream],
         \/ page' = page
         \/ \E src \in Source :
              /\ stream[k].page \in Pages
              /\ page' = [page EXCEPT ![stream[k].page].source = src]
  PROVE  Inv'
<1>1. /\ stream[k] \in Stream /\ page \in [Pages -> Page]
      /\ \A q \in Pages : PageGood(log, found, page[q])
  BY StreamFacts
<1>2. NoStream.page \notin Pages
  BY NoStreamType, NullsAssumption
<1>3. CASE page' = page
  BY <1>1, <1>2, <1>3, NoStreamType, StreamStepInv
<1>4. ASSUME NEW src \in Source, stream[k].page \in Pages,
             page' = [page EXCEPT ![stream[k].page].source = src]
      PROVE  Inv'
  <2>. DEFINE p == stream[k].page
              v == [page[p] EXCEPT !.source = src]
  <2>1. page[p].source # "none" /\ \A j \in Streams \ {k} : stream[j].page # p
    BY <1>4, StreamFacts DEF WireOK
  <2>2. v \in Page /\ PageGood(log, found, v)
    BY <1>4, <2>1, ListenerLooks, SourceIsGood
  <2>3. page' = [page EXCEPT ![p] = v]
    BY <1>4
  <2>. HIDE DEF v
  <2>4. /\ page' \in [Pages -> Page] /\ \A q \in Pages : PageGood(log, found, page'[q])
        /\ \A j \in Streams \ {k}, q \in Pages : stream[j].page = q => page'[q] = page[q]
    BY <1>1, <2>1, <2>2, <2>3
  <2>. QED
    BY <1>2, <2>4, NoStreamType, StreamStepInv
<1>. QED
  BY <1>3, <1>4

LEMMA EndInv ==
  ASSUME Inv, NEW k \in Streams, End(k) \/ HungUp(k)
  PROVE  Inv'
<1>1. stream[k].page \in Pages \union {NoPage}
  BY StreamFacts
<1>. QED
  BY <1>1, FreedInv DEF End, HungUp, Source

LEMMA AcceptInv ==
  ASSUME Inv, NEW k \in Streams, Accept(k)
  PROVE  Inv'
<1>. DEFINE p == stream[k].page
<1>0. /\ p \in Pages \union {NoPage} /\ stream[k].pc = "admitted" /\ stream[k] \in Stream
      /\ HandlerOK(log, stream[k]) /\ SaidOK(log, stream[k])
      /\ page \in [Pages -> Page] /\ \A q \in Pages : PageGood(log, found, page[q])
      /\ UNCHANGED <<runVars, session, faults>>
  BY StreamFacts DEF Accept
<1>1. CASE CapReached
  BY <1>0, <1>1, FreedInv DEF Accept, FullAfterAll, Refused, Source
<1>2. CASE ~CapReached
  <2>. DEFINE w == [stream[k] EXCEPT !.pc = "watch"]
  <2>1. /\ w \in Stream /\ w.pc = "watch" /\ w.page = p /\ w.run = stream[k].run
        /\ w.cursor = stream[k].cursor /\ w.wire = stream[k].wire
    BY <1>0 DEF Stream
  <2>2. stream' = [stream EXCEPT ![k] = w]
    BY <1>2 DEF Accept, FullAfterAll
  <2>. HIDE DEF w
  <2>3. HandlerOK(log, w) /\ SaidOK(log, w)
    BY <1>0, <2>1 DEF HandlerOK, SaidOK
  <2>4. CASE p = NoPage
    <3>1. page' = page
      BY <1>2, <2>4 DEF Accept, FullAfterAll
    <3>. QED
      BY <1>0, <1>2, <2>1, <2>2, <2>3, <2>4, <3>1, NullsAssumption, StreamStepInv
  <2>5. CASE p \in Pages
    <3>. DEFINE v == [page[p] EXCEPT !.source = "open"]
    <3>1. /\ page[p].source # "none" /\ WireOK(stream[k], page[p])
          /\ \A j \in Streams \ {k} : stream[j].page # p
      BY <1>0, <2>5, StreamFacts DEF WireOK
    <3>2. /\ v \in Page /\ PageGood(log, found, v) /\ v.source = "open"
          /\ v.run = page[p].run /\ v.last = page[p].last
      BY <2>5, <3>1, ListenerLooks, SourceIsGood DEF Source
    <3>3. page' = [page EXCEPT ![p] = v]
      BY <1>2, <2>5, NullsAssumption DEF Accept, FullAfterAll
    <3>. HIDE DEF v
    <3>4. WireOK(w, v)
      BY <1>0, <2>1, <3>1, <3>2 DEF WireOK
    <3>5. /\ page' \in [Pages -> Page] /\ \A q \in Pages : PageGood(log, found, page'[q])
          /\ \A j \in Streams \ {k}, q \in Pages : stream[j].page = q => page'[q] = page[q]
          /\ page'[p] = v
      BY <1>0, <2>5, <3>1, <3>2, <3>3
    <3>. HIDE DEF p
    <3>. QED
      BY <1>0, <1>2, <2>1, <2>2, <2>3, <3>1, <3>4, <3>5, StreamStepInv
  <2>. QED
    BY <1>0, <2>4, <2>5
<1>. QED
  BY <1>1, <1>2

LEMMA AdmitInv ==
  ASSUME Inv, NEW p \in Pages, NEW k \in Streams, Admit(p, k)
  PROVE  Inv'
<1>0. /\ page[p].source = "asking" /\ \A j \in Streams : stream[j].page # p
      /\ UNCHANGED <<runVars, session, faults>>
      /\ session.token \in 0..MaxTurns /\ faults \in 0..MaxFaults
      /\ page \in [Pages -> Page] /\ \A q \in Pages : PageGood(log, found, page[q])
  BY InvFacts DEF Admit, Session
<1>1. CASE Refused(p) /\ UNCHANGED stream
  BY <1>0, <1>1, OverBudgetInv
<1>. DEFINE w == [NoStream EXCEPT !.pc = "admitted", !.page = p, !.run = page[p].run,
                                  !.cursor = page[p].last, !.token = session.token]
<1>2. CASE stream' = [stream EXCEPT ![k] = w] /\ UNCHANGED page
  <2>1. page[p].view \in Looking /\ page[p].run \in Searches /\ page[p].last \in 0..MaxLog
    BY <1>0, ListenerLooks, PageFacts
  <2>2. page[p].last <= Len(log[page[p].run])
    BY <1>0, <2>1 DEF PageGood, PageOK
  <2>3. /\ w \in Stream /\ w.pc = "admitted" /\ w.page = p /\ w.run = page[p].run
        /\ w.cursor = page[p].last /\ w.wire = <<>>
    <3>. DEFINE a == [NoStream EXCEPT !.pc = "admitted", !.page = p]
                b == [a EXCEPT !.run = page[p].run, !.cursor = page[p].last]
    <3>1. a \in Stream /\ a.pc = "admitted" /\ a.page = p /\ a.wire = <<>>
      BY NoStreamType DEF Stream
    <3>2. w = [b EXCEPT !.token = session.token]
      OBVIOUS
    <3>. HIDE DEF a, w
    <3>3. /\ b \in Stream /\ b.pc = "admitted" /\ b.page = p /\ b.run = page[p].run
          /\ b.cursor = page[p].last /\ b.wire = <<>>
      BY <2>1, <3>1 DEF Stream
    <3>. HIDE DEF b
    <3>. QED
      BY <1>0, <3>2, <3>3 DEF Stream
  <2>. HIDE DEF w
  <2>4. HandlerOK(log, w) /\ SaidOK(log, w)
    BY <2>1, <2>2, <2>3, NullsAssumption DEF HandlerOK, SaidOK
  <2>5. page[p].last + 0 = page[p].last /\ Len(<<>>) = 0
    BY <2>1 DEF MaxLog
  <2>6. WireOK(w, page[p])
    BY <1>0, <2>3, <2>5 DEF WireOK, Spoken
  <2>. QED
    BY <1>0, <1>2, <2>3, <2>4, <2>6, StreamStepInv
<1>. QED
  BY <1>1, <1>2 DEF Admit

\* What a round writes: the events after the cursor, and that the run is over when an
\* outcome is among them.
LEMMA NewsFacts ==
  ASSUME Inv, NEW k \in Streams, ReadEvents(k)
  PROVE  \E ms \in Seq(Message), d \in Nat, over \in BOOLEAN, quiet \in BOOLEAN :
           /\ Len(log[stream[k].run]) = stream[k].cursor + d
           /\ over => ClosedIn(log, stream[k].run)
           /\ Len(ms) = IF over THEN d + 1 ELSE d
           /\ \A i \in 1..d : ms[i].kind = "progress" /\ ms[i].id = stream[k].cursor + i
           /\ over => ms[d + 1].kind = "settled"
           /\ stream' = [stream EXCEPT ![k] = [stream[k] EXCEPT
                !.cursor = Len(log[stream[k].run]), !.quiet = quiet,
                !.pc = IF over THEN "ending" ELSE "status", !.wire = Written(k, ms)]]
<1>. DEFINE n == Len(log[stream[k].run])
            cursor == stream[k].cursor
            d == n - cursor
            news == News(k)
            over == news # <<>> /\ Runs!Closed(stream[k].run)
            last == [kind |-> "settled", id |-> 0]
            tail == IF over THEN <<last>> ELSE <<>>
            ms == news \o tail
            quiet == news = <<>> /\ ~over
<1>1. /\ stream[k] \in Stream /\ stream[k].run \in Searches /\ cursor \in 0..MaxLog
      /\ cursor <= n
  BY StreamFacts DEF ReadEvents, HandlerOK, Stream
<1>2. n \in Nat /\ n <= MaxLog
  BY <1>1, InvFacts DEF RunsOK
<1>3. d \in Nat /\ n = cursor + d
  <2>1. n \in Nat /\ cursor \in Nat /\ cursor <= n
    BY <1>1, <1>2 DEF MaxLog
  <2>. HIDE DEF n, cursor
  <2>. QED
    BY <2>1
<1>4. over \in BOOLEAN /\ quiet \in BOOLEAN /\ (over => ClosedIn(log, stream[k].run))
  BY ClosedFacts
<1>5. news \in Seq(Message) /\ Len(news) = d
  <2>1. ASSUME NEW i \in 1..d PROVE [kind |-> "progress", id |-> cursor + i] \in Message
    <3>1. cursor + i \in 1..MaxLog
      <4>1. n <= 3 /\ cursor \in Nat
        BY <1>1, <1>2 DEF MaxLog
      <4>. HIDE DEF n, cursor, news, d
      <4>. QED
        BY <1>2, <1>3, <4>1 DEF MaxLog
    <3>. QED
      BY <3>1 DEF Message
  <2>2. news \in [1..d -> Message]
    BY <2>1 DEF News
  <2>. HIDE DEF news, d
  <2>. QED
    BY <1>3, <2>2
<1>6. \A i \in 1..d : news[i].kind = "progress" /\ news[i].id = cursor + i
  BY DEF News
<1>7. last \in Message /\ last.kind = "settled"
  BY DEF Message
<1>. HIDE DEF news, last
<1>8. tail \in Seq(Message) /\ Len(tail) = IF over THEN 1 ELSE 0
  BY <1>4, <1>7
<1>9. over => tail[1] = last
  OBVIOUS
<1>10. stream' = [stream EXCEPT ![k] = [stream[k] EXCEPT
         !.cursor = n, !.quiet = quiet, !.pc = IF over THEN "ending" ELSE "status",
         !.wire = Written(k, ms)]]
  BY DEF ReadEvents, news, last
<1>. HIDE DEF over, tail, d, quiet
<1>11. /\ ms \in Seq(Message) /\ Len(ms) = d + Len(tail)
       /\ \A i \in 1..(d + Len(tail)) : ms[i] = IF i <= d THEN news[i] ELSE tail[i - d]
  BY <1>5, <1>8, ConcatProperties
<1>. HIDE DEF ms
<1>12. \A i \in 1..d : ms[i] = news[i]
  <2>. SUFFICES ASSUME NEW i \in 1..d PROVE ms[i] = news[i]
    OBVIOUS
  <2>1. i \in 1..(d + Len(tail)) /\ i <= d
    BY <1>3, <1>8
  <2>. QED
    BY <1>11, <2>1
<1>13. over => ms[d + 1] = last
  <2>. SUFFICES ASSUME over PROVE ms[d + 1] = last
    OBVIOUS
  <2>1. d + 1 \in 1..(d + Len(tail)) /\ ~(d + 1 <= d) /\ (d + 1) - d = 1
    BY <1>3, <1>8
  <2>. QED
    BY <1>9, <1>11, <2>1
<1>14. Len(ms) = IF over THEN d + 1 ELSE d
  BY <1>3, <1>8, <1>11
<1>. HIDE DEF n
<1>. ms \in Seq(Message) /\ d \in Nat /\ over \in BOOLEAN /\ quiet \in BOOLEAN
  BY <1>3, <1>4, <1>11
<1>. WITNESS ms \in Seq(Message), d \in Nat, over \in BOOLEAN, quiet \in BOOLEAN
<1>. QED
  BY <1>3, <1>4, <1>6, <1>7, <1>10, <1>11, <1>12, <1>13, <1>14 DEF n

LEMMA ReadEventsInv ==
  ASSUME Inv, NEW k \in Streams, ReadEvents(k)
  PROVE  Inv'
<1>. DEFINE w0 == stream[k]
            p == w0.page
            n == Len(log[w0.run])
<1>0. PICK ms \in Seq(Message), d \in Nat, over \in BOOLEAN, quiet \in BOOLEAN :
        /\ n = w0.cursor + d
        /\ over => ClosedIn(log, w0.run)
        /\ Len(ms) = IF over THEN d + 1 ELSE d
        /\ \A i \in 1..d : ms[i].kind = "progress" /\ ms[i].id = w0.cursor + i
        /\ over => ms[d + 1].kind = "settled"
        /\ stream' = [stream EXCEPT ![k] = [w0 EXCEPT
             !.cursor = n, !.quiet = quiet,
             !.pc = IF over THEN "ending" ELSE "status", !.wire = Written(k, ms)]]
  BY NewsFacts
<1>1. /\ w0 \in Stream /\ w0.wire \in Seq(Message) /\ w0.pc = "read" /\ k \in Counted
      /\ p \in Pages \union {NoPage} /\ w0.run \in Searches /\ w0.cursor \in Nat
      /\ page \in [Pages -> Page] /\ \A q \in Pages : PageGood(log, found, page[q])
  BY StreamFacts DEF ReadEvents, Counted, HandlerOK, Stream, MaxLog
<1>2. n \in 0..MaxLog
  <2>1. log[w0.run] \in Seq(Events) /\ n <= MaxLog
    BY <1>1, InvFacts DEF RunsOK
  <2>2. n \in Nat
    BY <2>1
  <2>. HIDE DEF n
  <2>. QED
    BY <2>1, <2>2 DEF MaxLog
<1>. DEFINE u == Written(k, ms)
            pc == IF over THEN "ending" ELSE "status"
            w == [w0 EXCEPT !.cursor = n, !.quiet = quiet, !.pc = pc, !.wire = u]
<1>3. u \in Seq(Message)
  BY <1>1 DEF Written
<1>4. /\ w \in Stream /\ w.cursor = n /\ w.pc = pc /\ w.wire = u /\ w.page = p
      /\ w.run = w0.run
  <2>. DEFINE a == [w0 EXCEPT !.cursor = n, !.quiet = quiet]
  <2>1. a \in Stream /\ a.cursor = n /\ a.page = p /\ a.run = w0.run
    BY <1>1, <1>2 DEF Stream
  <2>2. w = [a EXCEPT !.pc = pc, !.wire = u]
    OBVIOUS
  <2>. HIDE DEF a, w, u, n, p
  <2>. QED
    BY <1>3, <2>1, <2>2 DEF Stream
<1>5. stream' = [stream EXCEPT ![k] = w]
  BY <1>0
<1>6. CASE p = NoPage
  <2>1. u = <<>>
    BY <1>6 DEF Written
  <2>. HIDE DEF w, u, n, p
  <2>2. HandlerOK(log, w) /\ SaidOK(log, w)
    BY <1>1, <1>2, <1>4, <1>6, <2>1 DEF HandlerOK, SaidOK, MaxLog, n
  <2>3. /\ w.page \notin Pages /\ page' = page /\ UNCHANGED <<runVars, session, faults>>
        /\ \A q \in Pages : PageGood(log, found, page'[q])
    BY <1>1, <1>4, <1>6, NullsAssumption DEF ReadEvents
  <2>. QED
    BY <1>1, <1>4, <1>5, <2>2, <2>3, StreamStepInv
<1>7. CASE p \in Pages
  <2>. DEFINE l == page[p].last
              m == Len(w0.wire)
  <2>0. /\ p # NoPage /\ WireOK(w0, page[p]) /\ l \in Nat /\ m \in Nat
        /\ \A j \in Streams \ {k} : stream[j].page # p
    <3>1. p # NoPage
      BY <1>7, NullsAssumption
    <3>2. page[p].last \in Nat
      BY <1>7, PageFacts DEF MaxLog
    <3>3. WireOK(w0, page[p]) /\ \A j \in Streams \ {k} : stream[j].page # p
      BY <1>7, StreamFacts
    <3>4. m \in Nat
      BY <1>1
    <3>. QED
      BY <3>1, <3>2, <3>3, <3>4
  <2>1. \A i \in 1..m : w0.wire[i].kind = "progress" /\ w0.wire[i].id = l + i
    BY <1>1, <2>0 DEF WireOK
  <2>2. w0.cursor = l + m
    <3>1. ~Spoken(w0.wire)
      BY <1>1, <2>0, <2>1 DEF Spoken
    <3>. QED
      BY <2>0, <3>1 DEF WireOK
  <2>3. /\ Len(u) = m + Len(ms)
        /\ \A i \in 1..(m + Len(ms)) : u[i] = IF i <= m THEN w0.wire[i] ELSE ms[i - m]
    <3>1. u = w0.wire \o ms
      BY <2>0 DEF Written
    <3>. QED
      BY <1>1, <3>1, ConcatProperties
  <2>. HIDE DEF w, u, l, m, n, p
  <2>4. \A i \in 1..(m + d) : u[i].kind = "progress" /\ u[i].id = l + i
    <3>. SUFFICES ASSUME NEW i \in 1..(m + d) PROVE u[i].kind = "progress" /\ u[i].id = l + i
      OBVIOUS
    <3>0. i \in 1..(m + Len(ms))
      BY <1>0, <2>0
    <3>1. CASE i <= m
      BY <2>0, <2>1, <2>3, <3>0, <3>1
    <3>2. CASE ~(i <= m)
      <4>1. i - m \in 1..d /\ u[i] = ms[i - m]
        BY <2>0, <2>3, <3>0, <3>2
      <4>2. ms[i - m].kind = "progress" /\ ms[i - m].id = w0.cursor + (i - m)
        BY <1>0, <4>1
      <4>3. w0.cursor + (i - m) = l + i
        BY <2>0, <2>2
      <4>. QED
        BY <4>1, <4>2, <4>3
    <3>. QED
      BY <3>1, <3>2
  <2>5. over => Len(u) = m + d + 1 /\ u[m + d + 1].kind = "settled"
    <3>. SUFFICES ASSUME over PROVE Len(u) = m + d + 1 /\ u[m + d + 1].kind = "settled"
      OBVIOUS
    <3>0. Len(ms) = d + 1
      BY <1>0
    <3>1. Len(u) = m + d + 1 /\ m + d + 1 \in 1..(m + Len(ms)) /\ ~(m + d + 1 <= m)
          /\ (m + d + 1) - m = d + 1
      BY <2>0, <2>3, <3>0
    <3>2. u[m + d + 1] = ms[d + 1]
      BY <2>3, <3>1
    <3>. QED
      BY <1>0, <3>1, <3>2
  <2>6. ~over => Len(u) = m + d
    BY <1>0, <2>3
  <2>7. n = l + (m + d)
    BY <1>0, <2>0, <2>2
  <2>8. HandlerOK(log, w)
    BY <1>1, <1>2, <1>4, <2>0 DEF HandlerOK, MaxLog, n
  <2>9. SaidOK(log, w)
    <3>. SUFFICES ASSUME NEW i \in 1..Len(u), u[i].kind = "settled" PROVE over
      BY <1>0, <1>4 DEF SaidOK, n
    <3>. QED
      BY <2>4, <2>6
  <2>10. \A i \in 1..Len(u) : IF u[i].kind = "progress" THEN u[i].id = l + i
                              ELSE w.pc = "ending" /\ i = Len(u)
    <3>1. CASE over
      <4>1. \A i \in 1..Len(u) : i \in 1..(m + d) \/ i = Len(u)
        BY <2>0, <2>5, <3>1
      <4>2. u[Len(u)].kind # "progress" /\ w.pc = "ending"
        BY <1>4, <2>5, <3>1
      <4>. QED
        BY <2>4, <4>1, <4>2
    <3>2. CASE ~over
      BY <2>4, <2>6, <3>2
    <3>. QED
      BY <3>1, <3>2
  <2>11. Spoken(u) <=> over
    <3>1. CASE over
      <4>1. u # <<>>
        BY <2>0, <2>5, <3>1
      <4>. QED
        BY <2>5, <3>1, <4>1 DEF Spoken
    <3>2. CASE ~over
      <4>1. ASSUME u # <<>> PROVE Len(u) \in 1..(m + d)
        BY <1>3, <2>0, <2>6, <3>2, <4>1
      <4>. QED
        BY <2>4, <3>2, <4>1 DEF Spoken
    <3>. QED
      BY <3>1, <3>2
  <2>12. /\ Spoken(u) => n + 1 = l + Len(u)
         /\ ~Spoken(u) => n = l + Len(u)
    <3>1. CASE over
      BY <2>0, <2>5, <2>7, <2>11, <3>1
    <3>2. CASE ~over
      BY <2>0, <2>6, <2>7, <2>11, <3>2
    <3>. QED
      BY <3>1, <3>2
  <2>13. page[p].run = w0.run /\ page[p].source = "open" /\ w.pc # "admitted"
    BY <1>1, <1>4, <2>0 DEF WireOK
  <2>14. WireOK(w, page[p])
    BY <1>4, <2>10, <2>12, <2>13 DEF WireOK, l
  <2>. QED
    BY <1>1, <1>4, <1>5, <2>0, <2>8, <2>9, <2>14, StreamStepInv DEF ReadEvents
<1>. QED
  BY <1>1, <1>6, <1>7


\* A message arrives: the next event, or the last word of the stream.
LEMMA NextEventInv ==
  ASSUME Inv, NEW k \in Streams, Deliver(k), Head(stream[k].wire).kind = "progress"
  PROVE  Inv'
<1>. DEFINE w0 == stream[k]
            p == w0.page
            m == Head(w0.wire)
            u == Tail(w0.wire)
            l == page[p].last
            c == Len(w0.wire)
            b == Len(u)
            v == [Asking(p) EXCEPT !.last = m.id]
            w == [w0 EXCEPT !.wire = u]
<1>0. /\ w0 \in Stream /\ w0.wire \in Seq(Message) /\ w0.wire # <<>> /\ p \in Pages
      /\ HandlerOK(log, w0) /\ SaidOK(log, w0) /\ WireOK(w0, page[p])
      /\ \A j \in Streams \ {k} : stream[j].page # p
      /\ page \in [Pages -> Page] /\ \A q \in Pages : PageGood(log, found, page[q])
      /\ UNCHANGED <<runVars, session, faults>>
  BY StreamFacts DEF Deliver
<1>1. page[p].source # "none" /\ l \in Nat /\ page[p].run = w0.run
  BY <1>0, PageFacts DEF WireOK, MaxLog
<1>2. page[p].view \in Looking /\ w0.run \in Searches
  BY <1>0, <1>1, ListenerLooks
<1>3. /\ m \in Message /\ m = w0.wire[1] /\ u \in Seq(Message)
      /\ c \in Nat \ {0} /\ b \in Nat /\ c = b + 1
      /\ \A i \in 1..b : u[i] = w0.wire[i + 1]
  <2>1. Head(w0.wire) \in Message /\ Tail(w0.wire) \in Seq(Message)
        /\ Len(Tail(w0.wire)) = Len(w0.wire) - 1
        /\ \A i \in 1..Len(Tail(w0.wire)) : Tail(w0.wire)[i] = w0.wire[i + 1]
    BY <1>0, HeadTailProperties
  <2>2. Len(w0.wire) \in Nat \ {0} /\ Head(w0.wire) = w0.wire[1]
    BY <1>0, EmptySeq
  <2>. QED
    BY <2>1, <2>2
<1>4. m.kind = "progress" /\ m.id \in 0..MaxLog
  BY <1>3 DEF Message, MaxLog
<1>5. /\ v \in Page /\ v.last = m.id /\ v.run = w0.run /\ v.source = page[p].source
      /\ v.view = page[p].view /\ v.fetch = "asked" /\ ~v.readClosed /\ v.jobs = page[p].jobs
      /\ PageGood(log, found, Asking(p)) /\ Asking(p).last = l /\ Asking(p).view = v.view
      /\ Asking(p).run = v.run /\ Asking(p).source = v.source
      /\ Asking(p).jobs = v.jobs
  <2>1. Asking(p) \in Page
    BY <1>0, <1>2, AskingIsGood
  <2>2. /\ PageGood(log, found, Asking(p)) /\ Asking(p).run = page[p].run
        /\ Asking(p).source = page[p].source /\ Asking(p).last = l
        /\ Asking(p).view = page[p].view /\ Asking(p).fetch = "asked"
        /\ ~Asking(p).readClosed /\ Asking(p).jobs = page[p].jobs
    BY <1>0, <1>2, AskingIsGood
  <2>. HIDE DEF m, l, p, w0
  <2>3. v \in Page
    BY <2>1, <1>4 DEF Page
  <2>4. /\ v.last = m.id /\ v.run = Asking(p).run /\ v.source = Asking(p).source
        /\ v.view = Asking(p).view /\ v.fetch = Asking(p).fetch
        /\ v.readClosed = Asking(p).readClosed /\ v.jobs = Asking(p).jobs
    BY <2>1 DEF Page
  <2>. HIDE DEF v
  <2>. QED
    BY <1>1, <2>2, <2>3, <2>4
<1>6. /\ w \in Stream /\ w.wire = u /\ w.pc = w0.pc /\ w.page = p /\ w.run = w0.run
      /\ w.cursor = w0.cursor /\ w0.cursor \in Nat
  <2>1. w0 \in Stream /\ u \in Seq(Message)
    BY <1>0, <1>3
  <2>. HIDE DEF u, w0
  <2>2. w \in Stream
    BY <2>1 DEF Stream
  <2>3. /\ w.wire = u /\ w.pc = w0.pc /\ w.page = w0.page /\ w.run = w0.run
        /\ w.cursor = w0.cursor
    BY <2>1 DEF Stream
  <2>4. w0.cursor \in Nat
    BY <2>1 DEF Stream, MaxLog
  <2>. QED
    BY <2>2, <2>3, <2>4
<1>7. page' = [page EXCEPT ![p] = v] /\ stream' = [stream EXCEPT ![k] = w]
  BY <1>4 DEF Deliver, Heard
<1>. HIDE DEF v, w, u, m, l, c, b, p
<1>8. \A i \in 1..c : IF w0.wire[i].kind = "progress" THEN w0.wire[i].id = l + i
                      ELSE w0.pc = "ending" /\ i = c
  BY <1>0 DEF WireOK, l, c
<1>9. m.id = l + 1
  BY <1>3, <1>4, <1>8
<1>10. Spoken(w0.wire) <=> Spoken(u)
  <2>1. CASE b = 0
    <3>1. u = <<>> /\ c = 1
      BY <1>3, <2>1, EmptySeq DEF b
    <3>. QED
      BY <1>3, <1>4, <3>1 DEF Spoken, c
  <2>2. CASE b # 0
    <3>1. b \in 1..b /\ u # <<>> /\ u[b] = w0.wire[b + 1]
      BY <1>3, <2>2, EmptySeq DEF b
    <3>. QED
      BY <1>0, <1>3, <3>1 DEF Spoken, b, c
  <2>. QED
    BY <2>1, <2>2
<1>11. /\ Spoken(u) => w0.cursor + 1 = m.id + b /\ b # 0
       /\ ~Spoken(u) => w0.cursor = m.id + b
  <2>1. /\ Spoken(w0.wire) => w0.cursor + 1 = l + c
        /\ ~Spoken(w0.wire) => w0.cursor = l + c
    BY <1>0 DEF WireOK, l, c
  <2>2. Spoken(u) => b # 0
    BY <1>3, EmptySeq DEF Spoken, b
  <2>. QED
    BY <1>1, <1>3, <1>6, <1>9, <1>10, <2>1, <2>2
<1>12. m.id <= w0.cursor /\ m.id \in Nat
  BY <1>1, <1>3, <1>6, <1>9, <1>11
<1>13. PageGood(log, found, v)
  <2>1. w0.cursor <= Len(log[w0.run])
    BY <1>0, NullsAssumption DEF HandlerOK, p
  <2>2. Len(log[w0.run]) \in Nat
    BY <1>2, InvFacts DEF RunsOK
  <2>3. m.id <= Len(log[w0.run])
    BY <1>6, <1>12, <2>1, <2>2
  <2>. QED
    BY <1>2, <1>5, <2>3 DEF PageGood, PageOK, AnswerOK, Looking
<1>14. HandlerOK(log, w)
  BY <1>0, <1>6, NullsAssumption DEF HandlerOK, p
<1>15. SaidOK(log, w)
  <2>. SUFFICES ASSUME NEW i \in 1..b, u[i].kind = "settled"
                PROVE  ClosedIn(log, w0.run) /\ w0.cursor = Len(log[w0.run])
    BY <1>6 DEF SaidOK, b
  <2>1. i + 1 \in 1..c /\ w0.wire[i + 1].kind = "settled"
    BY <1>3
  <2>. QED
    BY <1>0, <2>1 DEF SaidOK, c
<1>16. \A i \in 1..b : IF u[i].kind = "progress" THEN u[i].id = m.id + i
                       ELSE w0.pc = "ending" /\ i = b
  <2>. SUFFICES ASSUME NEW i \in 1..b
                PROVE  IF u[i].kind = "progress" THEN u[i].id = m.id + i
                       ELSE w0.pc = "ending" /\ i = b
    OBVIOUS
  <2>1. i + 1 \in 1..c /\ u[i] = w0.wire[i + 1] /\ l + (i + 1) = m.id + i /\ (i + 1 = c => i = b)
    BY <1>1, <1>3, <1>9
  <2>. QED
    BY <1>8, <2>1
<1>17. WireOK(w, v)
  BY <1>0, <1>5, <1>6, <1>11, <1>16 DEF WireOK, b
<1>18. /\ page' \in [Pages -> Page] /\ page'[p] = v
       /\ \A q \in Pages \ {p} : page'[q] = page[q]
  BY <1>0, <1>5, <1>7
<1>19. w.pc \in {"watch", "read", "status", "pending"} => k \in Counted
  BY <1>6 DEF Counted
<1>20. \A j \in Streams \ {k}, q \in Pages : stream[j].page = q => page'[q] = page[q]
  BY <1>0, <1>18 DEF p
<1>21. w.page \in Pages =>
         WireOK(w, page'[w.page]) /\ \A j \in Streams \ {k} : stream[j].page # w.page
  BY <1>0, <1>6, <1>17, <1>18 DEF p
<1>22. \A q \in Pages : PageGood(log, found, page'[q])
  BY <1>0, <1>13, <1>18
<1>. QED
  BY <1>0, <1>6, <1>7, <1>14, <1>15, <1>18, <1>19, <1>20, <1>21, <1>22, StreamStepInv

LEMMA DeliverInv ==
  ASSUME Inv, NEW k \in Streams, Deliver(k)
  PROVE  Inv'
<1>. DEFINE p == stream[k].page
            m == Head(stream[k].wire)
<1>0. /\ stream[k].wire \in Seq(Message) /\ stream[k].wire # <<>> /\ p \in Pages
      /\ WireOK(stream[k], page[p])
      /\ UNCHANGED runVars /\ session' = session /\ faults' \in 0..MaxFaults
  BY StreamFacts, InvFacts DEF Deliver, runVars
<1>1. m.kind \in {"progress", "settled", "expired"}
  BY <1>0, HeadTailProperties DEF Message
<1>2. CASE m.kind = "progress"
  BY <1>2, NextEventInv
<1>3. CASE m.kind = "settled"
  <2>. DEFINE v == [Asking(p) EXCEPT !.source = "settled"]
  <2>1. page[p].view \in Looking \ {"unknown"}
    BY <1>0, ListenerLooks DEF WireOK
  <2>2. /\ v \in Page /\ v.source = "settled" /\ v.run = Asking(p).run /\ v.last = Asking(p).last
        /\ v.view = page[p].view /\ ~v.readClosed /\ v.jobs = Asking(p).jobs
        /\ v.fetch = "asked" /\ PageGood(log, found, Asking(p)) /\ Asking(p).view = page[p].view
    BY <1>0, <2>1, AskingIsGood DEF Page, Source
  <2>3. page' = [page EXCEPT ![p] = v] /\ stream' = Hangup(p)
    BY <1>3 DEF Deliver, Heard
  <2>. HIDE DEF v
  <2>4. PageGood(log, found, v)
    BY <2>1, <2>2 DEF PageGood, PageOK, AnswerOK
  <2>. QED
    BY <1>0, <2>2, <2>3, <2>4, HangupInv
<1>4. CASE m.kind = "expired"
  <2>1. Leave(p)
    BY <1>4 DEF Deliver, Heard, Leave
  <2>. QED
    BY <1>0, <2>1, LeaveInv DEF Deliver
<1>. QED
  BY <1>1, <1>2, <1>3, <1>4


-----------------------------------------------------------------------------
(* The invariant *)

LEMMA InitInv == Init => Inv
<1>. SUFFICES ASSUME Init PROVE Inv
  OBVIOUS
<1>1. /\ log = [s \in Searches |-> <<>>] /\ found = [s \in Searches |-> {}]
      /\ page = [p \in Pages |-> NewPage] /\ stream = [k \in Streams |-> NoStream]
      /\ session = [live |-> TRUE, token |-> 0, lapsed |-> FALSE] /\ faults = 0
  BY DEF Init, Runs!Init
<1>2. page \in [Pages -> Page] /\ stream \in [Streams -> Stream]
  BY <1>1, NewPageType, NoStreamType
<1>3. session \in Session /\ faults \in 0..MaxFaults /\ SessionOK(session)
  BY <1>1, BoundsAssumption DEF Session, SessionOK
<1>4. Counted = {}
  <2>1. \A k \in Streams : stream[k].pc = "free"
    BY <1>1, NoStreamType
  <2>. QED
    BY <2>1 DEF Counted
<1>5. IsFiniteSet(Counted) /\ Cardinality(Counted) <= StreamCap
  BY <1>4, FS_EmptySet, CapAssumption
<1>6. RunsOK
  <2>1. \A s \in Searches : log[s] = <<>> /\ Len(log[s]) = 0
    BY <1>1
  <2>2. log \in [Searches -> Seq(Events)] /\ found \in [Searches -> SUBSET Fingerprints]
    BY <1>1
  <2>3. 0 <= MaxLog /\ 0 # MaxLog
    BY DEF MaxLog
  <2>. QED
    BY <2>1, <2>2, <2>3 DEF RunsOK
<1>7. StreamsOK(log, stream, page)
  BY <1>1, NoStreamType, NullsAssumption DEF StreamsOK
<1>8. \A p \in Pages : PageGood(log, found, page[p])
  BY <1>1, NewPageType DEF PageGood, PageOK, AnswerOK, Looking
<1>. QED
  BY <1>2, <1>3, <1>5, <1>6, <1>7, <1>8 DEF Inv, PageTypeOK

LEMMA NextInv == Inv /\ [Next]_vars => Inv'
<1>. SUFFICES ASSUME Inv, [Next]_vars PROVE Inv'
  OBVIOUS
<1>1. CASE RunStep
  BY <1>1, RunStepGrows, RunsInv, InvFacts DEF RunStep
<1>2. CASE Lapse \/ EndSession
  BY <1>2, SessionInv
<1>3. ASSUME NEW p \in Pages, NEW s \in Searches, OpenPage(p, s) PROVE Inv'
  BY <1>3, OpenPageInv
<1>4. ASSUME NEW p \in Pages, DetailStep(p) PROVE Inv'
  BY <1>4, PollInv, RefreshInv, ReadRunInv, ReadJobsInv, ShowDetailInv DEF DetailStep
<1>5. ASSUME NEW p \in Pages, Focus(p) \/ Cancel(p) \/ Listen(p) PROVE Inv'
  BY <1>5, FocusInv, CancelInv, ListenInv
<1>6. ASSUME NEW p \in Pages, NEW k \in Streams, Admit(p, k) PROVE Inv'
  BY <1>6, AdmitInv
<1>7. ASSUME NEW k \in Streams, StreamStep(k) PROVE Inv'
  <2>1. CASE HungUp(k)
    BY <2>1, FreedInv DEF HungUp
  <2>. QED
    BY <1>7, <2>1, AcceptInv, WatchInv, ReadEventsInv, ReadStatusInv, ReadPendingInv,
       AbortInv, EndInv, DeliverInv DEF StreamStep
<1>8. ASSUME NEW p \in Pages, FetchFails(p) \/ OverBudget(p) \/ Reload(p) PROVE Inv'
  <2>1. CASE FetchFails(p)
    BY <2>1, FetchFailsInv
  <2>2. CASE OverBudget(p)
    BY <2>2, OverBudgetInv, FaultType DEF OverBudget
  <2>3. CASE Reload(p)
    BY <2>3, ReloadInv
  <2>. QED
    BY <1>8, <2>1, <2>2, <2>3
<1>9. ASSUME NEW k \in Streams, Break(k) PROVE Inv'
  BY <1>9, BreakInv
<1>10. CASE UNCHANGED vars
  <2>1. UNCHANGED runVars /\ UNCHANGED <<page, stream, session, faults>>
    BY <1>10 DEF vars, runVars
  <2>. QED
    BY <2>1, SameRuns, RunsInv, InvFacts
<1>11. CASE Next
  BY <1>1, <1>2, <1>3, <1>4, <1>5, <1>6, <1>7, <1>8, <1>9, <1>11 DEF Next
<1>. QED
  BY <1>10, <1>11

LEMMA InvCorrect == Spec => []Inv
BY InitInv, NextInv, PTL DEF Spec

-----------------------------------------------------------------------------
(* What a page hears *)

\* Nothing but a message brings page q to the next event or to the end of its run,
\* and nothing but a new EventSource back to the first.
Calm(q) ==
  /\ \/ page'[q].last = page[q].last
     \/ page'[q].last = 0 /\ "none" \in {page[q].source, page'[q].source}
  /\ page'[q].source = "settled" => page[q].source = "settled"

LEMMA OneCalm ==
  ASSUME Inv, NEW p \in Pages, NEW v, page' = [page EXCEPT ![p] = v],
         v.last = page[p].last \/ (v.last = 0 /\ "none" \in {page[p].source, v.source}),
         v.source = "settled" => page[p].source = "settled"
  PROVE  \A q \in Pages : Calm(q)
<1>1. page \in [Pages -> Page]
  BY InvFacts
<1>2. page'[p] = v /\ \A q \in Pages \ {p} : page'[q] = page[q]
  BY <1>1
<1>. QED
  BY <1>2 DEF Calm

LEMMA PageRecords ==
  ASSUME Inv, NEW p \in Pages
  PROVE  /\ page \in [Pages -> Page] /\ page[p] \in Page
         /\ \A v \in {Asking(p), NotAsking(p)} :
              v \in Page /\ v.last = page[p].last /\ v.source = page[p].source
<1>1. page \in [Pages -> Page] /\ page[p] \in Page
  BY InvFacts
<1>2. Asking(p) \in Page /\ NotAsking(p) \in Page
  BY <1>1 DEF Page, Fetch, Asking, NotAsking
<1>3. /\ Asking(p).last = page[p].last /\ Asking(p).source = page[p].source
      /\ NotAsking(p).last = page[p].last /\ NotAsking(p).source = page[p].source
  BY <1>1 DEF Page, Asking, NotAsking
<1>. QED
  BY <1>1, <1>2, <1>3

LEMMA HungUpIsCalm ==
  ASSUME Inv, NEW p \in Pages, Leave(p)
  PROVE  \A q \in Pages : Calm(q)
<1>. DEFINE v == [NewPage EXCEPT !.view = "left"]
<1>1. v.last = 0 /\ v.source = "none"
  BY NewPageType DEF Page
<1>2. page' = [page EXCEPT ![p] = v]
  BY DEF Leave
<1>. HIDE DEF v
<1>. QED
  BY <1>1, <1>2, OneCalm

LEMMA NewSourceIsCalm ==
  ASSUME Inv, NEW p \in Pages, NEW src, src # "settled",
         page' = [page EXCEPT ![p].source = src]
  PROVE  \A q \in Pages : Calm(q)
<1>. DEFINE v == [page[p] EXCEPT !.source = src]
<1>1. v.last = page[p].last /\ v.source = src
  BY PageRecords DEF Page
<1>. HIDE DEF v
<1>. QED
  BY <1>1, OneCalm DEF v

LEMMA DetailIsCalm ==
  ASSUME Inv, NEW p \in Pages, DetailStep(p)
  PROVE  \A q \in Pages : Calm(q)
<1>1. CASE Poll(p)
  BY <1>1, PageRecords, OneCalm DEF Poll
<1>2. CASE Refresh(p)
  <2>1. page' = page \/ Leave(p)
    BY <1>2 DEF Refresh
  <2>. QED
    BY <2>1, HungUpIsCalm DEF Calm
<1>3. CASE ReadRun(p)
  <2>. DEFINE b == Runs!Closed(page[p].run)
              v == [page[p] EXCEPT !.fetch = "status", !.readClosed = b]
  <2>1. v.last = page[p].last /\ v.source = page[p].source
    <3>. HIDE DEF b
    <3>. QED
      BY PageRecords DEF Page
  <2>2. page' = [page EXCEPT ![p] = v]
    BY <1>3, PageRecords DEF ReadRun
  <2>. HIDE DEF v
  <2>. QED
    BY <2>1, <2>2, OneCalm
<1>4. CASE ReadJobs(p)
  <2>. DEFINE f == found[page[p].run]
              v == [page[p] EXCEPT !.fetch = "answered", !.readJobs = f]
  <2>1. v.last = page[p].last /\ v.source = page[p].source
    <3>. HIDE DEF f
    <3>. QED
      BY PageRecords DEF Page
  <2>2. page' = [page EXCEPT ![p] = v]
    BY <1>4, PageRecords DEF ReadJobs
  <2>. HIDE DEF v
  <2>. QED
    BY <2>1, <2>2, OneCalm
<1>5. CASE ShowDetail(p)
  <2>. DEFINE f == page[p].readJobs
              a == NotAsking(p)
              v == [a EXCEPT !.view = "closed", !.jobs = f, !.source = "none", !.last = 0]
              w == [a EXCEPT !.view = "open", !.jobs = f]
  <2>0. a \in Page /\ a.last = page[p].last /\ a.source = page[p].source
    BY PageRecords
  <2>1. page' = [page EXCEPT ![p] = v] \/ page' = [page EXCEPT ![p] = w]
    BY <1>5 DEF ShowDetail
  <2>. HIDE DEF a, f
  <2>2. v.last = 0 /\ v.source = "none"
    BY <2>0 DEF Page
  <2>3. w.last = page[p].last /\ w.source = page[p].source
    BY <2>0 DEF Page
  <2>. HIDE DEF v, w
  <2>. QED
    BY <2>1, <2>2, <2>3, OneCalm
<1>. QED
  BY <1>1, <1>2, <1>3, <1>4, <1>5 DEF DetailStep

LEMMA LookIsCalm ==
  ASSUME Inv, NEW p \in Pages, (\E s \in Searches : OpenPage(p, s)) \/ Reload(p)
  PROVE  \A q \in Pages : Calm(q)
<1>1. PICK s : page' = [page EXCEPT ![p] =
                         [NewPage EXCEPT !.run = s, !.view = "unknown", !.fetch = "asked"]]
  BY DEF OpenPage, Reload
<1>. DEFINE v == [NewPage EXCEPT !.run = s, !.view = "unknown", !.fetch = "asked"]
<1>2. v.last = 0 /\ v.source = "none"
  BY NewPageType DEF Page
<1>. HIDE DEF v
<1>. QED
  BY <1>1, <1>2, OneCalm DEF v


LEMMA StreamIsCalm ==
  ASSUME Inv, NEW k \in Streams, StreamStep(k)
  PROVE  Deliver(k) \/ \A q \in Pages : Calm(q)
<1>. DEFINE p == stream[k].page
<1>1. CASE page' = page
  BY <1>1 DEF Calm
<1>2. CASE Accept(k) /\ page' # page
  <2>1. p \in Pages
    BY <1>2, StreamFacts DEF Accept
  <2>2. \E src \in {"refused", "open"} : page' = [page EXCEPT ![p].source = src]
    BY <1>2 DEF Accept, Refused
  <2>. QED
    BY <2>1, <2>2, NewSourceIsCalm
<1>3. CASE End(k) /\ page' # page
  <2>1. p \in Pages /\ page' = [page EXCEPT ![p].source = "asking"]
    BY <1>3, StreamFacts DEF End
  <2>. QED
    BY <2>1, NewSourceIsCalm
<1>4. Deliver(k) \/ page' = page \/ Accept(k) \/ End(k)
  BY DEF StreamStep, Watch, ReadEvents, ReadStatus, ReadPending, Abort, HungUp
<1>. QED
  BY <1>1, <1>2, <1>3, <1>4

LEMMA NextIsCalm ==
  ASSUME Inv, [Next]_vars
  PROVE  (\E k \in Streams : Deliver(k)) \/ \A q \in Pages : Calm(q)
<1>1. ASSUME page' = page PROVE \A q \in Pages : Calm(q)
  BY <1>1 DEF Calm
<1>2. ASSUME NEW p \in Pages, (\E s \in Searches : OpenPage(p, s)) \/ Reload(p)
      PROVE  \A q \in Pages : Calm(q)
  BY <1>2, LookIsCalm
<1>3. ASSUME NEW p \in Pages, Focus(p) \/ Cancel(p) \/ FetchFails(p)
      PROVE  \A q \in Pages : Calm(q)
  <2>1. \/ Leave(p)
        \/ \E v \in {Asking(p), NotAsking(p)} : page' = [page EXCEPT ![p] = v]
    BY <1>3 DEF Focus, Cancel, FetchFails
  <2>. QED
    BY <2>1, HungUpIsCalm, PageRecords, OneCalm
<1>4. ASSUME NEW p \in Pages, Listen(p) PROVE \A q \in Pages : Calm(q)
  <2>. DEFINE v == [page[p] EXCEPT !.source = "asking", !.last = 0]
  <2>1. v.last = 0 /\ v.source = "asking" /\ page[p].source = "none"
    BY <1>4, PageRecords DEF Page, Listen
  <2>2. page' = [page EXCEPT ![p] = v]
    BY <1>4, PageRecords DEF Listen
  <2>. HIDE DEF v
  <2>. QED
    BY <2>1, <2>2, OneCalm
<1>5. ASSUME NEW p \in Pages, OverBudget(p) \/ \E k \in Streams : Admit(p, k)
      PROVE  \A q \in Pages : Calm(q)
  <2>1. page' = page \/ page' = [page EXCEPT ![p].source = "refused"]
    BY <1>5 DEF OverBudget, Admit, Refused
  <2>2. CASE page' = [page EXCEPT ![p].source = "refused"]
    BY <2>2, NewSourceIsCalm
  <2>. QED
    BY <1>1, <2>1, <2>2
<1>6. ASSUME NEW k \in Streams, Break(k) PROVE \A q \in Pages : Calm(q)
  <2>1. stream[k].page \in Pages /\ page' = [page EXCEPT ![stream[k].page].source = "asking"]
    BY <1>6, StreamFacts DEF Break
  <2>. QED
    BY <2>1, NewSourceIsCalm
<1>7. CASE RunStep \/ Lapse \/ EndSession \/ UNCHANGED vars
  <2>1. page' = page
    BY <1>7 DEF RunStep, Lapse, EndSession, vars
  <2>. QED
    BY <1>1, <2>1
<1>8. CASE Next
  <2>1. ASSUME NEW p \in Pages,
               \/ \E s \in Searches : OpenPage(p, s)
               \/ DetailStep(p) \/ Focus(p) \/ Cancel(p) \/ Listen(p)
               \/ \E k \in Streams : Admit(p, k)
        PROVE  \A q \in Pages : Calm(q)
    <3>1. CASE DetailStep(p)
      BY <3>1, DetailIsCalm
    <3>2. CASE Listen(p)
      BY <1>4, <3>2
    <3>3. CASE Focus(p) \/ Cancel(p)
      BY <1>3, <3>3
    <3>4. CASE \E k \in Streams : Admit(p, k)
      BY <1>5, <3>4
    <3>5. CASE \E s \in Searches : OpenPage(p, s)
      BY <1>2, <3>5
    <3>. QED
      BY <2>1, <3>1, <3>2, <3>3, <3>4, <3>5
  <2>2. ASSUME NEW p \in Pages, FetchFails(p) \/ OverBudget(p) \/ Reload(p)
        PROVE  \A q \in Pages : Calm(q)
    <3>1. CASE FetchFails(p)
      BY <1>3, <3>1
    <3>2. CASE OverBudget(p)
      BY <1>5, <3>2
    <3>3. CASE Reload(p)
      BY <1>2, <3>3
    <3>. QED
      BY <2>2, <3>1, <3>2, <3>3
  <2>3. ASSUME NEW k \in Streams, StreamStep(k)
        PROVE  Deliver(k) \/ \A q \in Pages : Calm(q)
    BY <2>3, StreamIsCalm
  <2>4. \/ RunStep \/ Lapse \/ EndSession
        \/ \E p \in Pages :
             \/ \E s \in Searches : OpenPage(p, s)
             \/ DetailStep(p) \/ Focus(p) \/ Cancel(p) \/ Listen(p)
             \/ \E k \in Streams : Admit(p, k)
        \/ \E k \in Streams : StreamStep(k)
        \/ \E p \in Pages : FetchFails(p) \/ OverBudget(p) \/ Reload(p)
        \/ \E k \in Streams : Break(k)
    BY <1>8 DEF Next
  <2>. QED
    BY <1>6, <1>7, <2>1, <2>2, <2>3, <2>4
<1>. QED
  BY <1>7, <1>8

-----------------------------------------------------------------------------
(* Theorems *)

\* Every reachable state is typed; in particular the owner never holds more streams
\* than the cap, though requests pass the first look at it together.
THEOREM PageTypeCorrect == Spec => []PageTypeOK
<1>1. Inv => PageTypeOK
  BY DEF Inv
<1>. QED
  BY <1>1, InvCorrect, PTL

\* The detail is answered by two queries, the run before the postings: a page that
\* shows a finished run shows all of its postings.
THEOREM FinishedPageIsCompleteHolds == Spec => []FinishedPageIsComplete
<1>1. Inv => FinishedPageIsComplete
  BY InvFacts, ClosedFacts DEF FinishedPageIsComplete, PageGood, AnswerOK
<1>. QED
  BY <1>1, InvCorrect, PTL

\* The progress a stream hands to its page is the event after the last one heard.
LEMMA DeliveredIsNext ==
  ASSUME Inv, NEW k \in Streams, Deliver(k), Head(stream[k].wire).kind = "progress"
  PROVE  Head(stream[k].wire).id = page[stream[k].page].last + 1
<1>. DEFINE w == stream[k]
<1>1. w.wire \in Seq(Message) /\ w.wire # <<>> /\ WireOK(w, page[w.page])
  BY StreamFacts DEF Deliver
<1>2. Head(w.wire) = w.wire[1] /\ 1 \in 1..Len(w.wire)
  BY <1>1, EmptySeq
<1>. QED
  BY <1>1, <1>2 DEF WireOK

\* An EventSource hears every event of the run once and in order, over as many
\* connections as it takes (what is delivered is the event after the last one heard,
\* and only a new EventSource starts again), and is told that the run is over only
\* after the last: an outcome logged between two reads of the handler is not skipped.
THEOREM StreamTellsAllHolds == Spec => StreamTellsAll
<1>. DEFINE A(q) == /\ page'[q].last # page[q].last =>
                         \/ page'[q].last = page[q].last + 1
                         \/ page'[q].last = 0 /\ "none" \in {page[q].source, page'[q].source}
                    /\ page'[q].source = "settled" /\ page[q].source # "settled" =>
                         Runs!Closed(page[q].run) /\ page[q].last = Len(log[page[q].run])
            B == \A p \in Pages : A(p)
            D == \A k \in Streams :
                   Deliver(k) /\ Head(stream[k].wire).kind = "progress" =>
                     Head(stream[k].wire).id = page[stream[k].page].last + 1
<1>1. Inv /\ [Next]_vars => [B]_vars
  <2>. SUFFICES ASSUME Inv, [Next]_vars PROVE B
    OBVIOUS
  <2>1. CASE \A q \in Pages : Calm(q)
    BY <2>1 DEF Calm
  <2>2. ASSUME NEW k \in Streams, Deliver(k) PROVE B
    <3>. DEFINE w == stream[k]
                p == w.page
                m == Head(w.wire)
    <3>0. /\ w.wire \in Seq(Message) /\ w.wire # <<>> /\ p \in Pages
          /\ WireOK(w, page[p]) /\ SaidOK(log, w) /\ page \in [Pages -> Page]
          /\ page' = [page EXCEPT ![p] = Heard(p, m)]
      BY <2>2, StreamFacts DEF Deliver
    <3>1. /\ page'[p] = Heard(p, m) /\ \A q \in Pages \ {p} : page'[q] = page[q]
      BY <3>0
    <3>2. Len(w.wire) \in Nat \ {0} /\ m = w.wire[1] /\ m \in Message
      BY <3>0, EmptySeq, HeadTailProperties
    <3>3. 1 \in 1..Len(w.wire)
      BY <3>2
    <3>4. page[p].last \in Nat
      BY <3>0, PageFacts DEF MaxLog
    <3>. HIDE DEF m, p
    <3>5. A(p)
      <4>1. CASE m.kind = "progress"
        <5>1. m.id = page[p].last + 1
          BY <3>0, <3>2, <3>3, <4>1 DEF WireOK, p
        <5>2. Heard(p, m).last = m.id /\ Heard(p, m).source = page[p].source
          BY <3>0, <4>1, PageRecords DEF Heard, Page
        <5>. QED
          BY <3>1, <5>1, <5>2
      <4>2. CASE m.kind = "settled"
        <5>1. Heard(p, m).last = page[p].last
          BY <3>0, <4>2, PageRecords DEF Heard, Page
        <5>2. 1 = Len(w.wire)
          BY <3>0, <3>2, <3>3, <4>2 DEF WireOK
        <5>3. Spoken(w.wire)
          BY <3>0, <3>2, <4>2, <5>2 DEF Spoken
        <5>4. w.cursor + 1 = page[p].last + 1 /\ page[p].run = w.run
          BY <3>0, <5>2, <5>3 DEF WireOK, p
        <5>5. ClosedIn(log, w.run) /\ w.cursor = Len(log[w.run])
          BY <3>0, <3>2, <3>3, <4>2 DEF SaidOK
        <5>6. w.cursor \in Nat
          BY StreamFacts DEF Stream, MaxLog
        <5>7. w.cursor = page[p].last
          BY <3>4, <5>4, <5>6
        <5>. QED
          BY <3>1, <5>1, <5>4, <5>5, <5>7, ClosedFacts
      <4>3. CASE m.kind = "expired"
        <5>1. Heard(p, m).last = 0 /\ Heard(p, m).source = "none"
          BY <4>3, NewPageType DEF Heard, Page
        <5>. QED
          BY <3>1, <5>1
      <4>. QED
        BY <3>2, <4>1, <4>2, <4>3 DEF Message
    <3>. QED
      BY <3>1, <3>5
  <2>. HIDE DEF B
  <2>. QED
    BY <2>1, <2>2, NextIsCalm
<1>2. Inv => D
  BY DeliveredIsNext
<1>. QED
  BY <1>1, <1>2, InvCorrect, PTL DEF Spec, StreamTellsAll

\* Whatever the pages and the streams do, the searches are those of RunLifecycle:
\* of all that a page does only its cancellation is a step of a search.
THEOREM PagesKeepTheLifecycle == Spec => Runs!Spec
<1>1. Init => Runs!Init
  BY DEF Init
<1>2. Inv /\ [Next]_vars => [Runs!Next]_(Runs!vars)
  <2>. SUFFICES ASSUME Inv, [Next]_vars PROVE Runs!Next \/ UNCHANGED Runs!vars
    BY DEF Runs!vars
  <2>1. CASE UNCHANGED runVars
    BY <2>1 DEF runVars, Runs!vars
  <2>2. CASE RunStep
    BY <2>2, EndingsAssumption DEF RunStep, Runs!Next
  <2>3. ASSUME NEW p \in Pages, Cancel(p) PROVE Runs!Next
    <3>1. page[p].run \in Searches
      BY <2>3, PageFacts DEF Cancel, Looking
    <3>2. "SearchCancelled" \in Runs!Outcomes /\ {} \in SUBSET Fingerprints
      BY DEF Runs!Outcomes
    <3>. QED
      BY <2>3, <3>1, <3>2 DEF Cancel, Runs!Next
  <2>4. ASSUME NEW p \in Pages,
               \/ \E s \in Searches : OpenPage(p, s)
               \/ DetailStep(p) \/ Focus(p) \/ Listen(p)
               \/ \E k \in Streams : Admit(p, k)
               \/ FetchFails(p) \/ OverBudget(p) \/ Reload(p)
        PROVE  UNCHANGED runVars
    BY <2>4 DEF OpenPage, DetailStep, Poll, Refresh, ReadRun, ReadJobs, ShowDetail, Focus,
       Listen, Admit, FetchFails, OverBudget, Reload
  <2>5. ASSUME NEW k \in Streams, StreamStep(k) \/ Break(k) PROVE UNCHANGED runVars
    BY <2>5 DEF StreamStep, Accept, Watch, ReadEvents, ReadStatus, ReadPending, Abort, End,
       HungUp, Deliver, Break
  <2>6. ASSUME Lapse \/ EndSession \/ UNCHANGED vars PROVE UNCHANGED runVars
    BY <2>6 DEF Lapse, EndSession, vars, runVars
  <2>. QED
    BY <2>1, <2>2, <2>3, <2>4, <2>5, <2>6 DEF Next
<1>. QED
  BY <1>1, <1>2, InvCorrect, PTL DEF Spec, Runs!Spec
=============================================================================
