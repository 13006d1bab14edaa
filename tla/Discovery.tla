----------------------------- MODULE Discovery -----------------------------
(***************************************************************************)
(* The collection of one search: collect() of the search worker, the walk  *)
(* of a source's boards or pages (providers/ats/base.ts, remote/base.ts),  *)
(* the retries of the HTTP client under it, and dedupeJobs().              *)
(*                                                                         *)
(* One process: a step is what it does between two awaits.  While it waits *)
(* the timer of the source, the timer of the run, or whoever cancels the   *)
(* run, can abort it; what the boards answer is up to them.                *)
(*                                                                         *)
(* A posting is the board's own id for it.  That its title, company and    *)
(* city resemble those of another is in Resemblance: the fingerprint.      *)
(***************************************************************************)
EXTENDS Naturals, FiniteSets, Sequences

CONSTANTS
  Postings,      \* what the boards carry
  Sources,       \* the sources of the search, in the order they are asked in
  SourceOf,      \* SourceOf[p]: the board or feed that has p
  Resemblance,   \* Resemblance[p]: the hash of title, company and city
  BoardSources,  \* sources walked company by company; the others are feeds
  Thin,          \* postings that come without their description
  Unreadable,    \* postings with a field on which the parser of the adapter throws
  NoPosting,
  Parts,         \* companies of a board source; pages of a feed that are read
  Retries,       \* 1
  Cap,           \* postings of a source, and jobs of a run: 100
  Share,         \* postings a board adds to the allowance of its source
  Details        \* descriptions fetched for a source: 20

ASSUME NullsAssumption == NoPosting \notin Postings
ASSUME PostingsAssumption == IsFiniteSet(Postings)
ASSUME UnreadableAssumption == Unreadable \subseteq Postings
ASSUME BoundsAssumption ==
  /\ Sources \in Seq(STRING) /\ Len(Sources) > 0
  /\ {Parts, Cap, Share} \subseteq Nat \ {0}
  /\ {Retries, Details} \subseteq Nat

VARIABLES
  pc,         \* where the collection stands
  source,     \* index of the source that is asked
  part,       \* its board or page
  attempt,    \* retries of the request that is out
  page,       \* postings of the part not looked at yet
  item,       \* the posting whose description is being fetched
  count,      \* counters and error of the source
  over,       \* what has been aborted: "source", "run"
  kept,       \* postings collected, of every source
  outcome,    \* outcome[i] of the i-th source
  result,     \* the jobs, when the collection has returned
  trouble     \* history: sources that something went wrong with

vars == <<pc, source, part, attempt, page, item, count, over, kept, outcome, result, trouble>>

-----------------------------------------------------------------------------
(* Duplicates *)

\* A job of the result: its fingerprint, and the postings merged into it.
Merged(S) == [id |-> <<Resemblance[CHOOSE p \in S : TRUE]>>, of |-> S]

\* The hash of the fingerprint, the source and the board's own id.
Disambiguated(p) == [id |-> <<Resemblance[p], SourceOf[p], p>>, of |-> {p}]

\* Mutant: postings of one source are thought to be one posting seen twice.
NeverSplit(S) == FALSE

\* One source reports two ids under the fingerprint.
Split(S) == \E p, q \in S : p # q /\ SourceOf[p] = SourceOf[q]

ResolveGroup(S) == IF Split(S) THEN {Disambiguated(p) : p \in S} ELSE {Merged(S)}

Groups(S) == {{q \in S : Resemblance[q] = Resemblance[p]} : p \in S}

DedupeJobs(S) == UNION {ResolveGroup(G) : G \in Groups(S)}

Least(a, b) == IF a <= b THEN a ELSE b

\* The best 100 by score; the scores are not modelled.
BestOf(J) == {B \in SUBSET J : Cardinality(B) = Least(Cardinality(J), Cap)}

-----------------------------------------------------------------------------
Errors == {"none", "source_failed", "source_timeout", "invalid_response"}

Outcome == [status : {"none", "completed", "empty", "failed"}, limited : BOOLEAN,
            accepted : 0..Cap, error : Errors]

NoOutcome == [status |-> "none", limited |-> FALSE, accepted |-> 0, error |-> "none"]

\* allowance: what a board may still add; yielded: what the walk gave.
Counts == [allowance : 0..(Parts * Share), yielded : 0..Cap, collected : 0..Cap,
           detailed : 0..Details, skipped : 0..Cap, limited : BOOLEAN, error : Errors]

NoCounts == [allowance |-> 0, yielded |-> 0, collected |-> 0, detailed |-> 0, skipped |-> 0,
             limited |-> FALSE, error |-> "none"]

Ids == {<<Resemblance[p]>> : p \in Postings}
       \union {<<Resemblance[p], SourceOf[p], p>> : p \in Postings}

DiscoveryTypeOK ==
  /\ pc \in {"part", "fetch", "yield", "detail", "end", "merge", "returned", "thrown"}
  /\ source \in 1..Len(Sources)
  /\ part \in 1..(Parts + 2)
  /\ attempt \in 0..Retries
  /\ page \subseteq Postings
  /\ item \in Postings \union {NoPosting}
  /\ count \in Counts
  /\ over \subseteq {"source", "run"}
  /\ kept \subseteq Postings
  /\ outcome \in [DOMAIN Sources -> Outcome]
  /\ result \subseteq [id : Ids, of : SUBSET Postings]
  /\ trouble \subseteq DOMAIN Sources

\* The request has a title and its providers are those of its sources, or nothing
\* is asked: createSearch and the worker have seen to both.
Init ==
  /\ pc = "part"
  /\ source = 1 /\ part = 1 /\ attempt = 0
  /\ page = {} /\ item = NoPosting
  /\ count = NoCounts
  /\ over = {}
  /\ kept = {}
  /\ outcome = [i \in DOMAIN Sources |-> NoOutcome]
  /\ result = {}
  /\ trouble = {}

Walking == pc \in {"part", "fetch", "yield", "detail"}
IsBoard == Sources[source] \in BoardSources

Trouble == trouble' = trouble \union {source}
Fails(error) == count' = [count EXCEPT !.error = error]

\* The slice of time of the source is used up.
ExpireSource ==
  /\ Walking /\ over = {}
  /\ over' = {"source"}
  /\ Trouble
  /\ UNCHANGED <<pc, source, part, attempt, page, item, count, kept, outcome, result>>

\* The minute of the run is, or the run is cancelled.
ExpireRun ==
  /\ Walking /\ "run" \notin over
  /\ over' = {"source", "run"}
  /\ UNCHANGED <<pc, source, part, attempt, page, item, count, kept, outcome, result,
                 trouble>>

-----------------------------------------------------------------------------
(* The walk of a source.  It stops without a word when it is aborted. *)

Goes(where) ==
  /\ pc' = where
  /\ UNCHANGED <<source, item, over, kept, outcome, result>>

Exhausted == Parts + 2

\* A feed that goes on after the last page that is read says that it was cut off.
Cut == ~IsBoard /\ part = Parts + 1 /\ count.yielded < Cap

\* The next board, unless the source has enough; the next page of a feed.
NextPart ==
  /\ pc = "part"
  /\ IF over # {} \/ count.yielded >= Cap \/ part > Parts
     THEN /\ Goes("end")
          /\ count' = [count EXCEPT !.limited = @ \/ Cut]
          /\ UNCHANGED attempt
     ELSE /\ Goes("fetch")
          /\ count' = IF IsBoard THEN [count EXCEPT !.allowance = @ + Share] ELSE count
          /\ attempt' = 0
  /\ UNCHANGED <<part, page, trouble>>

\* Mutant: the postings the source has given already are forgotten.
RoomOfShare == IF IsBoard THEN count.allowance ELSE Cap

Room == IF IsBoard THEN Least(count.allowance, Cap - count.yielded) ELSE Cap - count.yielded

\* An answer carries some postings of the source.  Those the adapter cannot read
\* are dropped, with a word in the log for debugging that collect() does not heed;
\* of the others it has what the query wants and there is room for.  A company
\* that is gone is an empty board; a feed ends with an empty page.
Answered ==
  /\ pc = "fetch"
  /\ Goes("yield")
  /\ page' \in {S \in SUBSET {p \in Postings \ Unreadable : SourceOf[p] = Sources[source]} :
                  Cardinality(S) <= Room}
  /\ part' \in {part + 1} \union (IF IsBoard THEN {} ELSE {Exhausted})
  /\ count' = [count EXCEPT !.yielded = @ + Cardinality(page'),
                            !.allowance = IF IsBoard THEN @ - Cardinality(page') ELSE 0]
  /\ UNCHANGED <<attempt, trouble>>

\* A transient status, a network error or no answer in time: tried again.
Retry ==
  /\ pc = "fetch"
  /\ attempt < Retries
  /\ attempt' = attempt + 1
  /\ Goes("fetch")
  /\ UNCHANGED <<part, page, count, trouble>>

\* Mutant: the page of a feed that failed is asked for again.
SamePage == IF IsBoard THEN part + 1 ELSE part

AfterFailure == IF IsBoard THEN part + 1 ELSE Exhausted

\* A definite failure, or the last attempt.  A board is skipped, a feed is over.
FetchFails ==
  /\ pc = "fetch"
  /\ Goes("part")
  /\ part' = AfterFailure
  /\ Fails("source_failed")
  /\ Trouble
  /\ UNCHANGED <<attempt, page>>

\* The request is aborted: the walk ends, and nobody says why.
FetchAborted ==
  /\ pc = "fetch" /\ over # {}
  /\ Goes("end")
  /\ UNCHANGED <<part, attempt, page, count, trouble>>

-----------------------------------------------------------------------------
(* The loop over what the walk yields *)

Accept(p) ==
  /\ kept' = kept \union {p}
  /\ count' = [count EXCEPT !.collected = @ + 1]
  /\ UNCHANGED trouble

\* A posting with a field that is missing or malformed.
Refuse ==
  /\ count' = [count EXCEPT !.skipped = @ + 1]
  /\ Trouble
  /\ UNCHANGED kept

Wanted(p) == p \in Thin /\ count.detailed < Details

Look(p) ==
  /\ page' = page \ {p}
  /\ IF Wanted(p)
     THEN /\ pc' = "detail" /\ item' = p
          /\ count' = [count EXCEPT !.detailed = @ + 1]
          /\ UNCHANGED <<kept, trouble>>
     ELSE (Accept(p) \/ Refuse) /\ UNCHANGED <<pc, item>>
  /\ UNCHANGED <<source, part, attempt, over, outcome, result>>

\* The loop stops at the cap or when the source is aborted.
Yield ==
  /\ pc = "yield"
  /\ IF count.collected >= Cap \/ (page # {} /\ over # {})
     THEN Goes("end") /\ UNCHANGED <<part, attempt, page, count, trouble>>
     ELSE IF page = {}
     THEN Goes("part") /\ UNCHANGED <<part, attempt, page, count, trouble>>
     ELSE \E p \in page : Look(p)

\* A description that could not be fetched: the posting is kept without.
DetailFails ==
  /\ "run" \notin over
  /\ kept' = kept \union {item}
  /\ count' = [count EXCEPT !.collected = @ + 1,
                            !.error = IF over = {} THEN "source_failed" ELSE "source_timeout"]
  /\ Trouble

\* Or the run is over by now, and the exception counts as a malformed posting.
Detail ==
  /\ pc = "detail"
  /\ Accept(item) \/ Refuse \/ DetailFails
  /\ pc' = "yield" /\ item' = NoPosting
  /\ UNCHANGED <<source, part, attempt, page, over, outcome, result>>

-----------------------------------------------------------------------------
(* The outcome of the source, and of the collection *)

\* Mutant: an aborted walk ends like one that has no more.
ErrorOfWalk == IF count.skipped > 0 THEN "invalid_response" ELSE count.error

FinalError ==
  IF count.skipped > 0 THEN "invalid_response"
  ELSE IF over # {} THEN "source_timeout"
  ELSE count.error

SourceOutcome ==
  [status |-> IF FinalError # "none" THEN "failed"
              ELSE IF count.collected = 0 THEN "empty" ELSE "completed",
   limited |-> count.limited \/ count.collected >= Cap,
   accepted |-> count.collected, error |-> FinalError]

\* From the end of one walk to the start of the next nothing is waited for.
EndSource ==
  /\ pc = "end"
  /\ IF "run" \in over
     THEN pc' = "thrown" /\ UNCHANGED <<source, part, count, over, outcome>>
     ELSE /\ outcome' = [outcome EXCEPT ![source] = SourceOutcome]
          /\ IF source < Len(Sources)
             THEN source' = source + 1 /\ part' = 1 /\ count' = NoCounts /\ over' = {}
                  /\ pc' = "part"
             ELSE pc' = "merge" /\ UNCHANGED <<source, part, count, over>>
  /\ page' = {} /\ attempt' = 0
  /\ UNCHANGED <<item, kept, result, trouble>>

Return ==
  /\ pc = "merge"
  /\ result' \in BestOf(DedupeJobs(kept))
  /\ pc' = "returned"
  /\ UNCHANGED <<source, part, attempt, page, item, count, over, kept, outcome, trouble>>

Step == \/ NextPart \/ Answered \/ Retry \/ FetchFails \/ FetchAborted \/ Yield
        \/ Detail \/ EndSource \/ Return

Next == ExpireSource \/ ExpireRun \/ Step

Spec == Init /\ [][Next]_vars

\* The process goes on, and every request is answered: it has a timeout.  That
\* the timers of the source and the run ever fire is not assumed.
FairSpec == Spec /\ WF_vars(Step)

-----------------------------------------------------------------------------
(* What a search promises *)

\* A source is reported as failed exactly when a request of it failed, a posting was
\* refused or its time cut it off; a posting its adapter cannot read is none of
\* these.  And a collection ends without a result only because the run itself was
\* over.
OutcomesAreHonest ==
  /\ \A i \in DOMAIN Sources :
       outcome[i].status # "none" => (outcome[i].status = "failed" <=> i \in trouble)
  /\ pc = "thrown" => "run" \in over

\* Openings that one source tells apart are never merged, and every posting that
\* was collected is in exactly one job, unless there are more jobs than may be
\* returned.
NoOpeningDropped ==
  pc = "returned" =>
    /\ \A j \in result : \A p, q \in j.of : SourceOf[p] = SourceOf[q] => p = q
    /\ \A j, k \in result : j.id = k.id \/ j.of \cap k.of # {} => j = k
    /\ Cardinality(result) < Cap => UNION {j.of : j \in result} = kept

\* A collection ends, whatever the boards answer.
CollectionEnds == (pc = "part") ~> (pc \in {"returned", "thrown"})

=============================================================================
