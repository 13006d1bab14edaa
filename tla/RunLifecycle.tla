---------------------------- MODULE RunLifecycle ----------------------------
(***************************************************************************)
(* What a search promises to its owner, without commands, leases, queues   *)
(* or workers.  A search is known by the log of events its owner can read  *)
(* (the rows of run_events) and by the postings it found.  The log starts  *)
(* when the search is submitted, is closed by exactly one outcome, and the *)
(* postings appear together with that outcome or not at all.               *)
(***************************************************************************)
EXTENDS Sequences

CONSTANTS
  Searches,       \* the searches that may ever be submitted
  Fingerprints    \* what a posting is known by

VARIABLES
  log,            \* log[s]: the events of search s, oldest first
  found           \* found[s]: the fingerprints of the postings s holds

vars == <<log, found>>

Outcomes == {"SearchCompleted", "SearchPartial", "SearchFailed", "SearchCancelled"}

Last(seq) == seq[Len(seq)]

\* A search that was submitted and has no outcome yet.
Open(s) == log[s] # <<>> /\ Last(log[s]) \notin Outcomes

Closed(s) == log[s] # <<>> /\ Last(log[s]) \in Outcomes

Init ==
  /\ log = [s \in Searches |-> <<>>]
  /\ found = [s \in Searches |-> {}]

Submit(s) ==
  /\ log[s] = <<>>
  /\ log' = [log EXCEPT ![s] = <<"SearchQueued">>]
  /\ UNCHANGED found

Start(s) ==
  /\ log[s] = <<"SearchQueued">>
  /\ log' = [log EXCEPT ![s] = Append(@, "SearchStarted")]
  /\ UNCHANGED found

\* Postings are published with the outcome, and only a search that succeeded
\* at least in part has any.
Close(s, outcome, postings) ==
  /\ Open(s)
  /\ postings # {} => outcome \in {"SearchCompleted", "SearchPartial"}
  /\ log' = [log EXCEPT ![s] = Append(@, outcome)]
  /\ found' = [found EXCEPT ![s] = postings]

Next ==
  \E s \in Searches :
    \/ Submit(s)
    \/ Start(s)
    \/ \E outcome \in Outcomes, postings \in SUBSET Fingerprints :
         Close(s, outcome, postings)

Spec == Init /\ [][Next]_vars

\* Nobody waits for ever: a submitted search gets an outcome.
EveryoneIsAnswered == \A s \in Searches : Open(s) ~> Closed(s)
=============================================================================
