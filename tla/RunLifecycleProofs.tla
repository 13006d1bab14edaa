------------------------- MODULE RunLifecycleProofs -------------------------
(***************************************************************************)
(* What an owner may rely on who knows of a search only what RunLifecycle  *)
(* says.  Whoever implements RunLifecycle keeps it: the tables, the        *)
(* running system, and the searches a page looks at.                       *)
(***************************************************************************)
EXTENDS RunLifecycle, Naturals, SequenceTheorems, TLAPS

Event == {"SearchQueued", "SearchStarted"} \union Outcomes

LogsTyped == log \in [Searches -> Seq(Event)] /\ found \in [Searches -> SUBSET Fingerprints]

\* A log has one outcome at most, and nothing comes after it.
OneOutcome ==
  \A s \in Searches : \A i \in 1..Len(log[s]) : log[s][i] \in Outcomes => i = Len(log[s])

\* Postings are seen only of a search whose log ends with a success, in full or in part.
PostingsOfSuccess ==
  \A s \in Searches :
    found[s] # {} => log[s] # <<>> /\ Last(log[s]) \in {"SearchCompleted", "SearchPartial"}

\* What was once read of a log is never changed: a reader who keeps the position it has
\* got to loses nothing, and what it has of a closed search is all there will be.
ReadIsKept ==
  [][\A s \in Searches :
       /\ \A i \in 1..Len(log[s]) : i \in 1..Len(log'[s]) /\ log'[s][i] = log[s][i]
       /\ Closed(s) => log'[s] = log[s] /\ found'[s] = found[s]]_vars

Inv == LogsTyped /\ OneOutcome /\ PostingsOfSuccess

-----------------------------------------------------------------------------
(* The one way a log changes *)

\* A log that is not closed gets one event more.
Extends(s, e) ==
  /\ e \in Event
  /\ ~Closed(s)
  /\ log' = [log EXCEPT ![s] = Append(log[s], e)]

LEMMA AppendedLog ==
  ASSUME NEW q \in Seq(Event), NEW e \in Event
  PROVE  /\ Append(q, e) \in Seq(Event) /\ Append(q, e) # <<>>
         /\ Len(q) \in Nat /\ Len(Append(q, e)) = Len(q) + 1
         /\ \A i \in 1..Len(q) : Append(q, e)[i] = q[i]
         /\ Last(Append(q, e)) = e
         /\ q # <<>> => Len(q) > 0
<1>1. /\ Append(q, e) \in Seq(Event)
      /\ Len(q) \in Nat /\ Len(Append(q, e)) = Len(q) + 1
      /\ \A i \in 1..Len(q) : Append(q, e)[i] = q[i]
      /\ Append(q, e)[Len(q) + 1] = e
  BY AppendProperties
<1>2. q # <<>> => Len(q) > 0
  BY EmptySeq
<1>3. Append(q, e) # <<>>
  BY AppendProperties
<1> QED BY <1>1, <1>2, <1>3 DEF Last

\* What a step does: a search is submitted or started, or it is closed with what it found.
LEMMA StepsExtend ==
  ASSUME LogsTyped, NEW s \in Searches,
         \/ Submit(s) \/ Start(s)
         \/ \E outcome \in Outcomes, postings \in SUBSET Fingerprints :
              Close(s, outcome, postings)
  PROVE  \E e \in Event, postings \in SUBSET Fingerprints :
           /\ Extends(s, e)
           /\ found' = [found EXCEPT ![s] = postings]
           /\ \/ postings = found[s] /\ e \notin Outcomes /\ log[s] \in {<<>>, <<"SearchQueued">>}
              \/ /\ e \in Outcomes
                 /\ postings # {} => e \in {"SearchCompleted", "SearchPartial"}
<1> USE DEF Outcomes, Event
<1>0. found[s] \in SUBSET Fingerprints /\ found = [found EXCEPT ![s] = found[s]]
  BY DEF LogsTyped
<1>1. CASE Submit(s)
  <2>1. Append(<<>>, "SearchQueued") = <<"SearchQueued">>
    OBVIOUS
  <2>2. Extends(s, "SearchQueued")
    BY <1>1, <2>1 DEF Submit, Extends, Closed
  <2> QED BY <1>0, <1>1, <2>2 DEF Submit
<1>2. CASE Start(s)
  <2>1. Last(<<"SearchQueued">>) = "SearchQueued"
    BY DEF Last
  <2>2. Extends(s, "SearchStarted")
    BY <1>2, <2>1 DEF Start, Extends, Closed
  <2> QED BY <1>0, <1>2, <2>2 DEF Start
<1>3. CASE \E outcome \in Outcomes, postings \in SUBSET Fingerprints :
             Close(s, outcome, postings)
  <2>1. PICK outcome \in Outcomes, postings \in SUBSET Fingerprints :
               Close(s, outcome, postings)
    BY <1>3
  <2>2. Extends(s, outcome)
    BY <2>1 DEF Close, Extends, Open, Closed
  <2> QED BY <2>1, <2>2 DEF Close
<1> QED BY <1>1, <1>2, <1>3

LEMMA InitInv == Init => Inv
BY DEF Init, Inv, LogsTyped, OneOutcome, PostingsOfSuccess

LEMMA NextInv ==
  ASSUME Inv, Next
  PROVE  /\ Inv'
         /\ \A s \in Searches :
              /\ \A i \in 1..Len(log[s]) : i \in 1..Len(log'[s]) /\ log'[s][i] = log[s][i]
              /\ Closed(s) => log'[s] = log[s] /\ found'[s] = found[s]
<1>0. LogsTyped /\ OneOutcome /\ PostingsOfSuccess
  BY DEF Inv
<1>1. PICK s \in Searches, e \in Event, postings \in SUBSET Fingerprints :
        /\ Extends(s, e)
        /\ found' = [found EXCEPT ![s] = postings]
        /\ \/ postings = found[s] /\ e \notin Outcomes /\ log[s] \in {<<>>, <<"SearchQueued">>}
           \/ /\ e \in Outcomes
              /\ postings # {} => e \in {"SearchCompleted", "SearchPartial"}
  BY <1>0, StepsExtend DEF Next
<1>2. \A t \in Searches \ {s} : log'[t] = log[t] /\ found'[t] = found[t]
  BY <1>0, <1>1 DEF Extends, LogsTyped
<1>3. log[s] \in Seq(Event) /\ log'[s] = Append(log[s], e) /\ found'[s] = postings
      /\ ~Closed(s)
  BY <1>0, <1>1 DEF Extends, LogsTyped
<1>4. /\ log'[s] \in Seq(Event) /\ log'[s] # <<>>
      /\ Len(log[s]) \in Nat /\ Len(log'[s]) = Len(log[s]) + 1
      /\ \A i \in 1..Len(log[s]) : log'[s][i] = log[s][i]
      /\ Last(log'[s]) = e
      /\ log[s] # <<>> => Len(log[s]) > 0
  BY <1>3, AppendedLog
<1>5. LogsTyped'
  BY <1>0, <1>1, <1>3, <1>4 DEF LogsTyped, Extends
<1>6. OneOutcome'
  <2>1. \A t \in Searches \ {s} : \A i \in 1..Len(log'[t]) :
          log'[t][i] \in Outcomes => i = Len(log'[t])
    BY <1>0, <1>2 DEF OneOutcome
  <2>2. ASSUME NEW i \in 1..Len(log'[s]), log'[s][i] \in Outcomes
        PROVE  i = Len(log'[s])
    <3>1. CASE i \in 1..Len(log[s])
      <4>1. log[s][i] \in Outcomes
        BY <1>4, <2>2, <3>1
      <4>2. i = Len(log[s])
        BY <1>0, <3>1, <4>1 DEF OneOutcome
      <4>3. Closed(s)
        BY <1>4, <3>1, <4>1, <4>2, EmptySeq DEF Closed, Last
      <4> QED BY <1>3, <4>3
    <3>2. CASE i \notin 1..Len(log[s])
      BY <1>4, <3>2
    <3> QED BY <3>1, <3>2
  <2> QED BY <2>1, <2>2 DEF OneOutcome
<1>7. PostingsOfSuccess'
  <2>1. found'[s] # {} => Last(log'[s]) \in {"SearchCompleted", "SearchPartial"}
    <3>1. CASE postings = found[s] /\ log[s] \in {<<>>, <<"SearchQueued">>}
      <4>1. Last(<<"SearchQueued">>) = "SearchQueued"
        BY DEF Last
      <4>2. log[s] = <<>> \/ Last(log[s]) = "SearchQueued"
        BY <3>1, <4>1
      <4>3. found[s] = {}
        BY <1>0, <4>2 DEF PostingsOfSuccess
      <4> QED BY <1>3, <3>1, <4>3
    <3>2. CASE postings # {} => e \in {"SearchCompleted", "SearchPartial"}
      BY <1>3, <1>4, <3>2
    <3> QED BY <1>1, <3>1, <3>2
  <2> QED BY <1>0, <1>2, <1>4, <2>1 DEF PostingsOfSuccess, Last
<1>8. ASSUME NEW t \in Searches
      PROVE  /\ \A i \in 1..Len(log[t]) : i \in 1..Len(log'[t]) /\ log'[t][i] = log[t][i]
             /\ Closed(t) => log'[t] = log[t] /\ found'[t] = found[t]
  <2>1. CASE t = s
    BY <1>3, <1>4, <2>1
  <2>2. CASE t # s
    BY <1>2, <2>2
  <2> QED BY <2>1, <2>2
<1> QED BY <1>5, <1>6, <1>7, <1>8 DEF Inv

LEMMA InvCorrect == Spec => []Inv
<1>1. Inv /\ UNCHANGED vars => Inv'
  BY DEF Inv, LogsTyped, OneOutcome, PostingsOfSuccess, Last, vars
<1> QED BY <1>1, InitInv, NextInv, PTL DEF Spec

-----------------------------------------------------------------------------
(* What is promised *)

\* A search is told one outcome at most, as its last event.
THEOREM OutcomeIsLast == Spec => []OneOutcome
<1>1. Inv => OneOutcome
  BY DEF Inv
<1> QED BY <1>1, InvCorrect, PTL

\* A search that failed, was cancelled or is not over shows no posting.
THEOREM OnlySuccessShows == Spec => []PostingsOfSuccess
<1>1. Inv => PostingsOfSuccess
  BY DEF Inv
<1> QED BY <1>1, InvCorrect, PTL

\* Events are only added, and only until the outcome; the postings come with it.
THEOREM ReadingIsFinal == Spec => ReadIsKept
<1> DEFINE Kept ==
      \A s \in Searches :
        /\ \A i \in 1..Len(log[s]) : i \in 1..Len(log'[s]) /\ log'[s][i] = log[s][i]
        /\ Closed(s) => log'[s] = log[s] /\ found'[s] = found[s]
<1>1. Inv /\ [Next]_vars => [Kept]_vars
  BY NextInv
<1> QED BY <1>1, InvCorrect, PTL DEF Spec, ReadIsKept
=============================================================================
