--------------------------- MODULE DiscoveryProofs ---------------------------
(***************************************************************************)
(* Theorems about Discovery, for any number of sources, boards, pages and  *)
(* postings, any resemblance among them, and any cap, share and number of  *)
(* retries.                                                                *)
(***************************************************************************)
EXTENDS Discovery, FiniteSetTheorems, TLAPS

Gathered == count.collected + count.skipped + Cardinality(page)
            + (IF pc = "detail" THEN 1 ELSE 0)

\* Parts that have added their share to the allowance.
Opened == IF pc = "fetch" THEN part ELSE part - 1

\* Nothing is looked at twice and nothing is made up: what the loop has taken, refused
\* and still has before it is within what the walk gave, and that is within the cap.
WalkOK ==
  /\ pc \in {"part", "fetch"} => page = {}
  /\ pc = "fetch" => part <= Parts /\ count.yielded < Cap
  /\ pc = "detail" => item \in Postings
  /\ Walking => Gathered <= count.yielded /\ count.allowance <= Opened * Share

Open == Walking \/ pc = "end"

Troubled == over # {} \/ count.skipped > 0 \/ count.error # "none"

\* Something went wrong with the source that is asked, or the run is over.
Wrong == source \in trouble \/ "run" \in over

\* What went wrong with the source that is asked, and nothing else, is to be seen when
\* its outcome is told, and no outcome is told before.
TroubleOK ==
  /\ trouble \subseteq 1..source
  /\ Open => \A i \in DOMAIN Sources : i >= source => outcome[i].status = "none"
  /\ Open => (Wrong <=> Troubled)

Inv == DiscoveryTypeOK /\ WalkOK /\ TroubleOK /\ OutcomesAreHonest /\ NoOpeningDropped

-----------------------------------------------------------------------------
(* Sizes and bounds *)

LEMMA Bounds ==
  /\ Parts \in Nat \ {0} /\ Cap \in Nat \ {0} /\ Share \in Nat \ {0}
  /\ Retries \in Nat /\ Details \in Nat
  /\ Len(Sources) \in Nat \ {0} /\ DOMAIN Sources = 1..Len(Sources)
BY BoundsAssumption

LEMMA SharesAdd ==
  ASSUME NEW m \in Nat, NEW n \in Nat, m <= n
  PROVE  /\ m * Share \in Nat /\ n * Share \in Nat
         /\ m * Share <= n * Share
         /\ m * Share + Share = (m + 1) * Share
<1>1. Share \in Nat
  BY Bounds
<1>2. PICK d \in Nat : n = m + d
  <2>1. n - m \in Nat /\ n = m + (n - m)
    OBVIOUS
  <2> QED BY <2>1
<1>3. d * Share \in Nat /\ m * Share \in Nat
  BY <1>1
<1>4. n * Share = m * Share + d * Share
  BY <1>1, <1>2
<1>5. (m + 1) * Share = m * Share + Share
  BY <1>1
<1> QED BY <1>1, <1>3, <1>4, <1>5

LEMMA Subsets ==
  ASSUME NEW S \in SUBSET Postings
  PROVE  IsFiniteSet(S) /\ Cardinality(S) \in Nat
BY PostingsAssumption, FS_Subset, FS_CardinalityType

LEMMA OneLess ==
  ASSUME NEW S \in SUBSET Postings, NEW p \in S
  PROVE  Cardinality(S \ {p}) = Cardinality(S) - 1
BY Subsets, FS_RemoveElement

-----------------------------------------------------------------------------
(* Duplicates *)

GroupOf(S, p) == {q \in S : Resemblance[q] = Resemblance[p]}

\* The job a posting is found in.
JobOf(S, p) == IF Split(GroupOf(S, p)) THEN Disambiguated(p) ELSE Merged(GroupOf(S, p))

\* Every posting of a group has the fingerprint of the one the job is named after.
LEMMA MergedId ==
  ASSUME NEW S, NEW p \in S
  PROVE  Merged(GroupOf(S, p)).id = <<Resemblance[p]>>
<1>1. p \in GroupOf(S, p)
  BY DEF GroupOf
<1>2. (CHOOSE q \in GroupOf(S, p) : TRUE) \in GroupOf(S, p)
  BY <1>1
<1> QED BY <1>2 DEF GroupOf, Merged

LEMMA SameGroup ==
  ASSUME NEW S, NEW p \in S, NEW q \in S, Resemblance[p] = Resemblance[q]
  PROVE  GroupOf(S, p) = GroupOf(S, q)
BY DEF GroupOf

\* The jobs of S are those its postings are found in.
LEMMA JobsOfPostings ==
  ASSUME NEW S
  PROVE  DedupeJobs(S) = {JobOf(S, p) : p \in S}
<1>1. Groups(S) = {GroupOf(S, p) : p \in S}
  BY DEF Groups, GroupOf
<1>2. ASSUME NEW p \in S
      PROVE  \E G \in Groups(S) : JobOf(S, p) \in ResolveGroup(G)
  <2>1. GroupOf(S, p) \in Groups(S) /\ p \in GroupOf(S, p)
    BY <1>1 DEF GroupOf
  <2>2. JobOf(S, p) \in ResolveGroup(GroupOf(S, p))
    BY <2>1 DEF JobOf, ResolveGroup
  <2> QED BY <2>1, <2>2
<1>3. ASSUME NEW G \in Groups(S), NEW j \in ResolveGroup(G)
      PROVE  \E p \in S : j = JobOf(S, p)
  <2>1. PICK p \in S : G = GroupOf(S, p)
    BY <1>1
  <2>2. CASE Split(G)
    <3>1. PICK q \in G : j = Disambiguated(q)
      BY <2>2 DEF ResolveGroup
    <3>2. q \in S /\ GroupOf(S, q) = G
      BY <2>1, <3>1 DEF GroupOf
    <3> QED BY <2>2, <3>1, <3>2 DEF JobOf
  <2>3. CASE ~Split(G)
    <3>1. j = Merged(G)
      BY <2>3 DEF ResolveGroup
    <3> QED BY <2>1, <2>3, <3>1 DEF JobOf
  <2> QED BY <2>2, <2>3
<1> QED BY <1>2, <1>3 DEF DedupeJobs

LEMMA JobFields ==
  ASSUME NEW S, NEW p \in S
  PROVE  /\ p \in JobOf(S, p).of
         /\ JobOf(S, p).of \subseteq GroupOf(S, p)
         /\ JobOf(S, p).id = IF Split(GroupOf(S, p))
                             THEN <<Resemblance[p], SourceOf[p], p>> ELSE <<Resemblance[p]>>
         /\ \A q, r \in JobOf(S, p).of : SourceOf[q] = SourceOf[r] => q = r
<1>1. p \in GroupOf(S, p)
  BY DEF GroupOf
<1>2. CASE Split(GroupOf(S, p))
  BY <1>1, <1>2 DEF JobOf, Disambiguated
<1>3. CASE ~Split(GroupOf(S, p))
  <2>1. JobOf(S, p) = Merged(GroupOf(S, p))
    BY <1>3 DEF JobOf
  <2>2. JobOf(S, p).of = GroupOf(S, p)
    BY <2>1 DEF Merged
  <2>3. JobOf(S, p).id = <<Resemblance[p]>>
    BY <2>1, MergedId
  <2>4. \A q, r \in GroupOf(S, p) : SourceOf[q] = SourceOf[r] => q = r
    BY <1>3 DEF Split
  <2> QED BY <1>1, <1>3, <2>2, <2>3, <2>4
<1> QED BY <1>2, <1>3

\* The job of a posting is the job of all that it is made of.
LEMMA JobOfMember ==
  ASSUME NEW S, NEW p \in S, NEW q \in JobOf(S, p).of
  PROVE  q \in S /\ JobOf(S, q) = JobOf(S, p)
<1>1. q \in GroupOf(S, p)
  BY JobFields
<1>2. q \in S /\ Resemblance[q] = Resemblance[p]
  BY <1>1 DEF GroupOf
<1>3. GroupOf(S, q) = GroupOf(S, p)
  BY <1>2, SameGroup
<1>4. CASE Split(GroupOf(S, p))
  <2>1. JobOf(S, p) = Disambiguated(p)
    BY <1>4 DEF JobOf
  <2>2. q = p
    BY <2>1 DEF Disambiguated
  <2> QED BY <1>2, <2>2
<1>5. CASE ~Split(GroupOf(S, p))
  BY <1>2, <1>3, <1>5 DEF JobOf
<1> QED BY <1>4, <1>5

\* A posting's job is known by its id, although one of a feed may be merged and another
\* split under the same words.
LEMMA JobOfId ==
  ASSUME NEW S, NEW p \in S, NEW q \in S, JobOf(S, p).id = JobOf(S, q).id
  PROVE  JobOf(S, p) = JobOf(S, q)
<1> DEFINE a == Split(GroupOf(S, p))
           b == Split(GroupOf(S, q))
<1>1. JobOf(S, p).id = IF a THEN <<Resemblance[p], SourceOf[p], p>> ELSE <<Resemblance[p]>>
  BY JobFields
<1>2. JobOf(S, q).id = IF b THEN <<Resemblance[q], SourceOf[q], q>> ELSE <<Resemblance[q]>>
  BY JobFields
<1>3. CASE a /\ b
  <2>1. <<Resemblance[p], SourceOf[p], p>> = <<Resemblance[q], SourceOf[q], q>>
    BY <1>1, <1>2, <1>3
  <2>2. p = q
    BY <2>1
  <2> QED BY <2>2
<1>4. CASE ~a /\ ~b
  <2>1. <<Resemblance[p]>> = <<Resemblance[q]>>
    BY <1>1, <1>2, <1>4
  <2>2. Resemblance[p] = Resemblance[q]
    BY <2>1
  <2>3. GroupOf(S, p) = GroupOf(S, q)
    BY <2>2, SameGroup
  <2> QED BY <1>4, <2>3 DEF JobOf
<1>5. CASE a /\ ~b
  <2>1. <<Resemblance[p], SourceOf[p], p>> = <<Resemblance[q]>>
    BY <1>1, <1>2, <1>5
  <2>2. Len(<<Resemblance[p], SourceOf[p], p>>) = 3 /\ Len(<<Resemblance[q]>>) = 1
    OBVIOUS
  <2> QED BY <2>1, <2>2
<1>6. CASE ~a /\ b
  <2>1. <<Resemblance[p]>> = <<Resemblance[q], SourceOf[q], q>>
    BY <1>1, <1>2, <1>6
  <2>2. Len(<<Resemblance[q], SourceOf[q], q>>) = 3 /\ Len(<<Resemblance[p]>>) = 1
    OBVIOUS
  <2> QED BY <2>1, <2>2
<1> QED BY <1>3, <1>4, <1>5, <1>6

LEMMA JobsAreFinite ==
  ASSUME NEW S \in SUBSET Postings
  PROVE  IsFiniteSet(DedupeJobs(S)) /\ Cardinality(DedupeJobs(S)) \in Nat
<1> DEFINE T == {JobOf(S, p) : p \in S}
           f == [p \in S |-> JobOf(S, p)]
<1>1. f \in Surjection(S, T)
  BY DEF Surjection
<1>2. IsFiniteSet(T)
  BY <1>1, Subsets, FS_Surjection
<1>3. DedupeJobs(S) = T
  BY JobsOfPostings
<1> QED BY <1>2, <1>3, FS_CardinalityType

LEMMA JobType ==
  ASSUME NEW S \in SUBSET Postings, NEW p \in S
  PROVE  JobOf(S, p) \in [id : Ids, of : SUBSET Postings]
<1>1. p \in GroupOf(S, p) /\ GroupOf(S, p) \subseteq Postings
  BY DEF GroupOf
<1>2. CASE Split(GroupOf(S, p))
  <2>1. <<Resemblance[p], SourceOf[p], p>> \in Ids
    BY DEF Ids
  <2> QED BY <1>1, <1>2, <2>1 DEF JobOf, Disambiguated
<1>3. CASE ~Split(GroupOf(S, p))
  <2> DEFINE c == CHOOSE q \in GroupOf(S, p) : TRUE
  <2>1. c \in Postings
    BY <1>1
  <2>2. <<Resemblance[c]>> \in Ids
    BY <2>1 DEF Ids
  <2>3. JobOf(S, p) = [id |-> <<Resemblance[c]>>, of |-> GroupOf(S, p)]
    BY <1>3 DEF JobOf, Merged
  <2> HIDE DEF c
  <2> QED BY <1>1, <2>2, <2>3
<1> QED BY <1>2, <1>3

\* No two jobs are called the same or share a posting, and no job has two postings
\* of one source: dedupeJobs() tells apart what a source tells apart.
THEOREM JobsKeepOpeningsApart ==
  ASSUME NEW S, NEW j \in DedupeJobs(S)
  PROVE  /\ \A p, q \in j.of : SourceOf[p] = SourceOf[q] => p = q
         /\ \A k \in DedupeJobs(S) : j.id = k.id \/ j.of \cap k.of # {} => j = k
<1>1. PICK p \in S : j = JobOf(S, p)
  BY JobsOfPostings
<1>2. \A q, r \in j.of : SourceOf[q] = SourceOf[r] => q = r
  BY <1>1, JobFields
<1>3. ASSUME NEW k \in DedupeJobs(S), j.id = k.id \/ j.of \cap k.of # {}
      PROVE  j = k
  <2>1. PICK q \in S : k = JobOf(S, q)
    BY JobsOfPostings
  <2>2. CASE j.id = k.id
    BY <1>1, <2>1, <2>2, JobOfId
  <2>3. CASE j.of \cap k.of # {}
    <3>1. PICK r \in j.of : r \in k.of
      BY <2>3
    <3>2. JobOf(S, r) = j
      BY <1>1, <3>1, JobOfMember
    <3>3. JobOf(S, r) = k
      BY <2>1, <3>1, JobOfMember
    <3> QED BY <3>2, <3>3
  <2> QED BY <1>3, <2>2, <2>3
<1> QED BY <1>2, <1>3

\* The jobs are made of what was collected: nothing is lost and nothing is added.
THEOREM JobsCoverPostings ==
  ASSUME NEW S
  PROVE  UNION {j.of : j \in DedupeJobs(S)} = S
<1>1. ASSUME NEW j \in DedupeJobs(S)
      PROVE  j.of \subseteq S
  <2>1. PICK p \in S : j = JobOf(S, p)
    BY JobsOfPostings
  <2> QED BY <2>1, JobFields DEF GroupOf
<1>2. ASSUME NEW p \in S
      PROVE  \E j \in DedupeJobs(S) : p \in j.of
  <2>1. JobOf(S, p) \in DedupeJobs(S) /\ p \in JobOf(S, p).of
    BY JobsOfPostings, JobFields
  <2> QED BY <2>1
<1> QED BY <1>1, <1>2

\* What may be returned of the jobs is all of them, unless it is full.
LEMMA BestIsAll ==
  ASSUME NEW S \in SUBSET Postings, NEW B \in BestOf(DedupeJobs(S)), Cardinality(B) < Cap
  PROVE  B = DedupeJobs(S)
<1>1. B \in SUBSET DedupeJobs(S)
      /\ Cardinality(B) = Least(Cardinality(DedupeJobs(S)), Cap)
  BY DEF BestOf
<1>2. Cardinality(B) = Cardinality(DedupeJobs(S))
  BY <1>1, JobsAreFinite, Bounds DEF Least
<1> QED BY <1>1, <1>2, JobsAreFinite, FS_Subset

-----------------------------------------------------------------------------
(* The steps *)

LEMMA CountNumbers ==
  ASSUME Inv
  PROVE  /\ count.yielded \in Nat /\ count.collected \in Nat /\ count.skipped \in Nat
         /\ Cardinality(page) \in Nat /\ count.yielded <= Cap /\ Cap \in Nat
<1>1. count.yielded \in 0..Cap /\ count.collected \in 0..Cap /\ count.skipped \in 0..Cap
  BY DEF Inv, DiscoveryTypeOK, Counts
<1>2. Cardinality(page) \in Nat
  BY Subsets DEF Inv, DiscoveryTypeOK
<1> QED BY <1>1, <1>2, Bounds

LEMMA InitInv == Init => Inv
<1> SUFFICES ASSUME Init PROVE Inv
  OBVIOUS
<1> USE Bounds
<1>1. 0 \in 0..(Parts * Share) /\ 0 * Share = 0
  <2>1. Parts * Share \in Nat
    BY SharesAdd
  <2> QED BY <2>1
<1>2. NoCounts \in Counts
  BY <1>1 DEF NoCounts, Counts, Errors
<1>3. NoOutcome \in Outcome
  BY DEF NoOutcome, Outcome, Errors
<1>4. DiscoveryTypeOK
  BY <1>2, <1>3 DEF Init, DiscoveryTypeOK
<1>5. WalkOK
  <2>1. Cardinality(page) = 0
    BY FS_EmptySet DEF Init
  <2>2. Gathered = 0
    BY <2>1 DEF Init, Gathered, NoCounts
  <2>3. Opened = 0
    BY DEF Opened, Init
  <2> QED BY <1>1, <2>2, <2>3 DEF WalkOK, Init, NoCounts
<1>6. TroubleOK /\ OutcomesAreHonest /\ NoOpeningDropped
  BY DEF Init, TroubleOK, Open, Walking, Wrong, Troubled, NoCounts, OutcomesAreHonest, NoOpeningDropped, NoOutcome
<1> QED BY <1>4, <1>5, <1>6 DEF Inv

\* What every step of the walk leaves as it was, and the properties it cannot touch.
LEMMA WalkStep ==
  ASSUME Inv, Walking, Open',
         UNCHANGED <<source, outcome>>, over \subseteq over',
         trouble' \in {trouble, trouble \union {source}},
         Wrong' <=> Troubled'
  PROVE  TroubleOK' /\ OutcomesAreHonest' /\ NoOpeningDropped'
<1> USE DEF Inv
<1>0. pc' \notin {"thrown", "returned"}
  BY DEF Open, Walking
<1>1. source \in 1..Len(Sources) /\ trouble \subseteq 1..source
      /\ DOMAIN Sources = 1..Len(Sources) /\ Len(Sources) \in Nat
  BY Bounds DEF DiscoveryTypeOK, TroubleOK
<1>2. (trouble \subseteq 1..source)'
  BY <1>1
<1>3. \A i \in DOMAIN Sources : i >= source => outcome[i].status = "none"
  BY DEF TroubleOK, Open
<1>4. TroubleOK'
  BY <1>2, <1>3 DEF TroubleOK
<1>5. OutcomesAreHonest'
  BY <1>0, <1>1, <1>3 DEF OutcomesAreHonest
<1>6. NoOpeningDropped'
  BY <1>0 DEF NoOpeningDropped
<1> QED BY <1>4, <1>5, <1>6

LEMMA TroubleSaid ==
  ASSUME Inv, Walking
  PROVE  Wrong <=> Troubled
BY DEF Inv, TroubleOK, Open

LEMMA CountFields ==
  ASSUME Inv
  PROVE  /\ count \in Counts
         /\ count.allowance \in 0..(Parts * Share) /\ Parts * Share \in Nat
         /\ count.yielded \in 0..Cap /\ count.collected \in 0..Cap
         /\ count.detailed \in 0..Details /\ count.skipped \in 0..Cap
         /\ count.limited \in BOOLEAN /\ count.error \in Errors
         /\ Cardinality(page) \in Nat
<1>1. Parts * Share \in Nat
  BY Bounds, SharesAdd
<1>2. Cardinality(page) \in Nat
  BY Subsets DEF Inv, DiscoveryTypeOK
<1> QED BY <1>1, <1>2 DEF Inv, DiscoveryTypeOK, Counts

LEMMA ExpireInv == ASSUME Inv, ExpireSource \/ ExpireRun PROVE Inv'
<1>1. Walking /\ Walking' /\ Open'
  BY DEF ExpireSource, ExpireRun, Walking, Open
<1>2. UNCHANGED <<pc, source, part, attempt, page, item, count, kept, outcome, result>>
  BY DEF ExpireSource, ExpireRun
<1>3. over' \in {{"source"}, {"source", "run"}} /\ over \subseteq over'
  BY DEF ExpireSource, ExpireRun, Inv, DiscoveryTypeOK
<1>4. trouble' \in {trouble, trouble \union {source}}
  BY DEF ExpireSource, ExpireRun, Trouble
<1>5. Wrong' <=> Troubled'
  BY <1>2, <1>3 DEF ExpireSource, ExpireRun, Trouble, Troubled, Wrong
<1>6. TroubleOK' /\ OutcomesAreHonest' /\ NoOpeningDropped'
  BY <1>1, <1>2, <1>3, <1>4, <1>5, WalkStep
<1>7. DiscoveryTypeOK'
  BY <1>2, <1>3, <1>4, Bounds DEF Inv, DiscoveryTypeOK
<1>8. WalkOK'
  BY <1>1, <1>2 DEF Inv, WalkOK, Gathered, Opened, Walking
<1> QED BY <1>6, <1>7, <1>8 DEF Inv

\* A board adds its share to what its source may still take.
LEMMA NextPartInv == ASSUME Inv, NextPart PROVE Inv'
<1> USE DEF Inv
<1>1. pc = "part" /\ Walking
  BY DEF NextPart, Walking
<1>2. UNCHANGED <<source, part, page, item, over, kept, outcome, result, trouble>>
  BY DEF NextPart, Goes
<1>3. page = {} /\ count.allowance <= (part - 1) * Share /\ Gathered <= count.yielded
  BY <1>1 DEF WalkOK, Opened
<1>4. part \in 1..(Parts + 2) /\ part - 1 \in Nat
  BY Bounds DEF DiscoveryTypeOK
<1>5. CASE over # {} \/ count.yielded >= Cap \/ part > Parts
  <2>1. pc' = "end" /\ attempt' = attempt
        /\ count' = [count EXCEPT !.limited = @ \/ Cut]
    BY <1>5 DEF NextPart, Goes
  <2>2. count' \in Counts /\ count'.skipped = count.skipped /\ count'.error = count.error
    BY <2>1, CountFields DEF Counts, Cut
  <2>3. DiscoveryTypeOK'
    BY <1>2, <2>1, <2>2 DEF DiscoveryTypeOK
  <2>4. WalkOK'
    BY <2>1 DEF WalkOK, Walking
  <2>5. Wrong' <=> Troubled'
    BY <1>1, <1>2, <2>2, TroubleSaid DEF Troubled, Wrong
  <2>6. Open'
    BY <2>1 DEF Open
  <2>7. TroubleOK' /\ OutcomesAreHonest' /\ NoOpeningDropped'
    BY <1>1, <1>2, <2>5, <2>6, WalkStep
  <2> QED BY <2>3, <2>4, <2>7
<1>6. CASE ~(over # {} \/ count.yielded >= Cap \/ part > Parts)
  <2>1. pc' = "fetch" /\ attempt' = 0
        /\ count' = IF IsBoard THEN [count EXCEPT !.allowance = @ + Share] ELSE count
    BY <1>6 DEF NextPart, Goes
  <2>2. part <= Parts /\ count.yielded < Cap
    BY <1>4, <1>6, CountFields, Bounds
  <2>3. count.allowance + Share <= part * Share /\ count.allowance <= part * Share
        /\ part * Share <= Parts * Share /\ part * Share \in Nat
    <3>1. (part - 1) * Share + Share = ((part - 1) + 1) * Share /\ (part - 1) * Share \in Nat
          /\ part * Share \in Nat
      BY <1>4, SharesAdd
    <3>2. (part - 1) + 1 = part
      BY <1>4
    <3>3. part * Share <= Parts * Share
      BY <1>4, <2>2, SharesAdd, Bounds
    <3>4. (part - 1) * Share + Share = part * Share
      BY <3>1, <3>2
    <3> DEFINE a == (part - 1) * Share
               b == part * Share
               z == Parts * Share
    <3>5. a \in Nat /\ b \in Nat /\ a + Share = b /\ b <= z /\ count.allowance <= a
      BY <1>3, <3>1, <3>3, <3>4
    <3> HIDE DEF a, b
    <3>6. count.allowance + Share <= b /\ count.allowance <= b
      BY <3>5, CountFields, Bounds
    <3> QED BY <3>5, <3>6 DEF a, b
  <2> DEFINE z == Parts * Share
             b == part * Share
  <2>4. z \in Nat /\ b \in Nat /\ b <= z /\ count.allowance \in Nat /\ Share \in Nat
        /\ count.allowance + Share <= b /\ count.allowance <= b
    BY <2>3, CountFields, Bounds
  <2>5. Counts = [allowance : 0..z, yielded : 0..Cap, collected : 0..Cap,
           detailed : 0..Details, skipped : 0..Cap, limited : BOOLEAN, error : Errors]
    BY DEF Counts
  <2>6. b = part * Share
    OBVIOUS
  <2> HIDE DEF z, b
  <2>7. count' \in Counts /\ count'.skipped = count.skipped /\ count'.error = count.error
        /\ count'.yielded = count.yielded /\ count'.collected = count.collected
        /\ count'.allowance <= b
    BY <2>1, <2>4, <2>5, CountFields
  <2>8. DiscoveryTypeOK'
    BY <1>2, <2>1, <2>7, Bounds DEF DiscoveryTypeOK
  <2>9. WalkOK'
    <3>1. Gathered' = Gathered
      BY <1>1, <1>2, <2>1, <2>7 DEF Gathered
    <3>2. Opened' = part
      BY <1>2, <2>1 DEF Opened
    <3>3. Gathered' <= count'.yielded /\ count'.allowance <= Opened' * Share
      BY <1>3, <2>6, <2>7, <3>1, <3>2
    <3> QED BY <1>2, <1>3, <2>1, <2>2, <2>7, <3>3 DEF WalkOK
  <2>10. Wrong' <=> Troubled'
    BY <1>1, <1>2, <2>7, TroubleSaid DEF Troubled, Wrong
  <2>11. Open'
    BY <2>1 DEF Open, Walking
  <2>12. TroubleOK' /\ OutcomesAreHonest' /\ NoOpeningDropped'
    BY <1>1, <1>2, <2>10, <2>11, WalkStep
  <2> QED BY <2>8, <2>9, <2>12
<1> QED BY <1>5, <1>6

LEMMA AtFetch ==
  ASSUME Inv, pc = "fetch"
  PROVE  /\ Walking /\ page = {} /\ Cardinality(page) = 0 /\ part \in 1..Parts
         /\ count.yielded < Cap
         /\ count.collected + count.skipped <= count.yielded
         /\ count.allowance <= part * Share /\ part * Share \in Nat
<1> USE DEF Inv
<1>1. Walking /\ page = {} /\ part \in 1..Parts /\ count.yielded < Cap
  BY Bounds DEF Walking, WalkOK, DiscoveryTypeOK
<1>2. Cardinality(page) = 0
  BY <1>1, FS_EmptySet
<1>3. Gathered = count.collected + count.skipped
  BY <1>2, CountFields DEF Gathered
<1>4. count.allowance <= part * Share
  BY <1>1 DEF WalkOK, Opened
<1>5. part * Share \in Nat
  BY <1>1, SharesAdd, Bounds
<1> QED BY <1>1, <1>2, <1>3, <1>4, <1>5 DEF WalkOK

\* A part later, the shares that were given are at least those of before.
LEMMA SharesLater ==
  ASSUME Inv, pc = "fetch", part' \in {part + 1, Exhausted}
  PROVE  part' \in 1..(Parts + 2) /\ part' - 1 \in Nat /\ part * Share <= (part' - 1) * Share
<1>1. part \in 1..Parts
  BY AtFetch
<1>2. part \in Nat /\ 1 <= part /\ part <= Parts /\ Parts \in Nat
  BY <1>1, Bounds
<1>3. CASE part' = part + 1
  <2>1. part' \in 1..(Parts + 2) /\ part <= part' - 1 /\ part' - 1 \in Nat
    BY <1>2, <1>3
  <2> QED BY <1>2, <2>1, SharesAdd
<1>4. CASE part' = Exhausted
  <2>1. part' \in 1..(Parts + 2) /\ part <= part' - 1 /\ part' - 1 \in Nat
    BY <1>2, <1>4 DEF Exhausted
  <2> QED BY <1>2, <2>1, SharesAdd
<1> QED BY <1>3, <1>4

\* An answer has no more than there was room for.
LEMMA AnsweredInv == ASSUME Inv, Answered PROVE Inv'
<1> USE DEF Inv
<1>1. pc = "fetch" /\ pc' = "yield"
      /\ UNCHANGED <<source, item, over, kept, outcome, result, attempt, trouble>>
  BY DEF Answered, Goes
<1>2. page' \subseteq Postings /\ Cardinality(page') <= Room
  BY DEF Answered
<1> DEFINE n == Cardinality(page')
           z == Parts * Share
<1>3. n \in Nat
  BY <1>2, Subsets
<1>4. part' \in {part + 1, Exhausted}
  BY DEF Answered
<1>5. count' = [count EXCEPT !.yielded = @ + n, !.allowance = IF IsBoard THEN @ - n ELSE 0]
  BY DEF Answered
<1>6. n + count.yielded <= Cap /\ (IsBoard => n <= count.allowance)
  <2>1. count.yielded \in Nat /\ count.allowance \in Nat /\ Cap \in Nat
    BY CountFields, Bounds
  <2>2. n <= Room
    BY <1>2
  <2> HIDE DEF n
  <2>3. CASE IsBoard
    BY <1>3, <2>1, <2>2, <2>3 DEF Room, Least
  <2>4. CASE ~IsBoard
    BY <1>3, <2>1, <2>2, <2>4 DEF Room
  <2> QED BY <2>3, <2>4
<1>7. Counts = [allowance : 0..z, yielded : 0..Cap, collected : 0..Cap,
           detailed : 0..Details, skipped : 0..Cap, limited : BOOLEAN, error : Errors]
  BY DEF Counts
<1>8. z \in Nat
  BY CountFields
<1> HIDE DEF z
<1>9. count.allowance \in 0..z
  BY CountFields DEF z
<1>10. count' \in Counts /\ count'.allowance <= count.allowance
      /\ count'.yielded = count.yielded + n
      /\ count'.collected = count.collected /\ count'.skipped = count.skipped
      /\ count'.error = count.error
  <2> DEFINE x == IF IsBoard THEN count.allowance - n ELSE 0
  <2>1. x \in 0..z /\ x <= count.allowance
    BY <1>3, <1>6, <1>8, <1>9
  <2>2. count.yielded + n \in 0..Cap
    BY <1>3, <1>6, CountNumbers
  <2>3. count' = [count EXCEPT !.yielded = @ + n, !.allowance = x]
    BY <1>5
  <2> HIDE DEF x, n
  <2> QED BY <1>7, <2>1, <2>2, <2>3, CountFields
<1>11. DiscoveryTypeOK'
  BY <1>1, <1>2, <1>4, <1>10, SharesLater, Bounds DEF DiscoveryTypeOK
<1>12. WalkOK'
  <2>1. Gathered' = count.collected + count.skipped + n
    BY <1>1, <1>3, <1>10, CountFields DEF Gathered
  <2>2. Gathered' <= count'.yielded
    BY <2>1, <1>1, <1>3, <1>10, AtFetch, CountFields
  <2>3. Opened' = part' - 1
    BY <1>1 DEF Opened
  <2> DEFINE a == part * Share
             b == (part' - 1) * Share
  <2>4. a \in Nat /\ b \in Nat /\ a <= b /\ count.allowance <= a
    <3>1. part' - 1 \in Nat
      BY <1>1, <1>4, SharesLater
    <3>2. b \in Nat
      BY <3>1, SharesAdd
    <3> QED BY <1>1, <1>4, <3>2, AtFetch, SharesLater
  <2>5. b = Opened' * Share
    BY <2>3
  <2> HIDE DEF a, b
  <2>6. count'.allowance <= b
    <3>1. count'.allowance \in Nat
      BY <1>8, <1>7, <1>10
    <3> QED BY <2>4, <1>9, <1>10, <1>8, <3>1
  <2> QED BY <1>1, <2>2, <2>5, <2>6 DEF WalkOK
<1>13. Wrong' <=> Troubled'
  BY <1>1, <1>10, TroubleSaid, AtFetch DEF Troubled, Wrong
<1>14. Open'
  BY <1>1 DEF Open, Walking
<1>15. TroubleOK' /\ OutcomesAreHonest' /\ NoOpeningDropped'
  BY <1>1, <1>13, <1>14, AtFetch, WalkStep
<1> QED BY <1>11, <1>12, <1>15

LEMMA RetryInv == ASSUME Inv, Retry PROVE Inv'
<1> USE DEF Inv
<1>1. pc = "fetch" /\ pc' = "fetch"
      /\ UNCHANGED <<source, item, over, kept, outcome, result, part, page, count, trouble>>
  BY DEF Retry, Goes
<1>2. attempt' \in 0..Retries
  BY Bounds DEF Retry, DiscoveryTypeOK
<1>3. DiscoveryTypeOK'
  BY <1>1, <1>2 DEF DiscoveryTypeOK
<1>4. WalkOK'
  BY <1>1 DEF WalkOK, Gathered, Opened, Walking
<1>5. Wrong' <=> Troubled'
  BY <1>1, TroubleSaid, AtFetch DEF Troubled, Wrong
<1>6. TroubleOK' /\ OutcomesAreHonest' /\ NoOpeningDropped'
  BY <1>1, <1>5, AtFetch, WalkStep DEF Open, Walking
<1> QED BY <1>3, <1>4, <1>6

LEMMA FetchFailsInv == ASSUME Inv, FetchFails PROVE Inv'
<1> USE DEF Inv
<1>1. pc = "fetch" /\ pc' = "part"
      /\ UNCHANGED <<source, item, over, kept, outcome, result, attempt, page>>
  BY DEF FetchFails, Goes
<1>2. part' \in {part + 1, Exhausted}
  BY DEF FetchFails, AfterFailure
<1>3. count' = [count EXCEPT !.error = "source_failed"]
      /\ trouble' = trouble \union {source}
  BY DEF FetchFails, Fails, Trouble
<1>4. count' \in Counts /\ count'.error = "source_failed"
      /\ count'.allowance = count.allowance /\ count'.yielded = count.yielded
      /\ count'.collected = count.collected /\ count'.skipped = count.skipped
  BY <1>3, CountFields DEF Counts, Errors
<1>5. DiscoveryTypeOK'
  BY <1>1, <1>2, <1>3, <1>4, SharesLater, Bounds DEF DiscoveryTypeOK
<1>6. WalkOK'
  <2>1. Gathered' <= count'.yielded
    BY <1>1, <1>4, AtFetch, CountFields DEF Gathered
  <2>2. Opened' = part' - 1
    BY <1>1 DEF Opened
  <2> DEFINE a == part * Share
             b == (part' - 1) * Share
  <2>3. a \in Nat /\ b \in Nat /\ a <= b /\ count'.allowance <= a
    <3>1. part' - 1 \in Nat
      BY <1>1, <1>2, SharesLater
    <3>2. b \in Nat
      BY <3>1, SharesAdd
    <3> QED BY <1>1, <1>2, <1>4, <3>2, AtFetch, SharesLater
  <2>4. b = Opened' * Share /\ count'.allowance \in Nat
    BY <2>2, <1>4, CountFields
  <2> HIDE DEF a, b
  <2>5. count'.allowance <= b
    BY <2>3, <2>4
  <2> QED BY <1>1, <2>1, <2>4, <2>5, AtFetch DEF WalkOK
<1>7. Wrong' <=> Troubled'
  BY <1>1, <1>3, <1>4 DEF Troubled, Wrong
<1>8. TroubleOK' /\ OutcomesAreHonest' /\ NoOpeningDropped'
  BY <1>1, <1>3, <1>7, AtFetch, WalkStep DEF Open, Walking
<1> QED BY <1>5, <1>6, <1>8

LEMMA FetchAbortedInv == ASSUME Inv, FetchAborted PROVE Inv'
<1> USE DEF Inv
<1>1. pc = "fetch" /\ pc' = "end"
      /\ UNCHANGED <<source, item, over, kept, outcome, result, part, attempt, page, count,
                     trouble>>
  BY DEF FetchAborted, Goes
<1>2. DiscoveryTypeOK'
  BY <1>1 DEF DiscoveryTypeOK
<1>3. WalkOK'
  BY <1>1 DEF WalkOK, Walking
<1>4. Wrong' <=> Troubled'
  BY <1>1, TroubleSaid, AtFetch DEF Troubled, Wrong
<1>5. TroubleOK' /\ OutcomesAreHonest' /\ NoOpeningDropped'
  BY <1>1, <1>4, AtFetch, WalkStep DEF Open
<1> QED BY <1>2, <1>3, <1>5

LEMMA AtLoop ==
  ASSUME Inv, pc \in {"yield", "detail"}
  PROVE  /\ Walking /\ Opened = part - 1
         /\ Gathered <= count.yielded /\ count.allowance <= Opened * Share
BY DEF Inv, WalkOK, Opened, Walking

\* A posting is taken or refused, and the loop goes on to the next.
LEMMA TakenInv ==
  ASSUME Inv, pc \in {"yield", "detail"}, pc' = "yield",
         NEW p \in Postings, Accept(p) \/ Refuse \/ (item = p /\ DetailFails),
         page' \subseteq page,
         Cardinality(page') + 1 = Cardinality(page) + (IF pc = "detail" THEN 1 ELSE 0),
         item' \in Postings \union {NoPosting},
         UNCHANGED <<source, part, attempt, over, outcome, result>>
  PROVE  Inv'
<1> USE DEF Inv
<1>1. Gathered + 0 <= count.yielded /\ Walking
  BY AtLoop, CountFields DEF Gathered
<1>2. page' \subseteq Postings /\ Cardinality(page') \in Nat
  BY Subsets DEF DiscoveryTypeOK
<1>3. Gathered = count.collected + count.skipped + Cardinality(page') + 1
  BY <1>2, CountFields DEF Gathered
<1>4. count.collected + count.skipped + Cardinality(page') + 1 <= count.yielded
  BY <1>1, <1>3, CountFields
<1>5. /\ count' \in Counts
      /\ count'.allowance = count.allowance /\ count'.yielded = count.yielded
      /\ count'.collected + count'.skipped = count.collected + count.skipped + 1
      /\ count'.collected \in Nat /\ count'.skipped \in Nat
      /\ kept' \subseteq Postings
      /\ trouble' \in {trouble, trouble \union {source}}
      /\ Wrong' <=> Troubled'
  <2>1. count.collected + 1 \in 0..Cap /\ count.skipped + 1 \in 0..Cap
    BY <1>2, <1>4, CountNumbers
  <2>2. kept \subseteq Postings
    BY DEF DiscoveryTypeOK
  <2>3. CASE Accept(p)
    <3>1. count' = [count EXCEPT !.collected = @ + 1] /\ kept' = kept \union {p}
          /\ trouble' = trouble
      BY <2>3 DEF Accept
    <3>2. count' \in Counts
      BY <2>1, <3>1, CountFields DEF Counts
    <3>3. count'.allowance = count.allowance /\ count'.yielded = count.yielded
          /\ count'.collected = count.collected + 1 /\ count'.skipped = count.skipped
          /\ count'.error = count.error
      BY <3>1, CountFields DEF Counts
    <3>4. Wrong' <=> Troubled'
      BY <1>1, <3>1, <3>3, TroubleSaid DEF Troubled, Wrong
    <3> QED BY <2>2, <3>1, <3>2, <3>3, <3>4, CountFields
  <2>4. CASE Refuse
    <3>1. count' = [count EXCEPT !.skipped = @ + 1] /\ kept' = kept
          /\ trouble' = trouble \union {source}
      BY <2>4 DEF Refuse, Trouble
    <3>2. count' \in Counts
      BY <2>1, <3>1, CountFields DEF Counts
    <3>3. count'.allowance = count.allowance /\ count'.yielded = count.yielded
          /\ count'.collected = count.collected /\ count'.skipped = count.skipped + 1
      BY <3>1, CountFields DEF Counts
    <3>4. Wrong' <=> Troubled'
      BY <3>1, <3>3, CountFields DEF Troubled, Wrong
    <3> QED BY <2>2, <3>1, <3>2, <3>3, <3>4, CountFields
  <2>5. CASE item = p /\ DetailFails
    <3> DEFINE e == IF over = {} THEN "source_failed" ELSE "source_timeout"
    <3>1. e \in Errors /\ e # "none"
      BY DEF Errors
    <3>2. count' = [count EXCEPT !.collected = @ + 1, !.error = e]
          /\ kept' = kept \union {p} /\ trouble' = trouble \union {source}
      BY <2>5 DEF DetailFails, Trouble
    <3> HIDE DEF e
    <3>3. count' \in Counts
      BY <2>1, <3>1, <3>2, CountFields DEF Counts
    <3>4. count'.allowance = count.allowance /\ count'.yielded = count.yielded
          /\ count'.collected = count.collected + 1 /\ count'.skipped = count.skipped
          /\ count'.error = e
      BY <3>2, CountFields DEF Counts
    <3>5. Wrong' <=> Troubled'
      BY <3>1, <3>2, <3>4 DEF Troubled, Wrong
    <3> QED BY <2>2, <3>2, <3>3, <3>4, <3>5, CountFields
  <2> QED BY <2>3, <2>4, <2>5
<1>6. DiscoveryTypeOK'
  BY <1>2, <1>5, Bounds DEF DiscoveryTypeOK
<1>7. WalkOK'
  <2>1. Gathered' = count'.collected + count'.skipped + Cardinality(page')
    BY <1>2, <1>5 DEF Gathered
  <2>2. Gathered' <= count'.yielded
    BY <1>2, <1>4, <1>5, <2>1, CountFields
  <2>3. Opened' = Opened
    BY AtLoop DEF Opened
  <2> QED BY <1>5, <2>2, <2>3, AtLoop DEF WalkOK
<1>8. Open'
  BY DEF Open, Walking
<1>9. TroubleOK' /\ OutcomesAreHonest' /\ NoOpeningDropped'
  BY <1>1, <1>5, <1>8, WalkStep
<1> QED BY <1>6, <1>7, <1>9

LEMMA YieldInv == ASSUME Inv, Yield PROVE Inv'
<1> USE DEF Inv
<1>1. pc = "yield" /\ Walking
  BY DEF Yield, Walking
<1>2. CASE pc' \in {"end", "part"}
  <2>1. UNCHANGED <<source, item, over, kept, outcome, result, part, attempt, page, count,
                    trouble>>
    BY <1>1, <1>2 DEF Yield, Goes, Look
  <2>2. pc' = "part" => page = {}
    BY <1>1, <1>2 DEF Yield, Goes, Look
  <2>3. DiscoveryTypeOK'
    BY <1>2, <2>1 DEF DiscoveryTypeOK
  <2>4. WalkOK'
    <3>1. Gathered' = Gathered /\ Opened' = Opened
      BY <1>1, <1>2, <2>1 DEF Gathered, Opened
    <3> QED BY <1>1, <1>2, <2>1, <2>2, <3>1, AtLoop DEF WalkOK
  <2>5. Wrong' <=> Troubled'
    BY <1>1, <2>1, TroubleSaid DEF Troubled, Wrong
  <2>6. Open'
    BY <1>2 DEF Open, Walking
  <2>7. TroubleOK' /\ OutcomesAreHonest' /\ NoOpeningDropped'
    BY <1>1, <2>1, <2>5, <2>6, WalkStep
  <2> QED BY <2>3, <2>4, <2>7
<1>3. CASE pc' \notin {"end", "part"}
  <2>1. PICK p \in page : Look(p)
    BY <1>3 DEF Yield, Goes
  <2>2. page' = page \ {p} /\ UNCHANGED <<source, part, attempt, over, outcome, result>>
        /\ p \in Postings
    BY <2>1 DEF Look, DiscoveryTypeOK
  <2>3. Cardinality(page') = Cardinality(page) - 1 /\ Cardinality(page) \in Nat
    BY <2>1, <2>2, OneLess, CountFields DEF DiscoveryTypeOK
  <2>4. CASE Wanted(p)
    <3>1. pc' = "detail" /\ item' = p /\ UNCHANGED <<kept, trouble>>
          /\ count' = [count EXCEPT !.detailed = @ + 1]
      BY <2>1, <2>4 DEF Look
    <3>2. count' \in Counts /\ count'.allowance = count.allowance
          /\ count'.yielded = count.yielded /\ count'.collected = count.collected
          /\ count'.skipped = count.skipped /\ count'.error = count.error
      <4>1. count.detailed + 1 \in 0..Details
        BY <2>4, CountFields, Bounds DEF Wanted
      <4> QED BY <3>1, <4>1, CountFields DEF Counts
    <3>3. DiscoveryTypeOK'
      BY <2>2, <3>1, <3>2 DEF DiscoveryTypeOK
    <3>4. WalkOK'
      <4>1. Gathered' = Gathered
        BY <1>1, <2>3, <3>1, <3>2, CountNumbers DEF Gathered
      <4>2. Opened' = Opened
        BY <1>1, <2>2, <3>1 DEF Opened
      <4> QED BY <1>1, <2>2, <3>1, <3>2, <4>1, <4>2, AtLoop DEF WalkOK
    <3>5. Wrong' <=> Troubled'
      BY <1>1, <2>2, <3>1, <3>2, TroubleSaid DEF Troubled, Wrong
    <3>6. Open'
      BY <3>1 DEF Open, Walking
    <3>7. TroubleOK' /\ OutcomesAreHonest' /\ NoOpeningDropped'
      BY <1>1, <2>2, <3>1, <3>5, <3>6, WalkStep
    <3> QED BY <3>3, <3>4, <3>7
  <2>5. CASE ~Wanted(p)
    <3>1. (Accept(p) \/ Refuse) /\ UNCHANGED <<pc, item>>
      BY <2>1, <2>5 DEF Look
    <3>2. Cardinality(page') + 1 = Cardinality(page) + (IF pc = "detail" THEN 1 ELSE 0)
      BY <1>1, <2>3
    <3>3. item' \in Postings \union {NoPosting}
      BY <3>1 DEF DiscoveryTypeOK
    <3> QED BY <1>1, <2>2, <3>1, <3>2, <3>3, TakenInv
  <2> QED BY <2>4, <2>5
<1> QED BY <1>2, <1>3

LEMMA DetailInv == ASSUME Inv, Detail PROVE Inv'
<1>1. pc = "detail" /\ pc' = "yield" /\ item' = NoPosting
      /\ UNCHANGED <<source, part, attempt, page, over, outcome, result>>
  BY DEF Detail
<1>2. item \in Postings
  BY <1>1 DEF Inv, WalkOK
<1>3. Accept(item) \/ Refuse \/ (item = item /\ DetailFails)
  BY DEF Detail
<1>4. Cardinality(page') + 1 = Cardinality(page) + (IF pc = "detail" THEN 1 ELSE 0)
  BY <1>1
<1> QED BY <1>1, <1>2, <1>3, <1>4, TakenInv

\* What went wrong is in the error the source ends with.
LEMMA EndSourceInv == ASSUME Inv, EndSource PROVE Inv'
<1> USE DEF Inv
<1>1. pc = "end" /\ page' = {} /\ attempt' = 0 /\ UNCHANGED <<item, kept, result, trouble>>
  BY DEF EndSource
<1>2. CASE "run" \in over
  <2>1. pc' = "thrown" /\ UNCHANGED <<source, part, count, over, outcome>>
    BY <1>2 DEF EndSource
  <2>2. DiscoveryTypeOK'
    BY <1>1, <2>1, Bounds DEF DiscoveryTypeOK
  <2>3. WalkOK'
    BY <2>1 DEF WalkOK, Walking
  <2>4. TroubleOK'
    BY <1>1, <2>1 DEF TroubleOK, Open, Walking
  <2>5. OutcomesAreHonest' /\ NoOpeningDropped'
    BY <1>1, <1>2, <2>1 DEF OutcomesAreHonest, NoOpeningDropped
  <2> QED BY <2>2, <2>3, <2>4, <2>5
<1>3. CASE "run" \notin over
  <2>1. outcome' = [outcome EXCEPT ![source] = SourceOutcome]
    BY <1>3 DEF EndSource
  <2>2. DOMAIN Sources = 1..Len(Sources) /\ source \in 1..Len(Sources)
        /\ Len(Sources) \in Nat
        /\ outcome \in [DOMAIN Sources -> Outcome]
    BY Bounds DEF DiscoveryTypeOK
  <2>3. SourceOutcome \in Outcome
    <3>1. FinalError \in Errors
      BY CountFields DEF FinalError, Errors
    <3> DEFINE l == count.limited \/ count.collected >= Cap
               s == IF FinalError # "none" THEN "failed"
                    ELSE IF count.collected = 0 THEN "empty" ELSE "completed"
    <3>2. l \in BOOLEAN /\ count.collected \in 0..Cap
      BY CountFields
    <3>3. s \in {"none", "completed", "empty", "failed"}
      OBVIOUS
    <3>4. SourceOutcome = [status |-> s, limited |-> l, accepted |-> count.collected,
                           error |-> FinalError]
      BY DEF SourceOutcome
    <3> HIDE DEF l, s
    <3> QED BY <3>1, <3>2, <3>3, <3>4 DEF Outcome
  <2>4. outcome' \in [DOMAIN Sources -> Outcome]
    BY <2>1, <2>2, <2>3
  <2>5. source \in trouble <=> SourceOutcome.status = "failed"
    <3>1. source \in trouble <=> Troubled
      BY <1>1, <1>3 DEF TroubleOK, Open, Wrong
    <3>2. Troubled <=> FinalError # "none"
      BY CountFields DEF Troubled, FinalError
    <3> QED BY <3>1, <3>2 DEF SourceOutcome
  <2>6. \A i \in DOMAIN Sources :
          outcome'[i].status # "none" => (outcome'[i].status = "failed" <=> i \in trouble')
    BY <1>1, <2>1, <2>2, <2>5 DEF OutcomesAreHonest
  <2>7. CASE source < Len(Sources)
    <3>1. source' = source + 1 /\ part' = 1 /\ count' = NoCounts /\ over' = {} /\ pc' = "part"
      BY <1>3, <2>7 DEF EndSource
    <3>2. 0 * Share = 0 /\ Parts * Share \in Nat
      BY CountFields, Bounds
    <3>3. NoCounts \in Counts
      BY <3>2, Bounds DEF NoCounts, Counts, Errors
    <3>4. DiscoveryTypeOK'
      BY <1>1, <2>2, <2>4, <2>7, <3>1, <3>3, Bounds DEF DiscoveryTypeOK
    <3>5. WalkOK'
      <4>1. Gathered' = 0
        BY <1>1, <3>1, FS_EmptySet DEF Gathered, NoCounts
      <4>2. Opened' = 0
        BY <3>1 DEF Opened
      <4> QED BY <1>1, <3>1, <3>2, <4>1, <4>2 DEF WalkOK, NoCounts
    <3>6. trouble' \subseteq 1..source /\ source' \notin trouble'
      BY <1>1, <2>2, <3>1 DEF TroubleOK
    <3>7. \A i \in DOMAIN Sources : i >= source' => outcome'[i].status = "none"
      <4>1. \A i \in DOMAIN Sources : i >= source => outcome[i].status = "none"
        BY <1>1 DEF TroubleOK, Open
      <4> QED BY <2>1, <2>2, <3>1, <4>1
    <3>8. TroubleOK'
      <4>1. ~Wrong' /\ ~Troubled'
        BY <3>1, <3>6 DEF Wrong, Troubled, NoCounts
      <4> QED BY <2>2, <3>1, <3>6, <3>7, <4>1 DEF TroubleOK
    <3>9. OutcomesAreHonest' /\ NoOpeningDropped'
      BY <2>6, <3>1 DEF OutcomesAreHonest, NoOpeningDropped
    <3> QED BY <3>4, <3>5, <3>8, <3>9
  <2>8. CASE ~(source < Len(Sources))
    <3>1. pc' = "merge" /\ UNCHANGED <<source, part, count, over>>
      BY <1>3, <2>8 DEF EndSource
    <3>2. DiscoveryTypeOK'
      BY <1>1, <2>4, <3>1, Bounds DEF DiscoveryTypeOK
    <3>3. WalkOK'
      BY <3>1 DEF WalkOK, Walking
    <3>4. TroubleOK'
      BY <1>1, <3>1 DEF TroubleOK, Open, Walking
    <3>5. OutcomesAreHonest' /\ NoOpeningDropped'
      BY <2>6, <3>1 DEF OutcomesAreHonest, NoOpeningDropped
    <3> QED BY <3>2, <3>3, <3>4, <3>5
  <2> QED BY <2>7, <2>8
<1> QED BY <1>2, <1>3

\* The result has the jobs of what was kept.
LEMMA ReturnInv == ASSUME Inv, Return PROVE Inv'
<1> USE DEF Inv
<1>1. pc = "merge" /\ pc' = "returned" /\ result' \in BestOf(DedupeJobs(kept))
      /\ UNCHANGED <<source, part, attempt, page, item, count, over, kept, outcome, trouble>>
  BY DEF Return
<1>2. kept \subseteq Postings /\ result' \subseteq DedupeJobs(kept)
  BY <1>1 DEF DiscoveryTypeOK, BestOf
<1>3. result' \subseteq [id : Ids, of : SUBSET Postings]
  BY <1>2, JobsOfPostings, JobType
<1>4. DiscoveryTypeOK'
  BY <1>1, <1>3 DEF DiscoveryTypeOK
<1>5. WalkOK' /\ TroubleOK'
  BY <1>1 DEF WalkOK, TroubleOK, Open, Walking
<1>6. OutcomesAreHonest'
  BY <1>1 DEF OutcomesAreHonest
<1>7. \A j \in result' : /\ \A p, q \in j.of : SourceOf[p] = SourceOf[q] => p = q
                         /\ \A k \in result' : j.id = k.id \/ j.of \cap k.of # {} => j = k
  BY <1>2, JobsKeepOpeningsApart
<1>8. Cardinality(result') < Cap => UNION {j.of : j \in result'} = kept'
  BY <1>1, <1>2, BestIsAll, JobsCoverPostings
<1>9. NoOpeningDropped'
  BY <1>7, <1>8 DEF NoOpeningDropped
<1> QED BY <1>4, <1>5, <1>6, <1>9

LEMMA StutterInv == ASSUME Inv, UNCHANGED vars PROVE Inv'
<1> USE DEF vars
<1>1. DiscoveryTypeOK'
  BY DEF Inv, DiscoveryTypeOK
<1>2. WalkOK'
  BY DEF Inv, WalkOK, Gathered, Opened, Walking
<1>3. TroubleOK'
  BY DEF Inv, TroubleOK, Open, Walking, Wrong, Troubled
<1>4. OutcomesAreHonest' /\ NoOpeningDropped'
  BY DEF Inv, OutcomesAreHonest, NoOpeningDropped
<1> QED BY <1>1, <1>2, <1>3, <1>4 DEF Inv

LEMMA InvCorrect == Spec => []Inv
<1>1. ASSUME Inv, [Next]_vars PROVE Inv'
  <2>1. CASE ExpireSource \/ ExpireRun
    BY <1>1, <2>1, ExpireInv
  <2>2. CASE NextPart \/ Answered \/ Retry \/ FetchFails \/ FetchAborted
    BY <1>1, <2>2, NextPartInv, AnsweredInv, RetryInv, FetchFailsInv, FetchAbortedInv
  <2>3. CASE Yield \/ Detail \/ EndSource \/ Return
    BY <1>1, <2>3, YieldInv, DetailInv, EndSourceInv, ReturnInv
  <2>4. CASE UNCHANGED vars
    BY <1>1, <2>4, StutterInv
  <2> QED BY <1>1, <2>1, <2>2, <2>3, <2>4 DEF Next, Step
<1> QED BY <1>1, InitInv, PTL DEF Spec

-----------------------------------------------------------------------------
(* What is proved of a collection *)

\* Type correctness: among the rest, that a source never gives, takes or refuses more
\* postings than the cap, and that no board overdraws the allowance of its source.
THEOREM DiscoveryTypeCorrect == Spec => []DiscoveryTypeOK
<1>1. Inv => DiscoveryTypeOK
  BY DEF Inv
<1> QED BY <1>1, InvCorrect, PTL

\* A source told as completed or empty had no failed request, no refused posting and was
\* not cut off by its time; and collect() throws only when the run is over.
THEOREM OutcomesAreAlwaysHonest == Spec => []OutcomesAreHonest
<1>1. Inv => OutcomesAreHonest
  BY DEF Inv
<1> QED BY <1>1, InvCorrect, PTL

\* Of what was collected every opening is in exactly one job of the result, unless the
\* result is full, and openings of one source are never merged.
THEOREM NoOpeningIsDropped == Spec => []NoOpeningDropped
<1>1. Inv => NoOpeningDropped
  BY DEF Inv
<1> QED BY <1>1, InvCorrect, PTL
=============================================================================
