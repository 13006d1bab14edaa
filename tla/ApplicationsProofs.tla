------------------------- MODULE ApplicationsProofs -------------------------
(***************************************************************************)
(* Theorems about Applications, for any number of tabs, publishers, rounds *)
(* and statuses.                                                           *)
(***************************************************************************)
EXTENDS Applications, TLAPS

\* Every revision was counted.
Counted ==
  /\ lead.revision <= edits
  /\ \A k \in Rounds : rounds[k].revision <= edits

TypeInv == ApplicationsTypeOK /\ Counted

-----------------------------------------------------------------------------
(* Types *)

LEMMA InitType == Init => TypeInv
<1>. SUFFICES ASSUME Init PROVE TypeInv
  OBVIOUS
<1>0. 0 \in Revisions /\ 0 \in Times /\ 0 \in 0..MaxStops
  BY BoundsAssumption DEF Revisions, Times
<1>1. lead \in Lead /\ history \in Seq(Entry) /\ edits \in Revisions /\ Counted
  <2>1. \A k \in Rounds : rounds[k].revision = 0
    BY DEF Init
  <2>2. CASE Unsaved
    BY <1>0, <2>1, <2>2, StatusesAssumption DEF Unsaved, Lead, Counted
  <2>3. ASSUME NEW status \in Statuses \intersect Progressed, Legacy(status)
        PROVE  lead \in Lead /\ history \in Seq(Entry) /\ edits \in Revisions /\ Counted
    <3>1. 1 \in Revisions /\ 2 \in Revisions
      BY <2>3, BoundsAssumption DEF Legacy, Revisions
    <3>2. \A x \in {"saved", status}, n \in {0, 1} :
            [previous |-> "saved", status |-> x, evidence |-> FALSE, text |-> n,
             asked |-> FALSE] \in Entry
      BY <1>0, <3>1, StatusesAssumption DEF Entry
    <3>3. history \in Seq(Entry)
      BY <2>3, <3>2 DEF Legacy
    <3>. QED
      BY <2>1, <2>3, <3>1, <3>3 DEF Legacy, Lead, Counted
  <2>. QED
    BY <2>2, <2>3 DEF Init
<1>3. rounds \in [Rounds -> Round]
  BY <1>0 DEF Init, Round
<1>4. notices \subseteq Notice /\ enabled \in BOOLEAN
  BY DEF Init
<1>5. pass \in [Publishers -> Pass]
  BY <1>0 DEF Init, Idle, Pass
<1>6. tab \in [Tabs -> Tab]
  BY <1>0 DEF Init, Tab
<1>7. now \in Times /\ stops \in 0..MaxStops
  BY <1>0 DEF Init
<1>. QED
  BY <1>1, <1>3, <1>4, <1>5, <1>6, <1>7 DEF TypeInv, ApplicationsTypeOK

\* What a fetch leaves in a tab.
LEMMA FetchedType ==
  ASSUME tab \in [Tabs -> Tab], NEW t \in Tabs, NEW revision \in Revisions,
         Fetched(t, revision)
  PROVE  tab' \in [Tabs -> Tab]
<1>0. 0 \in Revisions
  BY BoundsAssumption DEF Revisions
<1>1. tab[t] \in Tab
  OBVIOUS
<1>. DEFINE r == IF Remounted(t, revision) THEN revision ELSE tab[t].text
            d == IF Remounted(t, revision) THEN NoRound ELSE tab[t].draft
            b == IF Remounted(t, revision) THEN 0 ELSE tab[t].base
<1>2. r \in Revisions /\ d \in Rounds \union {NoRound} /\ b \in Revisions
  BY <1>0, <1>1 DEF Tab
<1>3. tab' = [tab EXCEPT ![t].lead = revision, ![t].text = r, ![t].draft = d, ![t].base = b]
  BY DEF Fetched
<1>. HIDE DEF r, d, b
<1>4. tab' = [tab EXCEPT ![t] = [tab[t] EXCEPT !.lead = revision, !.text = r, !.draft = d,
                                               !.base = b]]
  BY <1>3
<1>5. [tab[t] EXCEPT !.lead = revision, !.text = r, !.draft = d, !.base = b] \in Tab
  BY <1>1, <1>2 DEF Tab
<1>. QED
  BY <1>4, <1>5

\* Retiring changes nothing else of a notice.
LEMMA RetiredNotices ==
  ASSUME notices \subseteq Notice, NEW K, NEW R, NEW time, NEW n \in Retired(K, R, time)
  PROVE  /\ n \in Notice
         /\ \E m \in notices :
              /\ m.round = n.round /\ m.at = n.at /\ m.by = n.by
              /\ n = IF m.round \in K /\ ~Reminds(m, R, time)
                     THEN [m EXCEPT !.retired = TRUE] ELSE m
<1>1. PICK m \in notices : n = IF m.round \in K /\ ~Reminds(m, R, time)
                               THEN [m EXCEPT !.retired = TRUE] ELSE m
  BY DEF Retired
<1>2. m \in Notice
  OBVIOUS
<1>3. n \in Notice /\ m.round = n.round /\ m.at = n.at /\ m.by = n.by
  BY <1>1, <1>2 DEF Notice
<1>. QED
  BY <1>1, <1>3

LEMMA PlannedType ==
  ASSUME NEW plan \in Plans, NEW revision \in Revisions, NEW text \in Revisions
  PROVE  Planned(plan, revision, text) \in Round
BY DEF Plans, Planned, Round

LEMMA TabStepType ==
  ASSUME TypeInv, NEW t \in Tabs, TabStep(t)
  PROVE  TypeInv'
<1>0. /\ lead \in Lead /\ history \in Seq(Entry) /\ rounds \in [Rounds -> Round]
      /\ notices \subseteq Notice /\ enabled \in BOOLEAN /\ pass \in [Publishers -> Pass]
      /\ tab \in [Tabs -> Tab] /\ now \in Times /\ edits \in Revisions /\ stops \in 0..MaxStops
      /\ lead.revision <= edits /\ \A k \in Rounds : rounds[k].revision <= edits
  BY DEF TypeInv, ApplicationsTypeOK, Counted
<1>m. MaxEdits \in Nat
  BY BoundsAssumption
<1>a. /\ Revisions \subseteq Nat /\ 0 \in Revisions
      /\ lead.revision \in Revisions /\ lead.status \in Statuses /\ lead.evidence \in BOOLEAN
      /\ \A k \in Rounds : rounds[k].revision \in Revisions
      /\ tab[t].text \in Revisions /\ tab[t].base \in Revisions
  BY <1>0, BoundsAssumption DEF Revisions, Lead, Round, Tab
<1>b. ASSUME Revise PROVE edits' = edits + 1 /\ edits' \in Revisions /\ edits < MaxEdits
  BY <1>0, <1>b, BoundsAssumption DEF Revise, Revisions
<1>c. \A c \in {"absent", "report", "remove"} : EvidenceAfter(c) \in BOOLEAN
  BY <1>a DEF EvidenceAfter
<1>d. ASSUME UNCHANGED server, tab' \in [Tabs -> Tab] PROVE TypeInv'
  BY <1>0, <1>d DEF server, TypeInv, ApplicationsTypeOK, Counted
<1>1. CASE SaveLead(t)
  <2>1. CASE lead.revision > 0
    <3>1. Fetched(t, lead.revision) /\ UNCHANGED server
      BY <1>a, <1>1, <2>1 DEF SaveLead
    <3>. QED
      BY <3>1, <1>0, <1>a, <1>d, FetchedType
  <2>2. CASE lead.revision = 0
    <3>1. /\ Revise /\ lead' = [lead EXCEPT !.revision = 1]
          /\ history' = <<[previous |-> "saved", status |-> "saved", evidence |-> FALSE,
                           text |-> 0, asked |-> TRUE]>>
          /\ Fetched(t, 1)
          /\ UNCHANGED <<rounds, notices, enabled, pass, now, stops>>
      BY <1>1, <2>2 DEF SaveLead
    <3>2. edits' = edits + 1 /\ edits' \in Revisions /\ 1 \in Revisions /\ 1 <= edits'
      BY <3>1, <1>0, <1>b, <1>m DEF Revisions
    <3>3. lead' \in Lead /\ lead'.revision = 1
      BY <3>1, <3>2, <1>0 DEF Lead
    <3>4. history' \in Seq(Entry)
      BY <3>1, <1>a, StatusesAssumption DEF Entry
    <3>5. tab' \in [Tabs -> Tab]
      BY <3>1, <3>2, <1>0, FetchedType
    <3>6. \A k \in Rounds : rounds'[k].revision <= edits'
      BY <3>1, <3>2, <1>0, <1>a DEF Revisions
    <3>. QED
      BY <3>1, <3>2, <3>3, <3>4, <3>5, <3>6, <1>0 DEF TypeInv, ApplicationsTypeOK, Counted
  <2>. QED
    BY <2>1, <2>2, <1>a DEF Revisions
<1>2. CASE OpenLead(t)
  BY <1>2, <1>0, <1>a, <1>d, FetchedType DEF OpenLead
<1>3. ASSUME NEW status \in Statuses, NEW claim \in {"absent", "report", "remove"},
             EditLead(t, status, claim)
      PROVE  TypeInv'
  <2>1. /\ Revise
        /\ lead' = [revision |-> lead.revision + 1, status |-> status,
                    evidence |-> EvidenceAfter(claim)]
        /\ history' = Append(history, [previous |-> lead.status, status |-> status,
                                       evidence |-> EvidenceAfter(claim), text |-> tab[t].text,
                                       asked |-> TRUE])
        /\ Fetched(t, lead.revision + 1)
        /\ UNCHANGED <<rounds, notices, enabled, pass, now, stops>>
    BY <1>3 DEF EditLead
  <2>2. edits' = edits + 1 /\ edits' \in Revisions /\ lead.revision + 1 \in Revisions
        /\ lead.revision + 1 <= edits'
    BY <2>1, <1>0, <1>a, <1>b, <1>m DEF Revisions
  <2>3. lead' \in Lead /\ lead'.revision <= edits'
    BY <2>1, <2>2, <1>c DEF Lead
  <2>4. history' \in Seq(Entry)
    <3>1. [previous |-> lead.status, status |-> status, evidence |-> EvidenceAfter(claim),
           text |-> tab[t].text, asked |-> TRUE] \in Entry
      BY <1>a, <1>c DEF Entry
    <3>. QED
      BY <3>1, <2>1, <1>0
  <2>5. tab' \in [Tabs -> Tab]
    BY <2>1, <2>2, <1>0, FetchedType
  <2>6. \A k \in Rounds : rounds'[k].revision <= edits'
    BY <2>1, <2>2, <1>0, <1>a DEF Revisions
  <2>. QED
    BY <2>1, <2>2, <2>3, <2>4, <2>5, <2>6, <1>0 DEF TypeInv, ApplicationsTypeOK, Counted
<1>4. CASE SeeRounds(t)
  <2>1. tab' = [tab EXCEPT ![t] = [@ EXCEPT !.rounds = [k \in Rounds |-> rounds[k].revision]]]
    BY <1>4 DEF SeeRounds
  <2>2. [k \in Rounds |-> rounds[k].revision] \in [Rounds -> Revisions]
    BY <1>a
  <2>3. tab' \in [Tabs -> Tab]
    BY <2>1, <2>2, <1>0 DEF Tab
  <2>. QED
    BY <2>3, <1>4, <1>d DEF SeeRounds
<1>5. ASSUME NEW k \in Rounds, BeginEdit(t, k) PROVE TypeInv'
  <2>1. tab' = [tab EXCEPT ![t] = [@ EXCEPT !.draft = k, !.base = tab[t].rounds[k]]]
    BY <1>5 DEF BeginEdit
  <2>2. tab[t] \in Tab /\ tab[t].rounds[k] \in Revisions
    BY <1>0 DEF Tab
  <2>3. tab' \in [Tabs -> Tab]
    BY <2>1, <2>2, <1>0 DEF Tab
  <2>. QED
    BY <2>3, <1>5, <1>d DEF BeginEdit
<1>6. ASSUME NEW k \in Rounds, NEW plan \in Plans, CreateRound(t, k, plan) PROVE TypeInv'
  <2>1. /\ Revise /\ rounds' = [rounds EXCEPT ![k] = Planned(plan, 1, 0)]
        /\ UNCHANGED <<lead, history, notices, enabled, pass, now, stops>>
    BY <1>6 DEF CreateRound
  <2>2. edits' = edits + 1 /\ edits' \in Revisions /\ 1 \in Revisions /\ 1 <= edits'
    BY <2>1, <1>0, <1>b, <1>m DEF Revisions
  <2>3. rounds' \in [Rounds -> Round] /\ rounds'[k].revision = 1
    BY <2>1, <2>2, <1>0, <1>a, PlannedType DEF Planned
  <2>4. \A j \in Rounds : rounds'[j].revision <= edits' /\ rounds'[j].revision \in Revisions
    BY <2>1, <2>2, <2>3, <1>0, <1>a DEF Revisions
  <2>5. tab' = [tab EXCEPT ![t] = [@ EXCEPT !.rounds = [j \in Rounds |-> rounds'[j].revision],
                                            !.draft = NoRound, !.base = 0]]
    BY <1>6 DEF CreateRound
  <2>6. tab' \in [Tabs -> Tab]
    <3>. DEFINE seen == [j \in Rounds |-> rounds'[j].revision]
                new == [tab[t] EXCEPT !.rounds = seen, !.draft = NoRound, !.base = 0]
    <3>1. seen \in [Rounds -> Revisions] /\ tab[t] \in Tab
      BY <2>4, <1>0
    <3>2. tab' = [tab EXCEPT ![t] = new]
      BY <2>5
    <3>. HIDE DEF seen
    <3>3. new \in Tab
      BY <3>1, <1>a DEF Tab
    <3>. HIDE DEF new
    <3>. QED
      BY <3>2, <3>3, <1>0
  <2>7. lead.revision <= edits'
    BY <2>2, <1>0, <1>a DEF Revisions
  <2>. QED
    BY <2>1, <2>2, <2>3, <2>4, <2>6, <2>7, <1>0 DEF TypeInv, ApplicationsTypeOK, Counted
<1>7. CASE CancelEdit(t)
  <2>1. tab' = [tab EXCEPT ![t] = [@ EXCEPT !.draft = NoRound, !.base = 0]]
    BY <1>7 DEF CancelEdit
  <2>2. tab' \in [Tabs -> Tab]
    BY <2>1, <1>0, <1>a DEF Tab
  <2>. QED
    BY <2>2, <1>7, <1>d DEF CancelEdit
<1>8. ASSUME NEW plan \in Plans, SubmitRound(t, plan) PROVE TypeInv'
  <2>. DEFINE k == tab[t].draft
  <2>1. /\ k # NoRound /\ Revise
        /\ rounds' = [rounds EXCEPT ![k] = Planned(plan, @.revision + 1, tab[t].base)]
        /\ notices' = Retired({k}, rounds', now)
        /\ UNCHANGED <<lead, history, enabled, pass, now, stops>>
    BY <1>8 DEF SubmitRound
  <2>2. k \in Rounds
    BY <2>1, <1>0 DEF Tab
  <2>. HIDE DEF k
  <2>3. edits' = edits + 1 /\ edits' \in Revisions /\ rounds[k].revision + 1 \in Revisions
        /\ rounds[k].revision + 1 <= edits'
    BY <2>1, <2>2, <1>0, <1>a, <1>b, <1>m DEF Revisions
  <2>4. /\ rounds' = [rounds EXCEPT ![k] = Planned(plan, rounds[k].revision + 1, tab[t].base)]
        /\ Planned(plan, rounds[k].revision + 1, tab[t].base) \in Round
    BY <2>1, <2>2, <2>3, <1>a, PlannedType
  <2>5. rounds' \in [Rounds -> Round] /\ rounds'[k].revision = rounds[k].revision + 1
    BY <2>2, <2>4, <1>0 DEF Planned
  <2>6. \A j \in Rounds : rounds'[j].revision <= edits' /\ rounds'[j].revision \in Revisions
    BY <2>2, <2>3, <2>4, <2>5, <1>0, <1>a DEF Revisions
  <2>7. notices' \subseteq Notice
    BY <2>1, <1>0, RetiredNotices
  <2>8. tab' = [tab EXCEPT ![t] = [@ EXCEPT !.rounds = [j \in Rounds |-> rounds'[j].revision],
                                            !.draft = NoRound, !.base = 0]]
    BY <1>8 DEF SubmitRound
  <2>9. tab' \in [Tabs -> Tab]
    <3>. DEFINE seen == [j \in Rounds |-> rounds'[j].revision]
                new == [tab[t] EXCEPT !.rounds = seen, !.draft = NoRound, !.base = 0]
    <3>1. seen \in [Rounds -> Revisions] /\ tab[t] \in Tab
      BY <2>6, <1>0
    <3>2. tab' = [tab EXCEPT ![t] = new]
      BY <2>8
    <3>. HIDE DEF seen
    <3>3. new \in Tab
      BY <3>1, <1>a DEF Tab
    <3>. HIDE DEF new
    <3>. QED
      BY <3>2, <3>3, <1>0
  <2>10. lead.revision <= edits'
    BY <2>3, <1>0, <1>a DEF Revisions
  <2>. QED
    BY <2>1, <2>3, <2>5, <2>6, <2>7, <2>9, <2>10, <1>0 DEF TypeInv, ApplicationsTypeOK, Counted
<1>. QED
  BY <1>1, <1>2, <1>3, <1>4, <1>5, <1>6, <1>7, <1>8 DEF TabStep

LEMMA PublisherStepType ==
  ASSUME TypeInv, NEW p \in Publishers, Look(p) \/ Lock(p) \/ Publish(p) \/ RollBack(p)
  PROVE  TypeInv'
<1>0. /\ lead \in Lead /\ history \in Seq(Entry) /\ rounds \in [Rounds -> Round]
      /\ notices \subseteq Notice /\ enabled \in BOOLEAN /\ pass \in [Publishers -> Pass]
      /\ tab \in [Tabs -> Tab] /\ now \in Times /\ edits \in Revisions /\ stops \in 0..MaxStops
      /\ Counted
  BY DEF TypeInv, ApplicationsTypeOK
<1>a. Idle \in Pass
  BY BoundsAssumption DEF Idle, Pass, Times
<1>b. pass[p] \in Pass
  BY <1>0
<1>1. CASE Look(p)
  <2>1. pass' \in [Publishers -> Pass]
    BY <1>1, <1>0 DEF Look, Pass
  <2>. QED
    BY <1>1, <2>1, <1>0 DEF Look, TypeInv, ApplicationsTypeOK, Counted
<1>2. CASE Lock(p)
  <2>. DEFINE due == {k \in pass[p].due \ Locked : Due(k, pass[p].now)}
              stale == pass[p].stale \ Locked
  <2>1. due \subseteq Rounds /\ stale \subseteq Rounds
    BY <1>b DEF Pass
  <2>2. pass' = [pass EXCEPT ![p].at = "locked", ![p].stale = stale, ![p].due = due]
    BY <1>2 DEF Lock
  <2>. HIDE DEF due, stale
  <2>3. pass' \in [Publishers -> Pass]
    BY <2>1, <2>2, <1>0, <1>b DEF Pass
  <2>. QED
    BY <1>2, <2>3, <1>0 DEF Lock, TypeInv, ApplicationsTypeOK, Counted
<1>3. CASE Publish(p)
  <2>1. pass' \in [Publishers -> Pass]
    BY <1>3, <1>0, <1>a DEF Publish
  <2>2. notices' \subseteq Notice
    <3>1. ASSUME NEW k \in Inserted(p)
          PROVE  [round |-> k, at |-> rounds[k].reminder, retired |-> FALSE, by |-> p] \in Notice
      BY <1>0, <1>b DEF Inserted, Pass, Notice, Round
    <3>2. Retired(pass[p].stale, rounds, pass[p].now) \subseteq Notice
      BY <1>0, RetiredNotices
    <3>. QED
      BY <1>3, <3>1, <3>2 DEF Publish
  <2>. QED
    BY <1>3, <2>1, <2>2, <1>0 DEF Publish, TypeInv, ApplicationsTypeOK, Counted
<1>4. CASE RollBack(p)
  <2>1. pass' \in [Publishers -> Pass] /\ stops' \in 0..MaxStops
    BY <1>4, <1>0, <1>a, BoundsAssumption DEF RollBack
  <2>. QED
    BY <1>4, <2>1, <1>0 DEF RollBack, TypeInv, ApplicationsTypeOK, Counted
<1>. QED
  BY <1>1, <1>2, <1>3, <1>4

LEMMA NextType == TypeInv /\ [Next]_vars => TypeInv'
<1>. SUFFICES ASSUME TypeInv, [Next]_vars PROVE TypeInv'
  OBVIOUS
<1>1. ASSUME NEW t \in Tabs, TabStep(t) PROVE TypeInv'
  BY <1>1, TabStepType
<1>2. ASSUME NEW p \in Publishers, Look(p) \/ Lock(p) \/ Publish(p) \/ RollBack(p) PROVE TypeInv'
  BY <1>2, PublisherStepType
<1>3. CASE SetPreference
  BY <1>3 DEF SetPreference, TypeInv, ApplicationsTypeOK, Counted
<1>4. CASE Tick
  BY <1>4, BoundsAssumption DEF Tick, TypeInv, ApplicationsTypeOK, Counted, Times
<1>5. CASE UNCHANGED vars
  BY <1>5 DEF vars, TypeInv, ApplicationsTypeOK, Counted
<1>. QED
  BY <1>1, <1>2, <1>3, <1>4, <1>5 DEF Next

LEMMA TypeHolds == Spec => []TypeInv
BY InitType, NextType, PTL DEF Spec

\* Every row, the state of every tab and the transaction of every publisher keep
\* their types: a reminder of a round is before its interview.
THEOREM ApplicationsTypeCorrect == Spec => []ApplicationsTypeOK
<1>1. TypeInv => ApplicationsTypeOK
  BY DEF TypeInv
<1>. QED
  BY <1>1, TypeHolds, PTL

-----------------------------------------------------------------------------
(* The history of the lead *)

\* The steps that change the lead.
LeadRevised ==
  \/ /\ lead.revision = 0
     /\ lead' = [lead EXCEPT !.revision = 1]
     /\ history' = <<[previous |-> "saved", status |-> "saved", evidence |-> FALSE, text |-> 0,
                     asked |-> TRUE]>>
  \/ \E t \in Tabs, status \in Statuses, claim \in {"absent", "report", "remove"} :
       EditLead(t, status, claim)

LEMMA OnlyTheOwnerRevises == [Next]_vars => LeadRevised \/ UNCHANGED <<lead, history>>
<1>. SUFFICES ASSUME [Next]_vars PROVE LeadRevised \/ UNCHANGED <<lead, history>>
  OBVIOUS
<1>1. ASSUME NEW t \in Tabs, TabStep(t) PROVE LeadRevised \/ UNCHANGED <<lead, history>>
  <2>1. CASE SaveLead(t)
    BY <2>1 DEF SaveLead, LeadRevised, server
  <2>2. CASE \E status \in Statuses, claim \in {"absent", "report", "remove"} :
               EditLead(t, status, claim)
    BY <2>2 DEF LeadRevised
  <2>3. CASE OpenLead(t) \/ SeeRounds(t) \/ CancelEdit(t) \/ \E k \in Rounds : BeginEdit(t, k)
    BY <2>3 DEF OpenLead, SeeRounds, CancelEdit, BeginEdit, server
  <2>4. CASE \E plan \in Plans : SubmitRound(t, plan) \/ \E k \in Rounds : CreateRound(t, k, plan)
    BY <2>4 DEF SubmitRound, CreateRound
  <2>. QED
    BY <1>1, <2>1, <2>2, <2>3, <2>4 DEF TabStep
<1>2. ASSUME NEW p \in Publishers, Look(p) \/ Lock(p) \/ Publish(p) \/ RollBack(p)
      PROVE  UNCHANGED <<lead, history>>
  BY <1>2 DEF Look, Lock, Publish, RollBack
<1>3. CASE SetPreference \/ Tick \/ UNCHANGED vars
  BY <1>3 DEF SetPreference, Tick, vars
<1>. QED
  BY <1>1, <1>2, <1>3 DEF Next

\* What an edit adds to the history goes on from its last entry.
LEMMA EditGoesOn ==
  ASSUME TypeInv, HistoryTellsLead, NEW t \in Tabs, NEW status \in Statuses,
         NEW claim \in {"absent", "report", "remove"}, EditLead(t, status, claim)
  PROVE  HistoryTellsLead'
<1>. DEFINE e == [previous |-> lead.status, status |-> status, evidence |-> EvidenceAfter(claim),
                  text |-> tab[t].text, asked |-> TRUE]
            n == lead.revision
<1>1. /\ history \in Seq(Entry) /\ lead.evidence \in BOOLEAN /\ n \in Nat /\ n > 0
      /\ Len(history) = n
  <2>1. history \in Seq(Entry) /\ lead \in Lead /\ tab[t].lead \in Revisions
    BY DEF TypeInv, ApplicationsTypeOK, Tab
  <2>2. lead.revision = tab[t].lead /\ tab[t].lead > 0
    BY DEF EditLead, Current
  <2>. QED
    BY <2>1, <2>2, BoundsAssumption DEF Lead, Revisions, HistoryTellsLead
<1>2. lead.status = history[n].status /\ lead.evidence = history[n].evidence
  BY <1>1 DEF HistoryTellsLead
<1>3. ClaimStands(status, claim)
  BY DEF EditLead
<1>4. lead.evidence => EvidenceAfter(claim)
  BY <1>3 DEF ClaimStands, EvidenceAfter
<1>5. status \in Progressed \ {lead.status} => EvidenceAfter(claim)
  BY <1>3, <1>4 DEF ClaimStands
<1>6. history' = Append(history, e) /\ lead'.revision = n + 1 /\ lead'.status = status
      /\ lead'.evidence = EvidenceAfter(claim)
  BY DEF EditLead
<1>7. e.previous = lead.status /\ e.status = status /\ e.evidence = EvidenceAfter(claim)
  OBVIOUS
<1>. HIDE DEF e, n
<1>8. /\ Len(history') = n + 1 /\ history'[n + 1] = e
      /\ \A i \in 1..n : history'[i] = history[i]
  BY <1>1, <1>6
<1>9. \A i \in 2..Len(history') :
        history'[i].previous = history'[i - 1].status
        /\ (history'[i - 1].evidence => history'[i].evidence)
  <2>1. ASSUME NEW i \in 2..n
        PROVE  history'[i].previous = history'[i - 1].status
               /\ (history'[i - 1].evidence => history'[i].evidence)
    <3>1. history'[i] = history[i] /\ history'[i - 1] = history[i - 1] /\ i \in 2..Len(history)
      BY <1>1, <1>8
    <3>. QED
      BY <3>1 DEF HistoryTellsLead
  <2>2. history'[n + 1].previous = history'[n].status
        /\ (history'[n].evidence => history'[n + 1].evidence)
    <3>1. history'[n] = history[n]
      BY <1>1, <1>8
    <3>. QED
      BY <3>1, <1>2, <1>4, <1>7, <1>8
  <2>. QED
    BY <2>1, <2>2, <1>1, <1>8
<1>10. \A i \in 1..Len(history') :
         history'[i].asked /\ history'[i].status \in Progressed \ {history'[i].previous} =>
           history'[i].evidence
  <2>1. \A i \in 1..n :
          history'[i].asked /\ history'[i].status \in Progressed \ {history'[i].previous} =>
            history'[i].evidence
    BY <1>1, <1>8 DEF HistoryTellsLead
  <2>2. history'[n + 1].status \in Progressed \ {history'[n + 1].previous} =>
          history'[n + 1].evidence
    BY <1>5, <1>7, <1>8
  <2>. QED
    BY <2>1, <2>2, <1>1, <1>8
<1>. QED
  BY <1>1, <1>6, <1>7, <1>8, <1>9, <1>10 DEF HistoryTellsLead

\* A lead that was not saved yet is as it will be saved.
UnsavedIsPlain == lead.revision = 0 => lead.status = "saved" /\ lead.evidence = FALSE

HistoryInv == HistoryTellsLead /\ UnsavedIsPlain

LEMMA HistoryInit == Init => HistoryInv
<1>. SUFFICES ASSUME Init PROVE HistoryInv
  OBVIOUS
<1>1. CASE Unsaved
  BY <1>1 DEF Unsaved, HistoryTellsLead, HistoryInv, UnsavedIsPlain
<1>2. ASSUME NEW status, Legacy(status) PROVE HistoryInv
  <2>1. /\ Len(history) = 2 /\ history[1].status = "saved" /\ history[2].status = status
        /\ history[2].previous = "saved"
        /\ \A i \in 1..2 : ~history[i].asked /\ history[i].evidence = FALSE
    BY <1>2 DEF Legacy
  <2>2. lead.revision = 2 /\ lead.status = status /\ lead.evidence = FALSE
    BY <1>2 DEF Legacy
  <2>3. history[2].previous = history[1].status /\ history[1].evidence = FALSE
    BY <2>1
  <2>4. \A i \in 2..Len(history) :
          /\ history[i].previous = history[i - 1].status
          /\ history[i - 1].evidence => history[i].evidence
    BY <2>1, <2>3
  <2>5. lead.status = history[lead.revision].status
        /\ lead.evidence = history[lead.revision].evidence
    <3>1. history[lead.revision].status = status /\ history[2].evidence = FALSE
      BY <2>1, <2>2
    <3>. QED
      BY <2>2, <3>1, Zenon
  <2>. QED
    BY <2>1, <2>2, <2>4, <2>5 DEF HistoryTellsLead, HistoryInv, UnsavedIsPlain
<1>. QED
  BY <1>1, <1>2 DEF Init

LEMMA HistoryNext == TypeInv /\ HistoryInv /\ [Next]_vars => HistoryInv'
<1>. SUFFICES ASSUME TypeInv, HistoryInv, [Next]_vars PROVE HistoryInv'
  OBVIOUS
<1>0. HistoryTellsLead /\ UnsavedIsPlain
  BY DEF HistoryInv
<1>1. CASE UNCHANGED <<lead, history>>
  BY <1>0, <1>1 DEF HistoryTellsLead, HistoryInv, UnsavedIsPlain
<1>2. CASE LeadRevised
  <2>1. CASE /\ lead.revision = 0
             /\ lead' = [lead EXCEPT !.revision = 1]
             /\ history' = <<[previous |-> "saved", status |-> "saved", evidence |-> FALSE,
                              text |-> 0, asked |-> TRUE]>>
    <3>1. lead'.revision = 1 /\ lead'.status = "saved" /\ lead'.evidence = FALSE
      BY <1>0, <2>1 DEF UnsavedIsPlain, TypeInv, ApplicationsTypeOK, Lead
    <3>2. /\ Len(history') = 1 /\ history'[1].status = "saved"
          /\ history'[1].previous = "saved" /\ history'[1].evidence = FALSE
      BY <2>1
    <3>3. "saved" \notin Progressed
      BY StatusesAssumption
    <3>4. \A i \in 1..Len(history') :
            history'[i].asked /\ history'[i].status \in Progressed \ {history'[i].previous} =>
              history'[i].evidence
      BY <3>2, <3>3
    <3>6. 2..Len(history') = {}
      BY <3>2
    <3>7. lead'.status = history'[lead'.revision].status
          /\ lead'.evidence = history'[lead'.revision].evidence
      BY <3>1, <3>2, Zenon
    <3>8. Len(history') = lead'.revision
      BY <3>1, <3>2, Zenon
    <3>5. HistoryTellsLead'
      BY <3>4, <3>6, <3>7, <3>8, Zenon DEF HistoryTellsLead
    <3>. QED
      BY <3>1, <3>5 DEF HistoryInv, UnsavedIsPlain
  <2>2. ASSUME NEW t \in Tabs, NEW status \in Statuses,
               NEW claim \in {"absent", "report", "remove"}, EditLead(t, status, claim)
        PROVE  HistoryInv'
    <3>1. HistoryTellsLead'
      BY <1>0, <2>2, EditGoesOn
    <3>2. lead'.revision # 0
      BY <2>2, BoundsAssumption DEF EditLead, TypeInv, ApplicationsTypeOK, Lead, Revisions
    <3>. QED
      BY <3>1, <3>2 DEF HistoryInv, UnsavedIsPlain
  <2>. QED
    BY <1>2, <2>1, <2>2 DEF LeadRevised
<1>. QED
  BY <1>1, <1>2, OnlyTheOwnerRevises

LEMMA HistoryHolds == Spec => []HistoryInv
BY HistoryInit, HistoryNext, TypeHolds, PTL DEF Spec

\* The history of a lead has every revision once, in order, goes on from what the one
\* before left, and ends with the row; no report of an application is ever lost and
\* no status of an application is without one, whatever tabs edit it at once.
THEOREM HistoryAlwaysTellsLead == Spec => []HistoryTellsLead
<1>1. HistoryInv => HistoryTellsLead
  BY DEF HistoryInv
<1>. QED
  BY <1>1, HistoryHolds, PTL

-----------------------------------------------------------------------------
(* What the author of an edit had before them *)

\* The editor starts anew with every revision that is fetched, so that the text in
\* it is of the revision that will be sent.
FormIsCurrent == \A t \in Tabs : tab[t].text = tab[t].lead

InformedInv == FormIsCurrent /\ LeadEditsAreInformed

LEMMA FetchedForm ==
  ASSUME tab \in [Tabs -> Tab], FormIsCurrent, NEW t \in Tabs, NEW revision,
         Fetched(t, revision)
  PROVE  FormIsCurrent'
<1>. DEFINE r == IF Remounted(t, revision) THEN revision ELSE tab[t].text
            d == IF Remounted(t, revision) THEN NoRound ELSE tab[t].draft
            b == IF Remounted(t, revision) THEN 0 ELSE tab[t].base
<1>1. r = revision
  BY DEF FormIsCurrent, Remounted
<1>2. tab' = [tab EXCEPT ![t].lead = revision, ![t].text = r, ![t].draft = d, ![t].base = b]
  BY DEF Fetched
<1>. HIDE DEF r, d, b
<1>3. tab' = [tab EXCEPT ![t] = [tab[t] EXCEPT !.lead = revision, !.text = r, !.draft = d,
                                               !.base = b]]
  BY <1>2
<1>4. tab'[t].lead = revision /\ tab'[t].text = r
  BY <1>3 DEF Tab
<1>5. \A s \in Tabs \ {t} : tab'[s] = tab[s]
  BY <1>3
<1>. QED
  BY <1>1, <1>4, <1>5 DEF FormIsCurrent

\* A step that touches neither of the two fields.
LEMMA KeptForm ==
  ASSUME FormIsCurrent, \A s \in Tabs : tab'[s].lead = tab[s].lead /\ tab'[s].text = tab[s].text
  PROVE  FormIsCurrent'
BY DEF FormIsCurrent

LEMMA FormNext ==
  ASSUME TypeInv, FormIsCurrent, [Next]_vars
  PROVE  FormIsCurrent'
<1>0. tab \in [Tabs -> Tab]
  BY DEF TypeInv, ApplicationsTypeOK
<1>1. ASSUME NEW t \in Tabs, TabStep(t) PROVE FormIsCurrent'
  <2>1. CASE SaveLead(t)
    BY <2>1, <1>0, FetchedForm DEF SaveLead
  <2>2. CASE OpenLead(t)
    BY <2>2, <1>0, FetchedForm DEF OpenLead
  <2>3. ASSUME NEW status \in Statuses, NEW claim \in {"absent", "report", "remove"},
               EditLead(t, status, claim)
        PROVE  FormIsCurrent'
    BY <2>3, <1>0, FetchedForm DEF EditLead
  <2>4. CASE SeeRounds(t)
    BY <2>4, <1>0, KeptForm DEF SeeRounds, Tab
  <2>5. ASSUME NEW k \in Rounds, BeginEdit(t, k) PROVE FormIsCurrent'
    BY <2>5, <1>0, KeptForm DEF BeginEdit, Tab
  <2>6. CASE CancelEdit(t)
    BY <2>6, <1>0, KeptForm DEF CancelEdit, Tab
  <2>7. ASSUME NEW k \in Rounds, NEW plan \in Plans, CreateRound(t, k, plan)
        PROVE  FormIsCurrent'
    BY <2>7, <1>0, KeptForm DEF CreateRound, Tab
  <2>8. ASSUME NEW plan \in Plans, SubmitRound(t, plan) PROVE FormIsCurrent'
    BY <2>8, <1>0, KeptForm DEF SubmitRound, Tab
  <2>. QED
    BY <1>1, <2>1, <2>2, <2>3, <2>4, <2>5, <2>6, <2>7, <2>8 DEF TabStep
<1>2. ASSUME NEW p \in Publishers, Look(p) \/ Lock(p) \/ Publish(p) \/ RollBack(p)
      PROVE  UNCHANGED tab
  BY <1>2 DEF Look, Lock, Publish, RollBack
<1>3. CASE SetPreference \/ Tick \/ UNCHANGED vars
  BY <1>3 DEF SetPreference, Tick, vars, FormIsCurrent
<1>. QED
  BY <1>1, <1>2, <1>3 DEF Next, FormIsCurrent

LEMMA InformedInit == Init => InformedInv
<1>. SUFFICES ASSUME Init PROVE InformedInv
  OBVIOUS
<1>1. FormIsCurrent
  BY DEF Init, FormIsCurrent
<1>2. CASE Unsaved
  BY <1>1, <1>2 DEF Unsaved, InformedInv, LeadEditsAreInformed
<1>3. ASSUME NEW status, Legacy(status) PROVE InformedInv
  <2>1. Len(history) = 2 /\ history[1].text = 0 /\ history[2].text = 1
    BY <1>3 DEF Legacy
  <2>. QED
    BY <1>1, <2>1 DEF InformedInv, LeadEditsAreInformed
<1>. QED
  BY <1>2, <1>3 DEF Init

LEMMA InformedNext ==
  TypeInv /\ HistoryInv /\ InformedInv /\ [Next]_vars => InformedInv'
<1>. SUFFICES ASSUME TypeInv, HistoryInv, InformedInv, [Next]_vars PROVE InformedInv'
  OBVIOUS
<1>1. FormIsCurrent'
  BY FormNext DEF InformedInv
<1>2. CASE UNCHANGED <<lead, history>>
  BY <1>1, <1>2 DEF InformedInv, LeadEditsAreInformed
<1>3. CASE LeadRevised
  <2>1. CASE history' = <<[previous |-> "saved", status |-> "saved", evidence |-> FALSE,
                           text |-> 0, asked |-> TRUE]>>
    <3>1. Len(history') = 1 /\ history'[1].text = 0
      BY <2>1
    <3>. QED
      BY <1>1, <3>1 DEF InformedInv, LeadEditsAreInformed
  <2>2. ASSUME NEW t \in Tabs, NEW status \in Statuses,
               NEW claim \in {"absent", "report", "remove"}, EditLead(t, status, claim)
        PROVE  InformedInv'
    <3>. DEFINE e == [previous |-> lead.status, status |-> status,
                      evidence |-> EvidenceAfter(claim), text |-> tab[t].text, asked |-> TRUE]
                n == Len(history)
    <3>1. history \in Seq(Entry) /\ n \in Nat /\ history' = Append(history, e)
      BY <2>2 DEF EditLead, TypeInv, ApplicationsTypeOK
    <3>2. e.text = n
      BY <2>2 DEF EditLead, Current, InformedInv, FormIsCurrent, HistoryInv, HistoryTellsLead
    <3>. HIDE DEF e
    <3>3. Len(history') = n + 1 /\ history'[n + 1] = e /\ \A i \in 1..n : history'[i] = history[i]
      BY <3>1
    <3>4. \A i \in 1..n : history'[i].text = i - 1
      BY <3>3 DEF InformedInv, LeadEditsAreInformed
    <3>. HIDE DEF n
    <3>5. \A i \in 1..Len(history') : history'[i].text = i - 1
      BY <3>1, <3>2, <3>3, <3>4
    <3>. QED
      BY <1>1, <3>5 DEF InformedInv, LeadEditsAreInformed
  <2>. QED
    BY <1>3, <2>1, <2>2 DEF LeadRevised
<1>. QED
  BY <1>2, <1>3, OnlyTheOwnerRevises

\* No edit of a lead replaces a text that its author had not before them, whatever
\* tabs are open and whenever they fetch it.
THEOREM LeadEditsAreAlwaysInformed == Spec => []LeadEditsAreInformed
<1>1. Spec => []InformedInv
  BY InformedInit, InformedNext, TypeHolds, HistoryHolds, PTL DEF Spec
<1>2. InformedInv => LeadEditsAreInformed
  BY DEF InformedInv
<1>. QED
  BY <1>1, <1>2, PTL

-----------------------------------------------------------------------------
(* The reminders *)

\* A pass began before now.
PassesBegan == \A p \in Publishers : pass[p].now <= now

LEMMA RetiredOnce ==
  ASSUME notices \subseteq Notice, OneNoticePerTime, NEW K, NEW R, NEW time,
         NEW a \in Retired(K, R, time), NEW b \in Retired(K, R, time),
         a.round = b.round, a.at = b.at
  PROVE  a = b
<1>1. PICK m \in notices : /\ m.round = a.round /\ m.at = a.at /\ m.by = a.by
                           /\ a = IF m.round \in K /\ ~Reminds(m, R, time)
                                  THEN [m EXCEPT !.retired = TRUE] ELSE m
  BY RetiredNotices
<1>2. PICK n \in notices : /\ n.round = b.round /\ n.at = b.at /\ n.by = b.by
                           /\ b = IF n.round \in K /\ ~Reminds(n, R, time)
                                  THEN [n EXCEPT !.retired = TRUE] ELSE n
  BY RetiredNotices
<1>3. m = n
  BY <1>1, <1>2 DEF OneNoticePerTime
<1>. QED
  BY <1>1, <1>2, <1>3

\* What the notices become in any step.
LEMMA NoticesMade ==
  ASSUME TypeInv, [Next]_vars
  PROVE  \/ UNCHANGED notices
         \/ \E K, R, time : notices' = Retired(K, R, time)
         \/ \E p \in Publishers : Publish(p)
<1>1. ASSUME NEW t \in Tabs, TabStep(t)
      PROVE  UNCHANGED notices \/ \E K, R, time : notices' = Retired(K, R, time)
  <2>1. CASE SaveLead(t) \/ OpenLead(t) \/ SeeRounds(t) \/ CancelEdit(t)
    BY <2>1 DEF SaveLead, OpenLead, SeeRounds, CancelEdit, server
  <2>2. ASSUME NEW status \in Statuses, NEW claim \in {"absent", "report", "remove"},
               EditLead(t, status, claim)
        PROVE  UNCHANGED notices
    BY <2>2 DEF EditLead
  <2>3. ASSUME NEW k \in Rounds, BeginEdit(t, k) \/ \E plan \in Plans : CreateRound(t, k, plan)
        PROVE  UNCHANGED notices
    BY <2>3 DEF BeginEdit, CreateRound, server
  <2>4. ASSUME NEW plan \in Plans, SubmitRound(t, plan)
        PROVE  \E K, R, time : notices' = Retired(K, R, time)
    BY <2>4 DEF SubmitRound
  <2>. QED
    BY <1>1, <2>1, <2>2, <2>3, <2>4 DEF TabStep
<1>2. ASSUME NEW p \in Publishers, Look(p) \/ Lock(p) \/ RollBack(p) PROVE UNCHANGED notices
  BY <1>2 DEF Look, Lock, RollBack
<1>3. CASE SetPreference \/ Tick \/ UNCHANGED vars
  BY <1>3 DEF SetPreference, Tick, vars
<1>. QED
  BY <1>1, <1>2, <1>3 DEF Next

\* A notice after Publish is one from before, retired or not, or is inserted.
LEMMA Published ==
  ASSUME NEW p \in Publishers, Publish(p), NEW n \in notices'
  PROVE  \/ n \in Retired(pass[p].stale, rounds, pass[p].now)
         \/ \E k \in Inserted(p) :
              n = [round |-> k, at |-> rounds[k].reminder, retired |-> FALSE, by |-> p]
BY DEF Publish

LEMMA OneNoticeNext ==
  TypeInv /\ OneNoticePerTime /\ [Next]_vars => OneNoticePerTime'
<1>. SUFFICES ASSUME TypeInv, OneNoticePerTime, [Next]_vars PROVE OneNoticePerTime'
  OBVIOUS
<1>0. notices \subseteq Notice
  BY DEF TypeInv, ApplicationsTypeOK
<1>1. CASE UNCHANGED notices
  BY <1>1 DEF OneNoticePerTime
<1>2. ASSUME NEW K, NEW R, NEW time, notices' = Retired(K, R, time) PROVE OneNoticePerTime'
  BY <1>0, <1>2, RetiredOnce DEF OneNoticePerTime
<1>3. ASSUME NEW p \in Publishers, Publish(p) PROVE OneNoticePerTime'
  <2>. DEFINE old == Retired(pass[p].stale, rounds, pass[p].now)
  <2>1. SUFFICES ASSUME NEW a \in notices', NEW b \in notices', a.round = b.round, a.at = b.at
                 PROVE  a = b
    BY DEF OneNoticePerTime
  <2>2. ASSUME NEW o \in old, NEW k \in Inserted(p), o.round = k, o.at = rounds[k].reminder
        PROVE  FALSE
    <3>1. PICK m \in notices : m.round = o.round /\ m.at = o.at
      BY <1>0, RetiredNotices
    <3>. QED
      BY <2>2, <3>1 DEF Inserted, Told
  <2>3. CASE a \in old /\ b \in old
    BY <1>0, <2>1, <2>3, RetiredOnce
  <2>. HIDE DEF old
  <2>4. /\ a \in old \/ \E k \in Inserted(p) :
             a = [round |-> k, at |-> rounds[k].reminder, retired |-> FALSE, by |-> p]
        /\ b \in old \/ \E k \in Inserted(p) :
             b = [round |-> k, at |-> rounds[k].reminder, retired |-> FALSE, by |-> p]
    BY <1>3, Published DEF old
  <2>5. ASSUME NEW i \in Inserted(p), NEW j \in Inserted(p),
               a = [round |-> i, at |-> rounds[i].reminder, retired |-> FALSE, by |-> p],
               b = [round |-> j, at |-> rounds[j].reminder, retired |-> FALSE, by |-> p]
        PROVE  a = b
    <3>1. i = j
      BY <2>1, <2>5
    <3>. QED
      BY <2>5, <3>1
  <2>6. ASSUME NEW o \in old, NEW k \in Inserted(p), NEW c,
               c = [round |-> k, at |-> rounds[k].reminder, retired |-> FALSE, by |-> p],
               o.round = c.round, o.at = c.at
        PROVE  FALSE
    <3>1. c.round = k /\ c.at = rounds[k].reminder
      BY <2>6
    <3>. QED
      BY <2>2, <2>6, <3>1
  <2>. QED
    BY <2>1, <2>3, <2>4, <2>5, <2>6, Zenon
<1>. QED
  BY <1>1, <1>2, <1>3, NoticesMade

\* A reminder of a round and a time is made once, by any number of publishers whose
\* passes see each other late or are rolled back.
THEOREM OneNoticePerTimeAlways == Spec => []OneNoticePerTime
<1>1. Init => OneNoticePerTime
  BY DEF Init, OneNoticePerTime
<1>. QED
  BY <1>1, OneNoticeNext, TypeHolds, PTL DEF Spec

LEMMA PassesInit == Init => PassesBegan
BY BoundsAssumption DEF Init, PassesBegan, Idle

LEMMA PassesNext == TypeInv /\ PassesBegan /\ [Next]_vars => PassesBegan'
<1>. SUFFICES ASSUME TypeInv, PassesBegan, [Next]_vars PROVE PassesBegan'
  OBVIOUS
<1>0. /\ pass \in [Publishers -> Pass] /\ now \in Nat
      /\ \A q \in Publishers : pass[q].now \in Nat /\ pass[q].now <= now
  BY BoundsAssumption DEF TypeInv, ApplicationsTypeOK, Pass, Times, PassesBegan
<1>1. ASSUME NEW t \in Tabs, TabStep(t) PROVE UNCHANGED <<pass, now>>
  BY <1>1 DEF TabStep, SaveLead, OpenLead, EditLead, SeeRounds, BeginEdit, CreateRound, CancelEdit,
              SubmitRound, server
<1>2. ASSUME NEW p \in Publishers, Look(p) PROVE PassesBegan'
  <2>1. now' = now /\ pass'[p].now = now /\ \A q \in Publishers \ {p} : pass'[q] = pass[q]
    BY <1>2, <1>0 DEF Look
  <2>. QED
    BY <2>1, <1>0 DEF PassesBegan
<1>3. ASSUME NEW p \in Publishers, Lock(p) PROVE PassesBegan'
  <2>1. now' = now /\ pass'[p].now = pass[p].now
    BY <1>3, <1>0 DEF Lock, Pass
  <2>2. \A q \in Publishers \ {p} : pass'[q] = pass[q]
    BY <1>3, <1>0 DEF Lock
  <2>. QED
    BY <2>1, <2>2, <1>0 DEF PassesBegan
<1>4. ASSUME NEW p \in Publishers, Publish(p) \/ RollBack(p) PROVE PassesBegan'
  <2>1. now' = now /\ pass'[p].now = 0 /\ \A q \in Publishers \ {p} : pass'[q] = pass[q]
    BY <1>4, <1>0 DEF Publish, RollBack, Idle
  <2>. QED
    BY <2>1, <1>0 DEF PassesBegan
<1>5. CASE SetPreference \/ Tick \/ UNCHANGED vars
  BY <1>5, <1>0 DEF SetPreference, Tick, vars, PassesBegan
<1>. QED
  BY <1>1, <1>2, <1>3, <1>4, <1>5 DEF Next, PassesBegan

LEMMA WantedStep ==
  ASSUME TypeInv, PassesBegan, [Next]_vars, NEW n \in notices',
         ~\E m \in notices : m.round = n.round /\ m.at = n.at /\ m.by = n.by
  PROVE  enabled /\ rounds[n.round].scheduled /\ rounds[n.round].reminder = n.at /\ n.at <= now
<1>0. notices \subseteq Notice
  BY DEF TypeInv, ApplicationsTypeOK
<1>1. ~UNCHANGED notices
  OBVIOUS
<1>2. ~\E K, R, time : notices' = Retired(K, R, time)
  BY <1>0, RetiredNotices
<1>3. PICK p \in Publishers : Publish(p)
  BY <1>1, <1>2, NoticesMade
<1>4. n \notin Retired(pass[p].stale, rounds, pass[p].now)
  BY <1>0, RetiredNotices
<1>5. PICK k \in Inserted(p) :
        n = [round |-> k, at |-> rounds[k].reminder, retired |-> FALSE, by |-> p]
  BY <1>3, <1>4, Published
<1>6. n.round = k /\ n.at = rounds[k].reminder
  BY <1>5
<1>7. enabled /\ rounds[k].scheduled /\ rounds[k].reminder <= pass[p].now
  BY <1>5 DEF Inserted, Wanted, Due
<1>8. rounds[k].reminder \in Nat /\ pass[p].now \in Nat /\ now \in Nat /\ pass[p].now <= now
  <2>1. k \in Rounds
    <3>1. pass[p] \in Pass
      BY DEF TypeInv, ApplicationsTypeOK
    <3>. QED
      BY <1>5, <3>1 DEF Pass, Inserted
  <2>2. Times \subseteq Nat
    BY BoundsAssumption DEF Times
  <2>3. rounds[k] \in Round /\ pass[p] \in Pass /\ now \in Times
    BY <2>1 DEF TypeInv, ApplicationsTypeOK
  <2>. QED
    BY <2>2, <2>3 DEF Pass, Round, PassesBegan
<1>. QED
  BY <1>6, <1>7, <1>8

\* A reminder is made only while the owner wants reminders, of a round that is
\* scheduled, at the time asked for or later: also when all of it changed between
\* the query and the insertion.
THEOREM NoticesAreAlwaysWanted == Spec => NoticesAreWanted
<1>1. TypeInv /\ PassesBegan /\ [Next]_vars =>
        [\A n \in notices' :
           (~\E m \in notices : m.round = n.round /\ m.at = n.at /\ m.by = n.by) =>
             enabled /\ rounds[n.round].scheduled /\ rounds[n.round].reminder = n.at /\ n.at <= now]_vars
  BY WantedStep
<1>2. Spec => []PassesBegan
  BY PassesInit, PassesNext, TypeHolds, PTL DEF Spec
<1>. QED
  BY <1>1, <1>2, TypeHolds, PTL DEF Spec, NoticesAreWanted

=============================================================================
