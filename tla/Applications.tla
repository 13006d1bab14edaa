---------------------------- MODULE Applications ----------------------------
(***************************************************************************)
(* A saved lead and its interview rounds: the rows, guarded by revisions;  *)
(* the browser tabs in which their owner edits them (saved-leads.tsx,      *)
(* interview-organizer.tsx); and the reminders that the publishers make of *)
(* the rounds.                                                             *)
(*                                                                         *)
(* One owner and one lead.  A transaction that locks the row it changes is *)
(* one step; the pass of a publisher, which waits for the owner's advisory *)
(* lock half way, is three.  Tags are left out, and so is what a text      *)
(* says: a text is the revision its author had before them, so that an     *)
(* edit made without having seen another can be told.                      *)
(***************************************************************************)
EXTENDS Naturals, FiniteSets, Sequences

CONSTANTS
  Tabs,
  Publishers,
  Rounds,
  Statuses,     \* statuses of a lead that are used, of these
  Progressed,   \* the ones of an application: applied, rejected, ...
  NoRound,
  MaxTime,      \* bound: the clock
  MaxEdits,     \* bound: revisions, of the lead and of the rounds together
  MaxStops      \* bound: passes that do not commit

ASSUME NullsAssumption == NoRound \notin Rounds
ASSUME StatusesAssumption == "saved" \in Statuses \ Progressed /\ Statuses \subseteq STRING
ASSUME BoundsAssumption == {MaxTime, MaxEdits, MaxStops} \subseteq Nat

VARIABLES
  lead,      \* the row; revision 0: not saved yet
  history,   \* lead_history, and the text that each revision was made from
  rounds,    \* the rows; revision 0: not there
  notices,   \* in_app_notifications, and the publisher that made it
  enabled,   \* the preference for reminders
  pass,      \* pass[p]: the transaction of the publisher
  tab,       \* tab[t]: what the tab has fetched, and what is being edited
  now,
  edits,     \* revisions made
  stops      \* passes that did not commit

vars == <<lead, history, rounds, notices, enabled, pass, tab, now, edits, stops>>

server == <<lead, history, rounds, notices, enabled, pass, now, edits, stops>>

Revisions == 0..MaxEdits
Times == 0..MaxTime

Lead == [revision : Revisions, status : Statuses, evidence : BOOLEAN]
\* asked: made since applications have to be reported.
Entry == [previous : Statuses, status : Statuses, evidence : BOOLEAN, text : Revisions,
          asked : BOOLEAN]
Round == {r \in [revision : Revisions, scheduled : BOOLEAN, starts : Times, reminder : Times,
                  text : Revisions] : r.revision > 0 => r.reminder < r.starts}
Notice == [round : Rounds, at : Times, retired : BOOLEAN, by : Publishers]

\* now: now() of the transaction, the time it began at.
Pass == [at : {"idle", "looked", "locked"}, now : Times, stale : SUBSET Rounds,
         due : SUBSET Rounds]

\* lead, text: the revision of the lead that was fetched, and the one the text in
\* the form is of.  rounds: the revisions that were fetched.  draft, base: the
\* round that is edited, and the revision the form was filled from.
Tab == [lead : Revisions, text : Revisions, rounds : [Rounds -> Revisions],
        draft : Rounds \union {NoRound}, base : Revisions]

ApplicationsTypeOK ==
  /\ lead \in Lead
  /\ history \in Seq(Entry)
  /\ rounds \in [Rounds -> Round]
  /\ notices \subseteq Notice
  /\ enabled \in BOOLEAN
  /\ pass \in [Publishers -> Pass]
  /\ tab \in [Tabs -> Tab]
  /\ now \in Times
  /\ edits \in Revisions
  /\ stops \in 0..MaxStops

Idle == [at |-> "idle", now |-> 0, stale |-> {}, due |-> {}]

Unsaved ==
  /\ lead = [revision |-> 0, status |-> "saved", evidence |-> FALSE]
  /\ history = <<>>
  /\ edits = 0

\* An application from before applications had to be reported.
Legacy(status) ==
  /\ lead = [revision |-> 2, status |-> status, evidence |-> FALSE]
  /\ history = <<[previous |-> "saved", status |-> "saved", evidence |-> FALSE, text |-> 0,
                  asked |-> FALSE],
                 [previous |-> "saved", status |-> status, evidence |-> FALSE, text |-> 1,
                  asked |-> FALSE]>>
  /\ MaxEdits >= 2 /\ edits = 2

Init ==
  /\ Unsaved \/ \E status \in Statuses \intersect Progressed : Legacy(status)
  /\ rounds = [k \in Rounds |-> [revision |-> 0, scheduled |-> FALSE, starts |-> 0,
                                 reminder |-> 0, text |-> 0]]
  /\ notices = {}
  /\ enabled = TRUE
  /\ pass = [p \in Publishers |-> Idle]
  /\ tab = [t \in Tabs |-> [lead |-> 0, text |-> 0, rounds |-> [k \in Rounds |-> 0],
                            draft |-> NoRound, base |-> 0]]
  /\ now = 0 /\ stops = 0

-----------------------------------------------------------------------------
(* The lead *)

\* Mutant: the editor stays mounted when the lead has another revision.
Unkeyed(t, revision) == tab[t].lead = 0

\* The key of the editor is the revision: with another it starts anew.
Remounted(t, revision) == tab[t].lead # revision

\* The tab has fetched the lead.  A draft of a round is lost with the editor.
Fetched(t, revision) ==
  tab' = [tab EXCEPT ![t].lead = revision,
                     ![t].text = IF Remounted(t, revision) THEN revision ELSE @,
                     ![t].draft = IF Remounted(t, revision) THEN NoRound ELSE @,
                     ![t].base = IF Remounted(t, revision) THEN 0 ELSE @]

Revise == edits < MaxEdits /\ edits' = edits + 1

SaveLead(t) ==
  \/ /\ lead.revision = 0
     /\ Revise
     /\ lead' = [lead EXCEPT !.revision = 1]
     /\ history' = <<[previous |-> "saved", status |-> "saved", evidence |-> FALSE, text |-> 0,
                     asked |-> TRUE]>>
     /\ Fetched(t, 1)
     /\ UNCHANGED <<rounds, notices, enabled, pass, now, stops>>
  \/ /\ lead.revision > 0
     /\ Fetched(t, lead.revision)
     /\ UNCHANGED server

\* The query of the lead, when it is stale, or "Discard Edits and Reload".
OpenLead(t) ==
  /\ lead.revision > 0
  /\ Fetched(t, lead.revision)
  /\ UNCHANGED server

EvidenceAfter(claim) == IF claim = "absent" THEN lead.evidence ELSE claim = "report"

\* Mutant: a report can be taken back.
ClaimStandsOrFalls(status, claim) ==
  /\ ~lead.evidence /\ claim = "report" => status \in Progressed
  /\ status \in Progressed \ {lead.status} => lead.evidence \/ EvidenceAfter(claim)

\* What is refused: taking a report back, a report without the status of an
\* application, and such a status without a report.
ClaimStands(status, claim) ==
  /\ ~(claim = "remove" /\ lead.evidence)
  /\ ~lead.evidence /\ claim = "report" => status \in Progressed
  /\ status \in Progressed \ {lead.status} => lead.evidence \/ EvidenceAfter(claim)

Current(t) == lead.revision = tab[t].lead

\* update() with changed notes, a status and perhaps a report, and its answer.  An
\* edit that changes nothing makes no revision: it is no step here.
EditLead(t, status, claim) ==
  /\ tab[t].lead > 0
  /\ Current(t)
  /\ ClaimStands(status, claim)
  /\ Revise
  /\ lead' = [revision |-> lead.revision + 1, status |-> status,
              evidence |-> EvidenceAfter(claim)]
  /\ history' = Append(history, [previous |-> lead.status, status |-> status,
                                 evidence |-> EvidenceAfter(claim), text |-> tab[t].text,
                                 asked |-> TRUE])
  /\ Fetched(t, lead.revision + 1)
  /\ UNCHANGED <<rounds, notices, enabled, pass, now, stops>>

-----------------------------------------------------------------------------
(* The interview rounds *)

\* Rows that a pass has locked.
Locked == UNION {pass[p].stale \union pass[p].due :
                   p \in {q \in Publishers : pass[q].at = "locked"}}

Reminds(n, R, time) ==
  R[n.round].scheduled /\ R[n.round].starts > time /\ R[n.round].reminder = n.at

\* A notice of the rounds K that does not remind of its round any more is retired.
Retired(K, R, time) ==
  {IF n.round \in K /\ ~Reminds(n, R, time) THEN [n EXCEPT !.retired = TRUE] ELSE n :
     n \in notices}

\* Shown for an application.
Organizer(t) == tab[t].lead > 0 /\ history[tab[t].lead].status \in Progressed

\* A reminder is before the interview.
Plans == {f \in [scheduled : BOOLEAN, starts : Times, reminder : Times] : f.reminder < f.starts}

Planned(plan, revision, text) ==
  [revision |-> revision, scheduled |-> plan.scheduled, starts |-> plan.starts,
   reminder |-> plan.reminder, text |-> text]

SeeRounds(t) ==
  /\ Organizer(t)
  /\ tab' = [tab EXCEPT ![t].rounds = [k \in Rounds |-> rounds[k].revision]]
  /\ UNCHANGED server

CreateRound(t, k, plan) ==
  /\ Organizer(t)
  /\ rounds[k].revision = 0
  /\ Revise
  /\ rounds' = [rounds EXCEPT ![k] = Planned(plan, 1, 0)]
  /\ tab' = [tab EXCEPT ![t].rounds = [j \in Rounds |-> rounds'[j].revision],
                        ![t].draft = NoRound, ![t].base = 0]
  /\ UNCHANGED <<lead, history, notices, enabled, pass, now, stops>>

BeginEdit(t, k) ==
  /\ Organizer(t)
  /\ tab[t].rounds[k] > 0
  /\ tab' = [tab EXCEPT ![t].draft = k, ![t].base = tab[t].rounds[k]]
  /\ UNCHANGED server

CancelEdit(t) ==
  /\ tab[t].draft # NoRound
  /\ tab' = [tab EXCEPT ![t].draft = NoRound, ![t].base = 0]
  /\ UNCHANGED server

\* The revision that is sent is the one last fetched.  The rounds are fetched
\* again when the answer arrives.
SubmitRound(t, plan) ==
  LET k == tab[t].draft
  IN /\ k # NoRound
     /\ k \notin Locked
     /\ rounds[k].revision = tab[t].rounds[k]
     /\ Revise
     /\ rounds' = [rounds EXCEPT ![k] = Planned(plan, @.revision + 1, tab[t].base)]
     /\ notices' = Retired({k}, rounds', now)
     /\ tab' = [tab EXCEPT ![t].rounds = [j \in Rounds |-> rounds'[j].revision],
                           ![t].draft = NoRound, ![t].base = 0]
     /\ UNCHANGED <<lead, history, enabled, pass, now, stops>>

SetPreference ==
  /\ enabled' = ~enabled
  /\ UNCHANGED <<lead, history, rounds, notices, pass, tab, now, edits, stops>>

Tick ==
  /\ now < MaxTime
  /\ now' = now + 1
  /\ UNCHANGED <<lead, history, rounds, notices, enabled, pass, tab, edits, stops>>

-----------------------------------------------------------------------------
(* publishDueInterviewReminders() *)

\* Mutant: a round that was told of once needs no other reminder.
ToldOnce(k) == \E n \in notices : n.round = k

Told(k) == \E n \in notices : n.round = k /\ n.at = rounds[k].reminder

Due(k, time) ==
  rounds[k].scheduled /\ rounds[k].reminder <= time /\ rounds[k].starts > time

Stale(k, time) ==
  \E n \in notices : n.round = k /\ ~n.retired /\ ~Reminds(n, rounds, time)

\* The queries see what is committed when they begin ...
Look(p) ==
  LET stale == {k \in Rounds : Stale(k, now)}
      due == {k \in Rounds : enabled /\ Due(k, now) /\ ~Told(k)}
  IN /\ pass[p].at = "idle"
     /\ stale \union due # {}
     /\ pass' = [pass EXCEPT ![p] = [at |-> "looked", now |-> now, stale |-> stale, due |-> due]]
     /\ UNCHANGED <<lead, history, rounds, notices, enabled, tab, now, edits, stops>>

\* ... and lock the rows that nobody has locked.  A row is looked at again when it
\* was changed, the other tables are not.
Lock(p) ==
  /\ pass[p].at = "looked"
  /\ pass' = [pass EXCEPT ![p].at = "locked", ![p].stale = @ \ Locked,
                          ![p].due = {k \in @ \ Locked : Due(k, pass[p].now)}]
  /\ UNCHANGED <<lead, history, rounds, notices, enabled, tab, now, edits, stops>>

\* Mutant: the preference is not read again under the owner's lock.
WantedByNow(k, time) == Due(k, time)

Wanted(k, time) == enabled /\ Due(k, time)

\* Mutant: without the unique key.
InsertedTwice(p) == {k \in pass[p].due : Wanted(k, pass[p].now)}

\* ON CONFLICT DO NOTHING.
Inserted(p) == {k \in pass[p].due : Wanted(k, pass[p].now) /\ ~Told(k)}

\* Under the owner's lock, which a change of the preference takes as well.
Publish(p) ==
  /\ pass[p].at = "locked"
  /\ notices' = Retired(pass[p].stale, rounds, pass[p].now)
                 \union {[round |-> k, at |-> rounds[k].reminder, retired |-> FALSE, by |-> p] :
                           k \in Inserted(p)}
  /\ pass' = [pass EXCEPT ![p] = Idle]
  /\ UNCHANGED <<lead, history, rounds, enabled, tab, now, edits, stops>>

\* The pass is rolled back: the publisher stops, or a statement fails.
RollBack(p) ==
  /\ pass[p].at # "idle"
  /\ stops < MaxStops
  /\ stops' = stops + 1
  /\ pass' = [pass EXCEPT ![p] = Idle]
  /\ UNCHANGED <<lead, history, rounds, notices, enabled, tab, now, edits>>

TabStep(t) ==
  \/ SaveLead(t)
  \/ OpenLead(t)
  \/ \E status \in Statuses, claim \in {"absent", "report", "remove"} :
       EditLead(t, status, claim)
  \/ SeeRounds(t)
  \/ \E k \in Rounds : BeginEdit(t, k) \/ \E plan \in Plans : CreateRound(t, k, plan)
  \/ CancelEdit(t)
  \/ \E plan \in Plans : SubmitRound(t, plan)

Next ==
  \/ \E t \in Tabs : TabStep(t)
  \/ \E p \in Publishers : Look(p) \/ Lock(p) \/ Publish(p) \/ RollBack(p)
  \/ SetPreference
  \/ Tick

Spec == Init /\ [][Next]_vars

\* Publishers run pass after pass.  Nothing is assumed of the owner and the clock.
FairSpec == Spec /\ \A p \in Publishers : WF_vars(Look(p)) /\ WF_vars(Lock(p)) /\ WF_vars(Publish(p))

-----------------------------------------------------------------------------
(* What the rows promise *)

\* lead_history has every revision once, each begins with the status the one
\* before left, the last is what the row says, a report of an application is in
\* every later revision, and since they are asked for the status of an application
\* is not entered without one.
HistoryTellsLead ==
  /\ Len(history) = lead.revision
  /\ \A i \in 2..Len(history) :
       /\ history[i].previous = history[i - 1].status
       /\ history[i - 1].evidence => history[i].evidence
  /\ \A i \in 1..Len(history) :
       history[i].asked /\ history[i].status \in Progressed \ {history[i].previous} =>
         history[i].evidence
  /\ lead.revision > 0 =>
       /\ lead.status = history[lead.revision].status
       /\ lead.evidence = history[lead.revision].evidence

\* Whoever changes the lead had the text before them that the change replaces.
LeadEditsAreInformed == \A i \in 1..Len(history) : history[i].text = i - 1

\* "The round changed since the client read it" (packages/core/src/interviews.ts:100)
\* refuses an edit: whoever changes a round had before them what the change replaces.
RoundEditsAreInformed ==
  \A k \in Rounds : rounds[k].revision > 0 => rounds[k].text = rounds[k].revision - 1

\* A reminder is made once for a round and a time, by whichever publisher.
OneNoticePerTime == \A m, n \in notices : m.round = n.round /\ m.at = n.at => m = n

\* It is made while the owner wants reminders, of a round that is scheduled, at the
\* time that was asked for or later.
NoticesAreWanted ==
  [][\A n \in notices' :
       (~\E m \in notices : m.round = n.round /\ m.at = n.at /\ m.by = n.by) =>
         enabled /\ rounds[n.round].scheduled /\ rounds[n.round].reminder = n.at /\ n.at <= now]_vars

\* A reminder whose time has come is made, or is not due any more.
Missing(k) ==
  /\ enabled /\ Due(k, now)
  /\ ~\E n \in notices : n.round = k /\ n.at = rounds[k].reminder

RemindersArrive == \A k \in Rounds : Missing(k) ~> ~Missing(k)
=============================================================================
