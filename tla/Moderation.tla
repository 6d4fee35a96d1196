------------------------------ MODULE Moderation ------------------------------
(* Reports about one person, the moderators who open and close them, and what  *)
(* their verdicts do to that person's sessions.                                *)
(* apps/api/src: messages/reports.service.ts, moderation/moderation.service.ts,*)
(* db/{message-reports,moderation}.ts, issueSession of auth/auth.service.ts;   *)
(* apps/web/src/features/moderation/ModerationPage.tsx.                        *)
(*                                                                             *)
(* A report is one person's of one message: filed again, the same row.  (That  *)
(* of a person is a new row once closed, and left out.)  A transaction of      *)
(* resolve waits at the report's row for another and then sees its end, so it  *)
(* is one step.                                                                *)
EXTENDS Integers

CONSTANTS Moderators, Reports, Sessions, MaxFilings, MaxTime, Days

VARIABLES
  now,
  report,   \* report[i]: its status, and which filing it holds (createdAt)
  filings,
  person,   \* until when the reported one is suspended, and whether banned
  verdicts, \* audit log: how often each filing was closed
  page,     \* page[m]: the reports loaded on the moderator's page, as they were
  console,  \* console[m]: the request at work
  session,  \* the person's sign-ins
  excused   \* sign-ins that may outlive a restriction: see SessionsEnd

vars == <<now, report, filings, person, verdicts, page, console, session, excused>>
queue == <<report, filings, verdicts>>
signIns == <<session, excused>>

Actions == {"dismiss", "suspend", "ban"} \* a warning closes a report as dismiss does
Status == {"none", "open", "closed"}
Idle == [do |-> "none", at |-> "idle", report |-> "none", until |-> 0]

TypeOK ==
  /\ now \in 0..MaxTime /\ filings \in 0..MaxFilings /\ verdicts \in [1..MaxFilings -> Nat]
  /\ report \in [Reports -> [status : Status, filed : 0..MaxFilings]]
  /\ person \in [until : 0..(MaxTime + Days), banned : BOOLEAN]
  /\ page \in [Moderators -> [Reports -> Status]]
  /\ \A m \in Moderators : console[m].at \in {"idle", "asked", "checked", "follow"}
  /\ session \in [Sessions -> {"none", "checked", "live", "ended"}] /\ excused \subseteq Sessions

Init ==
  /\ now = 0 /\ report = [i \in Reports |-> [status |-> "none", filed |-> 0]] /\ filings = 0
  /\ person = [until |-> 0, banned |-> FALSE] /\ verdicts = [n \in 1..MaxFilings |-> 0]
  /\ page = [m \in Moderators |-> [i \in Reports |-> "none"]]
  /\ console = [m \in Moderators |-> Idle]
  /\ session = [s \in Sessions |-> "none"] /\ excused = {}

Open(i) == report[i].status = "open"
Restricted == person.banned \/ person.until > now
Live == {s \in Sessions : session[s] = "live"}

(******************************* Reports **********************************)

\* A report filed again is back in the queue.
Filed(i) == [report EXCEPT ![i] = [status |-> "open", filed |-> filings + 1]]
File(i) ==
  /\ filings < MaxFilings /\ filings' = filings + 1 /\ report' = Filed(i)
  /\ UNCHANGED <<now, person, verdicts, page, console, signIns>>

(******************************* Opening one ******************************)

\* getReport answers with the report once the view is in the audit log; the
\* page loads it once (staleTime Infinity).
GetReport(m, i) ==
  /\ page[m][i] = "none" /\ report[i].status # "none"
  /\ page' = [page EXCEPT ![m][i] = report[i].status]
  /\ UNCHANGED <<now, queue, person, console, signIns>>

Ask(m, do, i) ==
  /\ console[m] = Idle
  /\ console' = [console EXCEPT ![m] = [Idle EXCEPT !.do = do, !.at = "asked", !.report = i]]
Asked(m, do) == console[m].do \in do /\ console[m].at = "asked"
Checked(m, do) == console[m].do \in do /\ console[m].at = "checked"

(******************************** Verdicts ********************************)

\* ActionForm is there while the loaded report has no resolution; the report
\* as it stands decides whether it was already handled.
Resolve(m, i, do) ==
  /\ page[m][i] = "open" /\ Ask(m, do, i)
  /\ UNCHANGED <<now, queue, person, page, signIns>>
Check(m) ==
  /\ Asked(m, Actions)
  /\ console' = [console EXCEPT ![m] =
       IF Open(console[m].report)
         THEN [@ EXCEPT !.at = "checked", !.until = IF console[m].do = "suspend"
                                             THEN now + Days ELSE 0]
         ELSE Idle]
  /\ UNCHANGED <<now, queue, person, page, signIns>>

\* closeReport, restrictUser and insertAudit.
Restrict(m) ==
  CASE console[m].do = "suspend" -> [person EXCEPT !.until = console[m].until]
    [] console[m].do = "ban" -> [person EXCEPT !.banned = TRUE]
    [] OTHER -> person
ApplyAgain(m) ==
  LET do == console[m].do  i == console[m].report  harsh == do \in {"suspend", "ban"} IN
  /\ Checked(m, Actions)
  /\ report' = [report EXCEPT ![i].status = "closed"]
  /\ verdicts' = [verdicts EXCEPT ![report[i].filed] = @ + 1]
  /\ person' = Restrict(m) /\ page' = [page EXCEPT ![m][i] = "none"]
  /\ console' = [console EXCEPT ![m] = IF harsh THEN [@ EXCEPT !.at = "follow"] ELSE Idle]
  /\ excused' = IF harsh THEN excused \cup {s \in Sessions : session[s] = "checked"} ELSE excused
  /\ UNCHANGED <<now, filings, session>>
Apply(m) == Checked(m, Actions) /\ Open(console[m].report) /\ ApplyAgain(m)
Conflict(m) ==
  /\ Checked(m, Actions) /\ ~Open(console[m].report)
  /\ console' = [console EXCEPT ![m] = Idle]
  /\ UNCHANGED <<now, queue, person, page, signIns>>

\* afterAction: every session of the person ends; best effort.
FollowUp(m) ==
  /\ console[m].at = "follow" /\ console' = [console EXCEPT ![m] = Idle]
  /\ session' = [s \in Sessions |-> IF s \in Live THEN "ended" ELSE session[s]]
  /\ UNCHANGED <<now, queue, person, page, excused>>
FollowUpFails(m) ==
  /\ console[m].at = "follow" /\ console' = [console EXCEPT ![m] = Idle] /\ excused' = excused \cup Live
  /\ UNCHANGED <<now, queue, person, page, session>>

\* The button is on the report of one the page holds for restricted.
Lift(m) ==
  /\ \E i \in Reports : page[m][i] # "none" /\ Ask(m, "lift", "none")
  /\ UNCHANGED <<now, queue, person, page, signIns>>
CheckLift(m) ==
  /\ Asked(m, {"lift"})
  /\ console' = [console EXCEPT ![m] = IF Restricted THEN [@ EXCEPT !.at = "checked"] ELSE Idle]
  /\ UNCHANGED <<now, queue, person, page, signIns>>
DoLift(m) ==
  /\ Checked(m, {"lift"}) /\ console' = [console EXCEPT ![m] = Idle]
  /\ person' = [until |-> 0, banned |-> FALSE]
  /\ UNCHANGED <<now, queue, page, signIns>>

(******************************** The person ******************************)

\* issueSession refuses the restricted, and then inserts the refresh token.
SignInAnyway(s) ==
  /\ session[s] = "none" /\ session' = [session EXCEPT ![s] = "checked"]
  /\ UNCHANGED <<now, queue, person, page, console, excused>>
SignIn(s) == ~Restricted /\ SignInAnyway(s)
Issue(s) ==
  /\ session[s] = "checked" /\ session' = [session EXCEPT ![s] = "live"]
  /\ UNCHANGED <<now, queue, person, page, console, excused>>

Tick ==
  /\ now < MaxTime /\ now' = now + 1
  /\ UNCHANGED <<queue, person, page, console, signIns>>

Next ==
  \/ \E i \in Reports : File(i)
  \/ \E m \in Moderators :
       \/ \E i \in Reports : \/ GetReport(m, i)
                             \/ \E do \in Actions : Resolve(m, i, do)
       \/ Lift(m) \/ Check(m) \/ Apply(m) \/ Conflict(m)
       \/ FollowUp(m) \/ FollowUpFails(m) \/ CheckLift(m) \/ DoLift(m)
  \/ \E s \in Sessions : SignIn(s) \/ Issue(s)
  \/ Tick

Spec == Init /\ [][Next]_vars

(******************************* Properties *******************************)

\* A report is handled once each time it is filed, whoever else has it open
\* ("already closed (by someone else, say)", db/moderation.ts:155).
HandledOnce == \A n \in 1..MaxFilings : verdicts[n] <= 1

\* "Suspensions and bans end every session now" (moderation.service.ts:201):
\* once the follow-up is done no session is left but those a sign-in was about
\* to issue, and those of a follow-up that failed.
SessionsEnd ==
  Restricted /\ (\A m \in Moderators : console[m].at # "follow") => Live \subseteq excused
=============================================================================
