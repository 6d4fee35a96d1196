------------------------------- MODULE SignIn -------------------------------
(* How one account proves who it is: by password, with a delay that grows  *)
(* after failures, or by an emailed link or six-digit code; and how its    *)
(* address gets verified.  apps/api/src/auth/auth.service.ts,              *)
(* db/auth-tokens.ts, db/users.ts.                                         *)
(*                                                                         *)
(* Each SQL statement is a step.  A request may be dropped between two     *)
(* statements (the process dies).  An email is written in several          *)
(* statements; its token and code may expire at any time.                  *)
EXTENDS Integers, FiniteSets

CONSTANTS
  Emails,        \* emails with a sign-in link and a code
  Requests,      \* requests served at the same time
  MaxFailures,   \* LIMITS.loginCodeMaxFailures
  Threshold,     \* LIMITS.loginAttemptsBeforeLockout
  PerWindow,     \* LIMITS.loginLinksPerWindow
  MaxAttempts,   \* bound on the counters
  NoEmail        \* what a guess that is not a code of the account names

VARIABLES
  link, code,    \* of each email: "none", "fresh" or "used"
  verifyToken,   \* the token of the verification email: likewise
  verified,      \* users.email_verified_at is set
  attempts,      \* users.failed_login_attempts
  delayed,       \* users.locked_until lies ahead
  codeFailures,  \* users.login_code_failures
  task           \* the requests

vars == <<link, code, verifyToken, verified, attempts, delayed, codeFailures, task>>
tokens == <<link, code, verifyToken>>
account == <<verified, attempts, delayed, codeFailures>>

Idle == [at |-> "idle", email |-> NoEmail]

TypeOK ==
  /\ link \in [Emails -> {"none", "fresh", "used"}]
  /\ code \in [Emails -> {"none", "fresh", "used"}]
  /\ verifyToken \in {"none", "fresh", "used"} /\ verified \in BOOLEAN
  /\ attempts \in 0..MaxAttempts /\ delayed \in BOOLEAN
  /\ codeFailures \in 0..MaxAttempts
  /\ task \in [Requests -> [at : {"idle", "mailLink", "mailCode", "mailReset", "right",
                                  "wrong", "welcome", "guess", "miss", "void", "mark",
                                  "useLinks", "useCodes", "verify", "reset", "issue"},
                            email : Emails \cup {NoEmail}]]

Init ==
  /\ link = [e \in Emails |-> "none"] /\ code = [e \in Emails |-> "none"]
  /\ verifyToken = "fresh" /\ verified = FALSE
  /\ attempts = 0 /\ delayed = FALSE /\ codeFailures = 0
  /\ task = [r \in Requests |-> Idle]

At(r, label) == task[r].at = label
Begin(r, label, e) == task' = [task EXCEPT ![r] = [at |-> label, email |-> e]]
Goto(r, label) == task' = [task EXCEPT ![r].at = label]
Done(r) == task' = [task EXCEPT ![r] = Idle]

\* consumeAllAuthTokens of one purpose
Consumed(tok) == [e \in Emails |-> IF tok[e] = "fresh" THEN "used" ELSE tok[e]]

(******************************* Password *********************************)

\* login(): the user's row is read, and refused while the delay runs; the
\* password takes long to check.
StartPassword(r, right) ==
  /\ At(r, "idle") /\ ~delayed
  /\ Begin(r, IF right THEN "right" ELSE "wrong", NoEmail)
  /\ UNCHANGED <<tokens, account>>

\* recordFailedLogin: one UPDATE, which starts over when the last failure is
\* old enough.
RecordFailure(r) ==
  /\ At(r, "wrong") /\ attempts < MaxAttempts
  /\ attempts' \in {attempts + 1, 1}
  /\ delayed' = (attempts' >= Threshold)
  /\ Done(r)
  /\ UNCHANGED <<tokens, verified, codeFailures>>

ResetFailedLogins == attempts' = 0 /\ delayed' = FALSE /\ codeFailures' = 0

RightPassword(r) ==
  /\ At(r, "right") /\ ResetFailedLogins
  /\ IF verified THEN Goto(r, "issue") ELSE Done(r)
  /\ UNCHANGED <<tokens, verified>>

DelayOver ==
  /\ delayed /\ delayed' = FALSE
  /\ UNCHANGED <<tokens, verified, attempts, codeFailures, task>>

(************************** The sign-in email *****************************)

Sent == {e \in Emails : link[e] # "none"}

\* requestLoginLink: at most PerWindow emails a window (the window never
\* ends here), then the link, the code, a fresh set of tries, the mail.
StartMail(r, e) ==
  /\ At(r, "idle") /\ link[e] = "none" /\ \A s \in Requests : task[s].email # e
  /\ Cardinality(Sent) < PerWindow
  /\ Begin(r, "mailLink", e)
  /\ UNCHANGED <<tokens, account>>

CreateLink(r) ==
  /\ At(r, "mailLink") /\ link' = [link EXCEPT ![task[r].email] = "fresh"]
  /\ Goto(r, "mailCode")
  /\ UNCHANGED <<code, verifyToken, account>>

CreateCode(r) ==
  /\ At(r, "mailCode") /\ code' = [code EXCEPT ![task[r].email] = "fresh"]
  /\ Goto(r, "mailReset")
  /\ UNCHANGED <<link, verifyToken, account>>

FreshTries(r) ==
  /\ At(r, "mailReset") /\ codeFailures' = 0 /\ Done(r)
  /\ UNCHANGED <<tokens, verified, attempts, delayed>>

UseLink(r, e) ==
  /\ At(r, "idle") /\ link[e] = "fresh"
  /\ link' = [link EXCEPT ![e] = "used"] /\ Begin(r, "useLinks", e)
  /\ UNCHANGED <<code, verifyToken, account>>

StartCodeUnchecked(r, e) ==
  /\ At(r, "idle") /\ Begin(r, "guess", e)
  /\ UNCHANGED <<tokens, account>>

\* A code (or, with e = NoEmail, six wrong digits): refused once there were
\* too many failures, then spent by a conditional UPDATE.
StartCode(r, e) ==
  /\ At(r, "idle") /\ codeFailures < MaxFailures
  /\ Begin(r, "guess", e)
  /\ UNCHANGED <<tokens, account>>

UseCode(r) ==
  /\ At(r, "guess")
  /\ IF task[r].email \in Emails /\ code[task[r].email] = "fresh"
     THEN code' = [code EXCEPT ![task[r].email] = "used"] /\ Goto(r, "useLinks")
     ELSE Goto(r, "miss") /\ UNCHANGED code
  /\ UNCHANGED <<link, verifyToken, account>>

TooMany(n) == n >= MaxFailures

RecordCodeFailure(r) ==
  /\ At(r, "miss") /\ codeFailures < MaxAttempts
  /\ codeFailures' = codeFailures + 1
  /\ IF TooMany(codeFailures') THEN Goto(r, "void") ELSE Done(r)
  /\ UNCHANGED <<tokens, verified, attempts, delayed>>

VoidCodes(r) ==
  /\ At(r, "void") /\ code' = Consumed(code) /\ Done(r)
  /\ UNCHANGED <<link, verifyToken, account>>

\* The rest of verifyLoginLink: both halves of every email stop working, the
\* address counts as verified, the failures are forgotten.
UseOtherLinks(r) ==
  /\ At(r, "useLinks") /\ link' = Consumed(link) /\ Goto(r, "useCodes")
  /\ UNCHANGED <<code, verifyToken, account>>

UseOtherCodes(r) ==
  /\ At(r, "useCodes") /\ code' = Consumed(code) /\ Goto(r, "verify")
  /\ UNCHANGED <<link, verifyToken, account>>

MarkVerified(r) ==
  /\ At(r, "verify") /\ verified' = TRUE /\ Goto(r, "reset")
  /\ UNCHANGED <<tokens, attempts, delayed, codeFailures>>

ForgetFailures(r) ==
  /\ At(r, "reset") /\ ResetFailedLogins /\ Goto(r, "issue")
  /\ UNCHANGED <<tokens, verified>>

\* issueSession: from here on module Sessions.
IssueSession(r) ==
  /\ At(r, "issue") /\ Done(r)
  /\ UNCHANGED <<tokens, account>>

(****************************** Verification ******************************)

VerifyEmail(r) ==
  /\ At(r, "idle") /\ verifyToken = "fresh"
  /\ verifyToken' = "used" /\ Begin(r, "mark", NoEmail)
  /\ UNCHANGED <<link, code, account>>

MarkEmail(r) ==
  /\ At(r, "mark") /\ verified' = TRUE /\ Done(r)
  /\ UNCHANGED <<tokens, attempts, delayed, codeFailures>>

\* resendVerification: silent for a verified address.
Resend(r) ==
  /\ At(r, "idle") /\ ~verified /\ verifyToken # "fresh"
  /\ verifyToken' = "fresh"
  /\ UNCHANGED <<link, code, account, task>>

(****************************** Specification *****************************)

Drop(r) == ~At(r, "idle") /\ Done(r) /\ UNCHANGED <<tokens, account>>

Serve(r) ==
  \/ \E right \in BOOLEAN : StartPassword(r, right)
  \/ \E e \in Emails : StartMail(r, e) \/ UseLink(r, e)
  \/ \E e \in Emails \cup {NoEmail} : StartCode(r, e)
  \/ RecordFailure(r) \/ RightPassword(r) \/ CreateLink(r) \/ CreateCode(r)
  \/ FreshTries(r) \/ UseCode(r) \/ RecordCodeFailure(r) \/ VoidCodes(r)
  \/ UseOtherLinks(r) \/ UseOtherCodes(r) \/ MarkVerified(r) \/ ForgetFailures(r)
  \/ IssueSession(r) \/ VerifyEmail(r) \/ MarkEmail(r) \/ Resend(r) \/ Drop(r)

Next == (\E r \in Requests : Serve(r)) \/ DelayOver

Spec == Init /\ [][Next]_vars

(****************************** Properties ********************************)

\* However many guesses run at the same time, at most MaxFailures wrong codes
\* are counted between two resets, and one more for each further request
\* that had passed the check already: the conditional UPDATE counts them all.
GuessesBounded == codeFailures <= MaxFailures + Cardinality(Requests) - 1
=============================================================================
