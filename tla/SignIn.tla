------------------------------- MODULE SignIn -------------------------------
(***************************************************************************)
(* Sign-up and sign-in requests for one email address, handled at the same *)
(* time (api/routers/auth.py): emailed one-time codes, Google, and the     *)
(* authenticator app with its backup codes.                                *)
(*                                                                         *)
(* A handler reads the account (and the newest code), works for a while -   *)
(* hashing a password takes long - and writes.  The session of SQLAlchemy  *)
(* then writes the columns it changed and no others.  Time goes in steps   *)
(* of the authenticator.  An emailed code, a secret and a set of backup    *)
(* codes are known by the request that made them; passwords are right or   *)
(* wrong.                                                                  *)
(***************************************************************************)
EXTENDS Integers, FiniteSets

CONSTANTS Requests,          \* requests, each handled once
          Earlier,           \* what was made before the first of them
          Nobody,
          EmailVerification, \* settings.email_verification_required
          Cooldown,          \* settings.otp_resend_cooldown_s
          CodeTtl,           \* settings.otp_ttl_s
          LockTime,          \* five minutes
          MaxAttempts,       \* settings.otp_max_attempts
          MaxNow             \* bound on the clock

ASSUME ConstantsAssumption ==
  /\ Earlier \notin Requests /\ Nobody \notin Requests \cup {Earlier}
  /\ EmailVerification \in BOOLEAN
  /\ {Cooldown, CodeTtl, LockTime} \subseteq Nat /\ MaxAttempts \in Nat \ {0}

Senders == {"signup", "resend", "forgot", "login"}
Kinds == Senders \cup {"verify", "reset", "google", "mfa_verify", "mfa_setup", "mfa_enable", "mfa_disable"}

VARIABLES now,
          account,  \* the row of users
          codes,    \* rows of email_otps
          step,     \* where each request is
          kind,     \* its endpoint
          saw,      \* the account it has read
          sawCode,  \* the newest code it has read
          doomed,   \* codes its DELETE has found
          answer,   \* what it was answered
          emailed,  \* requests whose code has been emailed (history)
          removers, \* requests that removed codes (history)
          accepted, \* second factors that were accepted (history)
          before    \* requests that were over when one began (history)

histories == <<emailed, removers, accepted, before>>
locals == <<kind, saw, sawCode, doomed>>
vars == <<now, account, codes, step, answer, locals, histories>>

Makers == Requests \cup {Earlier, Nobody}

BackupOf(r) == {<<r, 1>>, <<r, 2>>}

NoAccount == [exists |-> FALSE, verified |-> FALSE, google |-> FALSE, secret |-> Nobody, enabled |-> Nobody,
              lastStep |-> 0, backup |-> {}, failures |-> 0, lockedUntil |-> 0]

Unconfirmed == [NoAccount EXCEPT !.exists = TRUE]
Confirmed == [Unconfirmed EXCEPT !.verified = TRUE]
TwoStep == [Confirmed EXCEPT !.secret = Earlier, !.enabled = Earlier, !.backup = BackupOf(Earlier)]

NoCode == [by |-> Nobody, created |-> 0, attempts |-> 0]
NoPaper == <<Nobody, 0>>
NoFactor == [secret |-> Nobody, step |-> 0, paper |-> NoPaper]

Init == /\ now = 1
        /\ account \in {NoAccount, Unconfirmed, Confirmed, TwoStep}
        /\ codes = {}
        /\ step = [r \in Requests |-> "idle"]
        /\ kind = [r \in Requests |-> "none"]
        /\ saw = [r \in Requests |-> NoAccount]
        /\ sawCode = [r \in Requests |-> NoCode]
        /\ doomed = [r \in Requests |-> {}]
        /\ answer = [r \in Requests |-> "none"]
        /\ emailed = {} /\ removers = {}
        /\ accepted = [r \in Requests |-> NoFactor]
        /\ before = [r \in Requests |-> {}]

Ended(r) == step[r] = "ended"

Tick == /\ now < MaxNow
        /\ now' = now + 1
        /\ UNCHANGED <<account, codes, step, answer, locals, histories>>

(* The newest code; of codes made at the same time, any.                    *)
Newest == IF codes = {} THEN {NoCode} ELSE {c \in codes : \A d \in codes : d.created <= c.created}

(* Whose address is confirmed may have a session, or have entered the       *)
(* password, from before.                                                  *)
SignedIn == account.exists /\ (account.verified \/ ~EmailVerification)
HasMfaToken == account.enabled = Earlier \/ \E r \in Requests : answer[r] = "mfa_required"

Begin(r, k) == /\ step[r] = "idle"
               /\ k \in {"mfa_setup", "mfa_enable", "mfa_disable"} => SignedIn
               /\ k = "mfa_verify" => HasMfaToken
               /\ step' = [step EXCEPT ![r] = "working"]
               /\ kind' = [kind EXCEPT ![r] = k]
               /\ saw' = [saw EXCEPT ![r] = account]
               /\ \E c \in Newest : sawCode' = [sawCode EXCEPT ![r] = IF k \in {"verify", "reset"} THEN c ELSE NoCode]
               /\ before' = [before EXCEPT ![r] = {q \in Requests : Ended(q)}]
               /\ UNCHANGED <<now, account, codes, doomed, answer, emailed, removers, accepted>>

Working(r, k) == step[r] = "working" /\ kind[r] = k

(* The request is over; what only served to handle it is dropped.           *)
Answer(r, a) == /\ step' = [step EXCEPT ![r] = "ended"]
                /\ answer' = [answer EXCEPT ![r] = a]
                /\ saw' = [saw EXCEPT ![r] = NoAccount]
                /\ sawCode' = [sawCode EXCEPT ![r] = NoCode]
                /\ doomed' = [doomed EXCEPT ![r] = {}]

Continue(r, s) == /\ step' = [step EXCEPT ![r] = s]
                  /\ UNCHANGED <<answer, saw, sawCode, doomed>>

(* A flush writes the columns that differ from what was read.               *)
Save(r, row) == account' = [f \in DOMAIN account |-> IF row[f] # saw[r][f] THEN row[f] ELSE account[f]]

-----------------------------------------------------------------------------
(* _send_new_code.                                                         *)

Refused(r) == CASE kind[r] = "forgot" -> "ok"
                [] kind[r] = "login"  -> "code_required"
                [] OTHER              -> "refused"

CoolingDown == \E c \in Newest : c # NoCode /\ Cooldown > now - c.created

(* Mutant: the pending codes are deleted before the cooldown is looked at.   *)
PurgeFirst(r) == /\ step[r] = "sending"
                 /\ IF CoolingDown
                    THEN Answer(r, Refused(r)) /\ codes' = {} /\ UNCHANGED removers
                    ELSE /\ step' = [step EXCEPT ![r] = "purging"]
                         /\ doomed' = [doomed EXCEPT ![r] = {c.by : c \in codes}]
                         /\ removers' = removers \cup {r}
                         /\ UNCHANGED <<answer, saw, sawCode, codes>>
                 /\ UNCHANGED <<now, account, kind, emailed, accepted, before>>

(* Its DELETE finds the codes committed by now, not those of a transaction  *)
(* that is still open.                                                     *)
Purge(r) == /\ step[r] = "sending"
            /\ IF CoolingDown
               THEN Answer(r, Refused(r)) /\ UNCHANGED removers
               ELSE /\ step' = [step EXCEPT ![r] = "purging"]
                    /\ doomed' = [doomed EXCEPT ![r] = {c.by : c \in codes}]
                    /\ removers' = removers \cup {r}
                    /\ UNCHANGED <<answer, saw, sawCode>>
            /\ UNCHANGED <<now, account, codes, kind, emailed, accepted, before>>

Issue(r) == /\ step[r] = "purging"
            /\ codes' = {c \in codes : c.by \notin doomed[r]} \cup {[by |-> r, created |-> now, attempts |-> 0]}
            /\ Continue(r, "mailing")
            /\ UNCHANGED <<now, account, kind, histories>>

Mail(r) == /\ step[r] = "mailing"
           /\ Answer(r, IF kind[r] = "login" THEN "code_required" ELSE "ok")
           /\ emailed' = emailed \cup {r}
           /\ UNCHANGED <<now, account, codes, kind, removers, accepted, before>>

(* Nothing was sent: every pending code goes, so that a retry may follow.   *)
MailFails(r) == /\ step[r] = "mailing"
                /\ codes' = {}
                /\ Answer(r, IF kind[r] = "forgot" THEN "ok" ELSE "refused")
                /\ UNCHANGED <<now, account, kind, histories>>

-----------------------------------------------------------------------------
(* Sign-up, and the endpoints that only send a code.                        *)

(* An account that was made meanwhile ends the sign-up (users.email).       *)
Signup(r) ==
  /\ Working(r, "signup")
  /\ \/ /\ saw[r].exists /\ (saw[r].verified \/ ~EmailVerification)
        /\ Answer(r, "refused") /\ UNCHANGED account
     \/ /\ saw[r].exists /\ ~saw[r].verified /\ EmailVerification
        /\ Continue(r, "sending") /\ UNCHANGED account
     \/ /\ ~saw[r].exists /\ account.exists
        /\ Answer(r, "refused") /\ UNCHANGED account
     \/ /\ ~saw[r].exists /\ ~account.exists
        /\ account' = Unconfirmed
        /\ IF EmailVerification THEN Continue(r, "sending") ELSE Answer(r, "session")
  /\ UNCHANGED <<now, codes, kind, histories>>

AskForCode(r) ==
  /\ Working(r, "resend") \/ Working(r, "forgot")
  /\ IF saw[r].exists /\ (kind[r] = "resend" => ~saw[r].verified)
     THEN Continue(r, "sending")
     ELSE Answer(r, "ok")
  /\ UNCHANGED <<now, account, codes, kind, histories>>

PasswordWrong(r) == Answer(r, "refused")

PasswordRight(r) ==
  IF ~saw[r].verified /\ EmailVerification THEN Continue(r, "sending")
  ELSE Answer(r, IF saw[r].enabled # Nobody THEN "mfa_required" ELSE "session")

Login(r) == /\ Working(r, "login")
            /\ PasswordWrong(r) \/ (saw[r].exists /\ PasswordRight(r))
            /\ UNCHANGED <<now, account, codes, kind, histories>>

-----------------------------------------------------------------------------
(* The emailed code is entered (verify, reset_password).                    *)

DeleteCode(r) == /\ codes' = {c \in codes : c.by # sawCode[r].by}
                 /\ removers' = removers \cup {r}
                 /\ Answer(r, "refused")
                 /\ UNCHANGED account

(* attempts is counted from what was read, if the row is still there.       *)
WrongCode(r) == /\ codes' = {IF c.by = sawCode[r].by THEN [c EXCEPT !.attempts = sawCode[r].attempts + 1] ELSE c :
                             c \in codes}
                /\ Answer(r, "refused")
                /\ UNCHANGED <<account, removers>>

(* A reset leaves the second factor to the sign-in that follows.            *)
RightCode(r) == /\ codes' = {}
                /\ removers' = removers \cup {r}
                /\ Save(r, [saw[r] EXCEPT !.verified = TRUE])
                /\ Answer(r, IF kind[r] = "reset" /\ account.enabled # Nobody THEN "ok" ELSE "session")

EnterCode(r) ==
  /\ Working(r, "verify") \/ Working(r, "reset")
  /\ LET c == sawCode[r]
     IN \/ /\ c = NoCode
           /\ Answer(r, "refused") /\ UNCHANGED <<account, codes, removers>>
        \/ /\ c # NoCode
           /\ c.created + CodeTtl < now \/ c.attempts >= MaxAttempts
           /\ DeleteCode(r)
        \/ /\ c # NoCode
           /\ c.created + CodeTtl >= now /\ c.attempts < MaxAttempts
           /\ WrongCode(r) \/ (c.by \in emailed /\ RightCode(r))
  /\ UNCHANGED <<now, kind, emailed, accepted, before>>

-----------------------------------------------------------------------------
(* The callback of Google, found by its own id or by the email address.     *)
Google(r) ==
  /\ Working(r, "google")
  /\ \/ Answer(r, "refused") /\ UNCHANGED account
     \/ /\ ~saw[r].exists /\ account.exists
        /\ Answer(r, "refused") /\ UNCHANGED account
     \/ /\ saw[r].exists \/ ~account.exists
        /\ IF saw[r].google THEN UNCHANGED account
           ELSE Save(r, [saw[r] EXCEPT !.exists = TRUE, !.verified = TRUE, !.google = TRUE])
        /\ Answer(r, IF (IF saw[r].google THEN saw[r].enabled ELSE account.enabled) # Nobody
                     THEN "mfa_required" ELSE "session")
  /\ UNCHANGED <<now, codes, kind, histories>>

-----------------------------------------------------------------------------
(* The authenticator app.                                                  *)

(* Codes that can be shown by an app or on paper.                           *)
Shown == {Earlier} \cup {r \in Requests : kind[r] = "mfa_setup" /\ answer[r] = "ok"}
AppCodes == [secret : Shown, step : (now - 1)..(now + 1), paper : {NoPaper}]
PaperCodes == [secret : {Nobody}, step : {0}, paper : UNION {BackupOf(r) : r \in Makers \ {Nobody}}]

(* Mutant: the step of the last code is not looked at.                      *)
VerifyTotpAgain(f, secret, last) == f.secret # Nobody /\ f.secret = secret

VerifyTotp(f, secret, last) == f.secret # Nobody /\ f.secret = secret /\ f.step > last

(* What is left of the account when a factor has been used.                 *)
Used(row, f) == IF VerifyTotp(f, row.secret, row.lastStep)
                THEN {[row EXCEPT !.lastStep = f.step]}
                ELSE IF f.paper \in row.backup
                THEN {[row EXCEPT !.backup = @ \ {f.paper}]}
                ELSE {}

Noted(row) == IF row.failures + 1 >= MaxAttempts
              THEN [row EXCEPT !.failures = 0, !.lockedUntil = now + LockTime]
              ELSE [row EXCEPT !.failures = @ + 1]

Locked(r) == saw[r].lockedUntil > now

NoteFailure(r) == /\ Save(r, Noted(saw[r]))
                  /\ Answer(r, "refused")
                  /\ UNCHANGED accepted

Refuse(r) == Answer(r, "refused") /\ UNCHANGED <<account, accepted>>

Accept(r, f) == accepted' = [accepted EXCEPT ![r] = f]

MfaVerify(r) ==
  /\ Working(r, "mfa_verify")
  /\ \/ (saw[r].enabled = Nobody \/ Locked(r)) /\ Refuse(r)
     \/ /\ saw[r].enabled # Nobody /\ ~Locked(r)
        /\ \/ NoteFailure(r)
           \/ \E f \in AppCodes \cup PaperCodes : \E row \in Used(saw[r], f) :
                /\ Save(r, [row EXCEPT !.failures = 0, !.lockedUntil = 0])
                /\ Accept(r, f)
                /\ Answer(r, "session")
  /\ UNCHANGED <<now, codes, kind, emailed, removers, before>>

(* Mutant: a new secret is made although two-step sign-in is on.            *)
MfaSetupAlways(r) ==
  /\ Working(r, "mfa_setup")
  /\ Save(r, [saw[r] EXCEPT !.secret = r]) /\ Answer(r, "ok")
  /\ UNCHANGED <<now, codes, kind, histories>>

MfaSetup(r) ==
  /\ Working(r, "mfa_setup")
  /\ IF saw[r].enabled # Nobody
     THEN Answer(r, "refused") /\ UNCHANGED account
     ELSE Save(r, [saw[r] EXCEPT !.secret = r]) /\ Answer(r, "ok")
  /\ UNCHANGED <<now, codes, kind, histories>>

MfaEnable(r) ==
  /\ Working(r, "mfa_enable")
  /\ \/ Refuse(r)
     \/ /\ saw[r].enabled = Nobody
        /\ \E f \in AppCodes :
             /\ VerifyTotp(f, saw[r].secret, -1)
             /\ Save(r, [saw[r] EXCEPT !.enabled = r, !.lastStep = f.step, !.backup = BackupOf(r), !.failures = 0])
             /\ Accept(r, f)
        /\ Answer(r, "ok")
  /\ UNCHANGED <<now, codes, kind, emailed, removers, before>>

SecondFactorOff(row) == [row EXCEPT !.secret = Nobody, !.enabled = Nobody, !.lastStep = 0, !.backup = {},
                                    !.failures = 0, !.lockedUntil = 0]

MfaDisable(r) ==
  /\ Working(r, "mfa_disable")
  /\ \/ saw[r].enabled = Nobody /\ Answer(r, "ok") /\ UNCHANGED <<account, accepted>>
     \/ saw[r].enabled # Nobody /\ Locked(r) /\ Refuse(r)
     \/ /\ saw[r].enabled # Nobody /\ ~Locked(r)
        /\ \/ NoteFailure(r)
           \/ \E f \in AppCodes \cup PaperCodes :
                /\ Used(saw[r], f) # {}
                /\ Save(r, SecondFactorOff(saw[r]))
                /\ Accept(r, f)
                /\ Answer(r, "ok")
  /\ UNCHANGED <<now, codes, kind, emailed, removers, before>>

Next == \/ Tick
        \/ \E r \in Requests :
             \/ \E k \in Kinds : Begin(r, k)
             \/ Signup(r) \/ AskForCode(r) \/ Login(r) \/ Purge(r) \/ Issue(r) \/ Mail(r) \/ MailFails(r)
             \/ EnterCode(r) \/ Google(r)
             \/ MfaVerify(r) \/ MfaSetup(r) \/ MfaEnable(r) \/ MfaDisable(r)

Spec == Init /\ [][Next]_vars

-----------------------------------------------------------------------------
(* Correctness.                                                            *)

TypeOK ==
  /\ account.secret \in Makers /\ account.enabled \in Makers
  /\ account.failures \in 0..(MaxAttempts - 1)
  /\ account.backup \subseteq Makers \X {1, 2}
  /\ \A c \in codes : c.by \in Requests /\ c.attempts \in 0..MaxAttempts
  /\ \A c, d \in codes : c.by = d.by => c = d

Overlap(r, s) == r # s /\ r \notin before[s] /\ s \notin before[r]

(* A code that reached the person can be used: it is the newest one, unless *)
(* a request that was not over before it was made has removed codes, or a  *)
(* failed mail has.                                                        *)
CodeStaysUsable ==
  \A r \in emailed :
    (\A u \in removers \ {r} : u \in before[r]) => \E c \in codes : c.by = r /\ Newest = {c}

(* A code of the app or on paper that was accepted is not accepted again by  *)
(* a request that begins later, unless a request that overlapped the first *)
(* and was accepted too has written the account after it.                  *)
FactorUsedOnce ==
  \A s \in Requests : \A r \in before[s] :
    accepted[r] = accepted[s] /\ accepted[r] # NoFactor =>
      \E u \in Requests : Overlap(u, r) /\ accepted[u] # NoFactor

(* Two-step sign-in is on with the secret whose code has been confirmed,     *)
(* unless a setup or a disable ran at the same time as the confirmation.    *)
EnabledConfirmed ==
  LET r == account.enabled
  IN r \in Requests =>
       \/ account.secret = accepted[r].secret
       \/ \E u \in Requests : kind[u] \in {"mfa_setup", "mfa_disable"} /\ Overlap(u, r)

(* What passes the second step is what the person has confirmed, once       *)
(* (mfa_verify, mfa_enable).                                               *)
SecondFactorSound == FactorUsedOnce /\ EnabledConfirmed
=============================================================================
