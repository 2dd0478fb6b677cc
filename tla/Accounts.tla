------------------------------ MODULE Accounts ------------------------------
(***************************************************************************)
(* One account's password, its sign-ins and its sessions.                  *)
(*                                                                         *)
(* A session is a signed token that carries the account's session_version  *)
(* as it was when the sign-in read the account, and a row of auth_sessions *)
(* written later; requireSession accepts the pair while the versions agree *)
(* and the row is not revoked.  A sign-in is therefore three steps of a    *)
(* request (read and compare, clear the failures, open the session), which *)
(* a change or a reset of the password, an administrator or the deletion   *)
(* of the account may fall between.  The confirmation of a reset link is   *)
(* four statements without a transaction.                                  *)
(*                                                                         *)
(* A password is a model value; hashing is comparison.  Passkeys, recovery *)
(* codes and the single-use grants they end in are the module Passkeys;    *)
(* here such a sign-in reads the account, as Google's does.                *)
(***************************************************************************)
EXTENDS Naturals, FiniteSets

CONSTANTS
  Passwords,        \* the passwords the holder uses
  NoPassword,       \* password_hash IS NULL
  Requests,         \* sign-ins and confirmations under way
  Sessions,         \* rows of auth_sessions
  Links,            \* rows of password_reset_tokens
  FailedLoginLimit, \* FAILED_LOGIN_LIMIT
  VerifyFirst,      \* REQUIRE_EMAIL_VERIFICATION
  MaxVersion        \* bound of session_version

(* What is assumed of the constants. *)
AccountsAssumption ==
  /\ NoPassword \notin Passwords
  /\ Passwords \cap {"grant", "google"} = {}
  /\ Passwords # {} /\ Links \cap Passwords = {}
  /\ FailedLoginLimit \in Nat \ {0} /\ MaxVersion \in Nat \ {0}
  /\ VerifyFirst \in BOOLEAN

VARIABLES
  user,      \* the row of users
  session,   \* the rows of auth_sessions with what their tokens carry
  work,      \* the requests under way
  link,      \* the rows of password_reset_tokens
  mailed,    \* email_verification_tokens holds an unused row
  failures,  \* failed_login_count within its window
  locked     \* login_locked_until > NOW()

vars == <<user, session, work, link, mailed, failures, locked>>

Means == Passwords \cup {"grant", "google"}
Versions == 1..MaxVersion
Users == [status : {"none", "active", "deleted"}, password : Passwords \cup {NoPassword},
          version : Versions, verified : BOOLEAN]
NoSession == [state |-> "none", version |-> 1, by |-> "grant"]
SessionRows == [state : {"none", "open", "revoked"}, version : Versions, by : Means]
Idle == [step |-> "idle", version |-> 1, by |-> "grant"]
Work == [step : {"idle", "checked", "signing", "reset read", "reset set", "reset used"},
         version : Versions, by : Means \cup Links]

(* Every row and every request has its type. *)
TypeOK ==
  /\ user \in Users
  /\ session \in [Sessions -> SessionRows]
  /\ work \in [Requests -> Work]
  /\ link \in [Links -> {"none", "live", "used"}]
  /\ mailed \in BOOLEAN
  /\ failures \in 0..FailedLoginLimit
  /\ locked \in BOOLEAN

Init ==
  /\ user = [status |-> "none", password |-> NoPassword, version |-> 1, verified |-> FALSE]
  /\ session = [s \in Sessions |-> NoSession]
  /\ work = [r \in Requests |-> Idle]
  /\ link = [l \in Links |-> "none"]
  /\ mailed = FALSE
  /\ failures = 0
  /\ locked = FALSE

Active == user.status = "active"

(* requireSession's test of a session. *)
Accepted(s) ==
  /\ Active
  /\ session[s].state = "open"
  /\ session[s].version = user.version

Doing(r, step) == work[r].step = step
Take(r, step, version, by) ==
  work' = [work EXCEPT ![r] = [step |-> step, version |-> version, by |-> by]]
Finish(r) == work' = [work EXCEPT ![r] = Idle]

Revoked(S) ==
  [s \in Sessions |-> IF s \in S /\ session[s].state = "open"
                      THEN [session[s] EXCEPT !.state = "revoked"] ELSE session[s]]
Voided == [l \in Links |-> IF link[l] = "live" THEN "used" ELSE link[l]]

-----------------------------------------------------------------------------
(* Registration, and the link that confirms the address.                   *)

Register(p) ==
  /\ user.status = "none"
  /\ user' = [user EXCEPT !.status = "active", !.password = p]
  /\ mailed' = TRUE
  /\ UNCHANGED <<session, work, link, failures, locked>>

RequestEmailVerification ==
  /\ Active
  /\ mailed' = TRUE
  /\ UNCHANGED <<user, session, work, link, failures, locked>>

ConfirmEmailVerification ==
  /\ mailed
  /\ user' = [user EXCEPT !.verified = TRUE]
  /\ mailed' = FALSE
  /\ UNCHANGED <<session, work, link, failures, locked>>

-----------------------------------------------------------------------------
(* Signing in.                                                             *)

CanLogIn == Active /\ user.password # NoPassword /\ ~locked

(* A wrong password: the count, and the lock at its limit. *)
FailLogin ==
  /\ CanLogIn
  /\ failures' = IF failures < FailedLoginLimit THEN failures + 1 ELSE failures
  /\ locked' = (failures' = FailedLoginLimit)
  /\ UNCHANGED <<user, session, work, link, mailed>>

(* The right password: the version is read with the hash it was compared to. *)
CheckPassword(r) ==
  /\ Doing(r, "idle") /\ CanLogIn
  /\ VerifyFirst => user.verified
  /\ Take(r, "checked", user.version, user.password)
  /\ UNCHANGED <<user, session, link, mailed, failures, locked>>

ClearFailures(r) ==
  /\ Doing(r, "checked")
  /\ failures' = 0 /\ locked' = FALSE
  /\ Take(r, "signing", work[r].version, work[r].by)
  /\ UNCHANGED <<user, session, link, mailed>>

(* A grant is redeemed by an active account only. *)
RedeemGrant(r) ==
  /\ Doing(r, "idle") /\ Active
  /\ Take(r, "signing", user.version, "grant")
  /\ UNCHANGED <<user, session, link, mailed, failures, locked>>

(* Google finds the account by its address, or creates it, verified. *)
GoogleSignIn(r) ==
  /\ Doing(r, "idle") /\ user.status \in {"none", "active"}
  /\ user' = IF Active THEN user ELSE [user EXCEPT !.status = "active", !.verified = TRUE]
  /\ Take(r, "signing", user.version, "google")
  /\ UNCHANGED <<session, link, mailed, failures, locked>>

\* (TokenOfNow, a mutated form, reads the version when the session is opened.)
TokenOfNow(r) == [state |-> "open", version |-> user.version, by |-> work[r].by]

(* What the token carries: the version the sign-in read. *)
TokenOf(r) == [state |-> "open", version |-> work[r].version, by |-> work[r].by]

(* The row is written whatever has become of the account since. *)
OpenSession(r, s) ==
  /\ Doing(r, "signing") /\ session[s].state = "none"
  /\ session' = [session EXCEPT ![s] = TokenOf(r)]
  /\ Finish(r)
  /\ UNCHANGED <<user, link, mailed, failures, locked>>

-----------------------------------------------------------------------------
(* Ending sessions.                                                        *)

SignOut(s) ==
  /\ session' = Revoked({s})
  /\ UNCHANGED <<user, work, link, mailed, failures, locked>>

RevokeOthers(s) ==
  /\ Accepted(s)
  /\ session' = Revoked(Sessions \ {s})
  /\ UNCHANGED <<user, work, link, mailed, failures, locked>>

(* The sweep revokes sessions unseen for 14 days. *)
RevokeInactive(s) ==
  /\ session[s].state = "open"
  /\ session' = Revoked({s})
  /\ UNCHANGED <<user, work, link, mailed, failures, locked>>

(* Rows that expired or were revoked long ago are purged. *)
PurgeSession(s) ==
  /\ session[s].state \in {"open", "revoked"}
  /\ session' = [session EXCEPT ![s] = NoSession]
  /\ UNCHANGED <<user, work, link, mailed, failures, locked>>

-----------------------------------------------------------------------------
(* What ends every session opened so far.                                  *)

NewPassword(p) == [user EXCEPT !.password = p, !.version = user.version + 1]

ChangePassword(s, p) ==
  /\ Accepted(s) /\ user.version < MaxVersion
  /\ user.password \notin {NoPassword, p}
  /\ user' = NewPassword(p)
  /\ session' = Revoked(Sessions)
  /\ link' = Voided
  /\ failures' = 0 /\ locked' = FALSE
  /\ UNCHANGED <<work, mailed>>

RevokeSessions ==
  /\ user.status # "none" /\ user.version < MaxVersion
  /\ user' = [user EXCEPT !.version = user.version + 1]
  /\ session' = Revoked(Sessions)
  /\ UNCHANGED <<work, link, mailed, failures, locked>>

UnlockLogin ==
  /\ failures' = 0 /\ locked' = FALSE
  /\ UNCHANGED <<user, session, work, link, mailed>>

WindowExpires ==
  /\ failures' = 0 /\ locked' = FALSE
  /\ UNCHANGED <<user, session, work, link, mailed>>

(* The deletion of the account; the module Deletion says when. *)
DeleteAccount ==
  /\ Active /\ user.version < MaxVersion
  /\ user' = [user EXCEPT !.status = "deleted", !.password = NoPassword, !.version = user.version + 1]
  /\ session' = [s \in Sessions |-> NoSession]
  /\ link' = [l \in Links |-> "none"]
  /\ mailed' = FALSE
  /\ failures' = 0 /\ locked' = FALSE
  /\ UNCHANGED work

-----------------------------------------------------------------------------
(* A forgotten password.                                                   *)

RequestReset(l) ==
  /\ Active /\ link[l] = "none"
  /\ link' = [link EXCEPT ![l] = "live"]
  /\ UNCHANGED <<user, session, work, mailed, failures, locked>>

ReadLink(r, l) ==
  /\ Doing(r, "idle") /\ link[l] = "live"
  /\ Take(r, "reset read", 1, l)
  /\ UNCHANGED <<user, session, link, mailed, failures, locked>>

(* The row is updated by its id, whatever its status is by now. *)
SetPassword(r, p) ==
  /\ Doing(r, "reset read") /\ user.version < MaxVersion
  /\ user' = NewPassword(p)
  /\ Take(r, "reset set", 1, work[r].by)
  /\ UNCHANGED <<session, link, mailed, failures, locked>>

UseLink(r) ==
  /\ Doing(r, "reset set")
  /\ link' = [link EXCEPT ![work[r].by] = IF @ = "none" THEN "none" ELSE "used"]
  /\ Take(r, "reset used", 1, work[r].by)
  /\ UNCHANGED <<user, session, mailed, failures, locked>>

VoidOtherLinks(r) ==
  /\ Doing(r, "reset used")
  /\ link' = Voided
  /\ Finish(r)
  /\ UNCHANGED <<user, session, mailed, failures, locked>>

(* A link expires after 30 minutes. *)
ExpireLink(l) ==
  /\ link[l] = "live"
  /\ link' = [link EXCEPT ![l] = "used"]
  /\ UNCHANGED <<user, session, work, mailed, failures, locked>>

(* A request's process dies, or its holder gives up. *)
Abandon(r) ==
  /\ ~Doing(r, "idle")
  /\ Finish(r)
  /\ UNCHANGED <<user, session, link, mailed, failures, locked>>

-----------------------------------------------------------------------------
(* The pages, and the routes behind them.                                  *)

\* Registers, and signs in with the password in the form.
LoginPage ==
  \/ \E p \in Passwords : Register(p)
  \/ FailLogin
  \/ \E r \in Requests : CheckPassword(r) \/ ClearFailures(r)
GoogleButton == \E r \in Requests : GoogleSignIn(r)
VerifyEmailPage == RequestEmailVerification \/ ConfirmEmailVerification

SessionsPanel(s) == SignOut(s) \/ RevokeOthers(s)
PasswordPanel(s) == \E p \in Passwords : ChangePassword(s, p)

ForgotPasswordPage == \E l \in Links : RequestReset(l)
ResetPasswordPage(r) ==
  \/ \E l \in Links : ReadLink(r, l)
  \/ \E p \in Passwords : SetPassword(r, p)
  \/ UseLink(r) \/ VoidOtherLinks(r)

AdminSecurityPage == RevokeSessions \/ UnlockLogin
SweepAccounts == DeleteAccount \/ \E s \in Sessions : RevokeInactive(s) \/ PurgeSession(s)

Next ==
  \/ LoginPage \/ GoogleButton \/ VerifyEmailPage \/ ForgotPasswordPage
  \/ AdminSecurityPage \/ SweepAccounts
  \/ WindowExpires
  \/ \E r \in Requests :
       \/ RedeemGrant(r) \/ ResetPasswordPage(r) \/ Abandon(r)
       \/ \E s \in Sessions : OpenSession(r, s)
  \/ \E s \in Sessions : SessionsPanel(s) \/ PasswordPanel(s)
  \/ \E l \in Links : ExpireLink(l)

Spec == Init /\ [][Next]_vars

-----------------------------------------------------------------------------
(* A session that is accepted was opened with the password the account has *)
(* now, when it was opened with one: neither a sign-in that was under way  *)
(* while the password was changed or reset, nor a session the reset did    *)
(* not revoke, outlives the password (session.ts:28, authOptions.ts:111).  *)
SessionsAreCurrent ==
  \A s \in Sessions : Accepted(s) /\ session[s].by \in Passwords => session[s].by = user.password

=============================================================================
