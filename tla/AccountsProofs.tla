--------------------------- MODULE AccountsProofs ---------------------------
(***************************************************************************)
(* For any number of requests, sessions, reset links and password changes: *)
(* a session that is accepted was opened with the password the account has *)
(* now, or without one.                                                    *)
(***************************************************************************)
EXTENDS Accounts, TLAPS

\* What a session or a sign-in under way carries: never a version to come, and, when it
\* carries the account's own, the account's password if it was compared at all.
Current(token) ==
  /\ token.version <= user.version
  /\ token.version = user.version /\ token.by \in Passwords => token.by = user.password

SigningIn(r) == work[r].step \in {"checked", "signing"}

TokensCurrent ==
  /\ \A s \in Sessions : session[s].state = "open" => Current(session[s])
  /\ \A r \in Requests : SigningIn(r) => Current(work[r])

\* Nobody signs in to an account there is not.
NoneYet ==
  user.status = "none" =>
    /\ \A s \in Sessions : session[s].state # "open"
    /\ \A r \in Requests : ~SigningIn(r)

\* A sign-in is never mistaken for a reset link's confirmation.
ByMeans == \A r \in Requests : SigningIn(r) => work[r].by \in Means

Inv == TypeOK /\ TokensCurrent /\ NoneYet /\ ByMeans

-----------------------------------------------------------------------------
(* What the operators return.                                              *)

LEMMA RevokedRows ==
  ASSUME session \in [Sessions -> SessionRows], NEW S
  PROVE  /\ Revoked(S) \in [Sessions -> SessionRows]
         /\ \A s \in Sessions : /\ Revoked(S)[s].state \in {session[s].state, "revoked"}
                                /\ Revoked(S)[s].version = session[s].version
                                /\ Revoked(S)[s].by = session[s].by
<1> SUFFICES ASSUME NEW s \in Sessions
             PROVE  /\ Revoked(S)[s] \in SessionRows
                    /\ Revoked(S)[s].state \in {session[s].state, "revoked"}
                    /\ Revoked(S)[s].version = session[s].version
                    /\ Revoked(S)[s].by = session[s].by
  BY DEF Revoked
<1>1. session[s] \in SessionRows
  OBVIOUS
<1>2. Revoked(S)[s] \in {session[s], [session[s] EXCEPT !.state = "revoked"]}
  BY DEF Revoked
<1> QED BY <1>1, <1>2 DEF SessionRows

LEMMA TakenWork ==
  ASSUME work \in [Requests -> Work], NEW r \in Requests,
         NEW step, NEW version, NEW by,
         Take(r, step, version, by), [step |-> step, version |-> version, by |-> by] \in Work
  PROVE  /\ work' \in [Requests -> Work]
         /\ work'[r].step = step /\ work'[r].version = version /\ work'[r].by = by
         /\ \A q \in Requests \ {r} : work'[q] = work[q]
BY DEF Take

LEMMA FinishedWork ==
  ASSUME AccountsAssumption, work \in [Requests -> Work], NEW r \in Requests, Finish(r)
  PROVE  /\ work' \in [Requests -> Work] /\ work'[r].step = "idle"
         /\ \A q \in Requests \ {r} : work'[q] = work[q]
<1>1. 1 \in Versions /\ "grant" \in Means
  BY DEF AccountsAssumption, Versions, Means
<1>2. Idle \in Work /\ Idle.step = "idle"
  BY <1>1 DEF Idle, Work
<1> QED BY <1>2 DEF Finish

LEMMA VoidedLinks ==
  ASSUME link \in [Links -> {"none", "live", "used"}]
  PROVE  Voided \in [Links -> {"none", "live", "used"}]
BY DEF Voided

LEMMA NewPasswordRow ==
  ASSUME AccountsAssumption, user \in Users, NEW p \in Passwords, user.version < MaxVersion
  PROVE  /\ NewPassword(p) \in Users /\ NewPassword(p).password = p
         /\ NewPassword(p).version = user.version + 1
         /\ NewPassword(p).status = user.status
<1>1. user.version + 1 \in Versions
  BY DEF AccountsAssumption, Users, Versions
<1>2. NewPassword(p) = [user EXCEPT !.password = p, !.version = user.version + 1]
  BY DEF NewPassword
<1> QED BY <1>1, <1>2 DEF Users

-----------------------------------------------------------------------------
(* What a step may do to the account, the sessions and the sign-ins.       *)

\* The password changes with the version, or before anyone signed in.
AccountStep ==
  /\ user'.status = "none" => user.status = "none"
  /\ \/ user'.version = user.version /\ user'.password = user.password
     \/ user'.version > user.version
     \/ user.status = "none"

\* A session that is open was open, or is opened by a sign-in with what that carries.
SessionStep ==
  \A s \in Sessions : session'[s].state = "open" =>
    \/ session[s].state = "open"
       /\ session'[s].version = session[s].version /\ session'[s].by = session[s].by
    \/ \E r \in Requests :
         /\ SigningIn(r)
         /\ session'[s].version = work[r].version /\ session'[s].by = work[r].by

\* A sign-in goes on with what it carries, or has just read the account.
SignInStep ==
  \A r \in Requests : work'[r].step \in {"checked", "signing"} =>
    \/ /\ SigningIn(r)
       /\ work'[r].version = work[r].version /\ work'[r].by = work[r].by
    \/ /\ work'[r].version = user'.version /\ user'.status # "none"
       /\ work'[r].by \in Means
       /\ work'[r].by \in Passwords => work'[r].by = user'.password

LEMMA CurrentStep ==
  ASSUME AccountsAssumption, Inv, TypeOK', AccountStep, SessionStep, SignInStep
  PROVE  (TokensCurrent /\ NoneYet /\ ByMeans)'
<1> DEFINE Now(token) == /\ token.version <= user'.version
                         /\ token.version = user'.version /\ token.by \in Passwords
                              => token.by = user'.password
<1>1. user.version \in Nat /\ user'.version \in Nat
      /\ (\A s \in Sessions : session[s].version \in Nat /\ session'[s].version \in Nat)
      /\ (\A r \in Requests : work[r].version \in Nat /\ work'[r].version \in Nat)
  <2>1. Versions \subseteq Nat
    BY DEF AccountsAssumption, Versions
  <2> QED BY <2>1 DEF Inv, TypeOK, Users, SessionRows, Work
<1>2. ASSUME NEW s \in Sessions, session[s].state = "open"
      PROVE  Now(session[s])
  BY <1>1, <1>2 DEF Inv, TokensCurrent, Current, NoneYet, AccountStep
<1>3. ASSUME NEW r \in Requests, SigningIn(r)
      PROVE  Now(work[r])
  BY <1>1, <1>3 DEF Inv, TokensCurrent, Current, NoneYet, AccountStep
<1>4. \A s \in Sessions : session'[s].state = "open" => Now(session'[s])
  BY <1>2, <1>3 DEF SessionStep
<1>5. \A r \in Requests : work'[r].step \in {"checked", "signing"} => Now(work'[r])
  BY <1>1, <1>3 DEF SignInStep
<1>6. TokensCurrent'
  BY <1>4, <1>5 DEF TokensCurrent, Current, SigningIn
<1>7. NoneYet'
  BY DEF Inv, NoneYet, AccountStep, SessionStep, SignInStep, SigningIn
<1>8. ByMeans'
  BY DEF Inv, ByMeans, SignInStep, SigningIn
<1> QED BY <1>6, <1>7, <1>8

-----------------------------------------------------------------------------
(* Each operation is such a step.                                          *)

Sound == TypeOK' /\ AccountStep /\ SessionStep /\ SignInStep

LEMMA SameSignIns == ASSUME UNCHANGED work PROVE SignInStep
BY DEF SignInStep, SigningIn

LEMMA SameSessions == ASSUME UNCHANGED session PROVE SessionStep
BY DEF SessionStep

LEMMA SameAccount == ASSUME UNCHANGED user PROVE AccountStep
BY DEF AccountStep

\* The lock is left alone, or lifted.
LockKept == (failures' = 0 /\ locked' = FALSE) \/ (failures' = failures /\ locked' = locked)

LEMMA LockTyped ==
  ASSUME AccountsAssumption, Inv, LockKept
  PROVE  failures' \in 0..FailedLoginLimit /\ locked' \in BOOLEAN
<1>1. FailedLoginLimit \in Nat /\ failures \in 0..FailedLoginLimit
  BY DEF AccountsAssumption, Inv, TypeOK
<1>2. locked \in BOOLEAN
  BY DEF Inv, TypeOK
<1>3. failures' \in 0..FailedLoginLimit
  BY <1>1 DEF LockKept
<1>4. locked' \in BOOLEAN
  BY <1>2, Zenon DEF LockKept
<1> QED BY <1>3, <1>4

(* Steps that touch no sign-in and no session but the link and the lock.   *)
LEMMA SoundBystanders ==
  ASSUME AccountsAssumption, Inv,
         \/ RequestEmailVerification \/ FailLogin \/ UnlockLogin \/ WindowExpires
         \/ \E l \in Links : RequestReset(l) \/ ExpireLink(l)
         \/ ConfirmEmailVerification \/ \E p \in Passwords : Register(p)
  PROVE  Sound
<1>1. UNCHANGED <<session, work>>
  BY DEF RequestEmailVerification, FailLogin, UnlockLogin, WindowExpires, RequestReset, ExpireLink,
     ConfirmEmailVerification, Register
<1>2. user \in Users
  BY DEF Inv, TypeOK
<1>3. user' \in Users /\ AccountStep
  <2>1. CASE ConfirmEmailVerification
    BY <1>2, <2>1 DEF ConfirmEmailVerification, Users, AccountStep
  <2>2. ASSUME NEW p \in Passwords, Register(p)
        PROVE  user' \in Users /\ AccountStep
    BY <1>2, <2>2 DEF Register, Users, AccountStep
  <2>3. CASE UNCHANGED user
    BY <1>2, <2>3, SameAccount
  <2> QED BY <2>1, <2>2, <2>3 DEF RequestEmailVerification, FailLogin, UnlockLogin, WindowExpires,
          RequestReset, ExpireLink
<1>4. link' \in [Links -> {"none", "live", "used"}] /\ mailed' \in BOOLEAN
  BY DEF Inv, TypeOK, RequestEmailVerification, FailLogin, UnlockLogin, WindowExpires, RequestReset,
     ExpireLink, ConfirmEmailVerification, Register
<1>5. failures' \in 0..FailedLoginLimit /\ locked' \in BOOLEAN
  <2>1. failures \in 0..FailedLoginLimit /\ FailedLoginLimit \in Nat
    BY DEF AccountsAssumption, Inv, TypeOK
  <2>2. CASE FailLogin
    <3>1. failures' \in 0..FailedLoginLimit
      BY <2>1, <2>2 DEF FailLogin
    <3>2. locked' \in BOOLEAN
      BY <2>2 DEF FailLogin
    <3> QED BY <3>1, <3>2
  <2>3. CASE LockKept
    BY <2>3, LockTyped
  <2> QED BY <2>2, <2>3 DEF LockKept, RequestEmailVerification, UnlockLogin, WindowExpires, RequestReset,
          ExpireLink, ConfirmEmailVerification, Register
<1> QED BY <1>1, <1>3, <1>4, <1>5, SameSignIns, SameSessions DEF Sound, Inv, TypeOK

(* Ending sessions.                                                        *)
LEMMA SoundEndings ==
  ASSUME AccountsAssumption, Inv, NEW s \in Sessions,
         SignOut(s) \/ RevokeOthers(s) \/ RevokeInactive(s) \/ PurgeSession(s)
  PROVE  Sound
<1>1. UNCHANGED <<user, work, link, mailed, failures, locked>>
  BY DEF SignOut, RevokeOthers, RevokeInactive, PurgeSession
<1>2. session \in [Sessions -> SessionRows]
  BY DEF Inv, TypeOK
<1>3. session' \in [Sessions -> SessionRows] /\ SessionStep
  <2>1. CASE PurgeSession(s)
    <3>1. NoSession \in SessionRows /\ NoSession.state = "none"
      BY DEF NoSession, SessionRows, AccountsAssumption, Versions, Means
    <3> QED BY <1>2, <2>1, <3>1 DEF PurgeSession, SessionStep
  <2>2. ASSUME NEW S, session' = Revoked(S)
        PROVE  session' \in [Sessions -> SessionRows] /\ SessionStep
    BY <1>2, <2>2, RevokedRows DEF SessionStep
  <2> QED BY <2>1, <2>2 DEF SignOut, RevokeOthers, RevokeInactive
<1> QED BY <1>1, <1>3, SameAccount, SameSignIns DEF Sound, Inv, TypeOK

(* A request's own steps; only Google's makes an account.                  *)
LEMMA SoundRequests ==
  ASSUME AccountsAssumption, Inv, NEW r \in Requests,
         \/ CheckPassword(r) \/ ClearFailures(r) \/ RedeemGrant(r) \/ GoogleSignIn(r)
         \/ \E l \in Links : ReadLink(r, l)
         \/ UseLink(r) \/ VoidOtherLinks(r) \/ Abandon(r)
  PROVE  Sound
<1>1. /\ user \in Users /\ work \in [Requests -> Work] /\ work[r] \in Work
      /\ link \in [Links -> {"none", "live", "used"}] /\ failures \in 0..FailedLoginLimit
  BY DEF Inv, TypeOK
<1>2. 1 \in Versions /\ {"grant", "google"} \subseteq Means /\ Passwords \subseteq Means
      /\ "grant" \notin Passwords /\ "google" \notin Passwords
  BY DEF AccountsAssumption, Versions, Means
<1>3. UNCHANGED <<session, mailed>>
  BY DEF CheckPassword, ClearFailures, RedeemGrant, GoogleSignIn, ReadLink, UseLink, VoidOtherLinks,
     Abandon
<1>4. failures' \in 0..FailedLoginLimit /\ locked' \in BOOLEAN
  <2>1. LockKept
    BY DEF LockKept, CheckPassword, ClearFailures, RedeemGrant, GoogleSignIn, ReadLink, UseLink,
       VoidOtherLinks, Abandon
  <2> QED BY <2>1, LockTyped
<1>5. link' \in [Links -> {"none", "live", "used"}]
  BY <1>1, VoidedLinks DEF CheckPassword, ClearFailures, RedeemGrant, GoogleSignIn, ReadLink, UseLink,
     VoidOtherLinks, Abandon
<1>6. user' \in Users /\ AccountStep
  BY <1>1, SameAccount DEF CheckPassword, ClearFailures, RedeemGrant, GoogleSignIn, ReadLink, UseLink,
     VoidOtherLinks, Abandon, Users, AccountStep, Active
<1>7. work' \in [Requests -> Work] /\ SignInStep
  <2>1. CASE CheckPassword(r)
    <3>1. /\ user.password \in Passwords /\ user.version \in Versions
          /\ user.status # "none" /\ UNCHANGED user
          /\ Take(r, "checked", user.version, user.password)
      BY <1>1, <2>1 DEF CheckPassword, CanLogIn, Active, Users
    <3>2. [step |-> "checked", version |-> user.version, by |-> user.password] \in Work
      BY <1>2, <3>1 DEF Work
    <3> QED BY <1>1, <1>2, <3>1, <3>2, TakenWork DEF SignInStep, SigningIn
  <2>2. CASE ClearFailures(r)
    <3>1. Take(r, "signing", work[r].version, work[r].by) /\ SigningIn(r)
      BY <2>2 DEF ClearFailures, Doing, SigningIn
    <3>2. [step |-> "signing", version |-> work[r].version, by |-> work[r].by] \in Work
      BY <1>1 DEF Work
    <3> QED BY <1>1, <3>1, <3>2, TakenWork DEF SignInStep, SigningIn
  <2>3. ASSUME RedeemGrant(r) \/ GoogleSignIn(r)
        PROVE  work' \in [Requests -> Work] /\ SignInStep
    <3>1. PICK by \in {"grant", "google"} : Take(r, "signing", user.version, by)
      BY <2>3 DEF RedeemGrant, GoogleSignIn
    <3>2. user'.version = user.version /\ user'.status # "none" /\ user.version \in Versions
      BY <1>1, <2>3 DEF RedeemGrant, GoogleSignIn, Users, Active
    <3>3. [step |-> "signing", version |-> user.version, by |-> by] \in Work
      BY <1>2, <3>1, <3>2 DEF Work
    <3> QED BY <1>1, <1>2, <3>1, <3>2, <3>3, TakenWork DEF SignInStep, SigningIn
  <2>4. ASSUME UseLink(r) \/ \E l \in Links : ReadLink(r, l)
        PROVE  work' \in [Requests -> Work] /\ SignInStep
    <3>1. PICK step \in {"reset read", "reset used"}, by \in Means \cup Links : Take(r, step, 1, by)
      BY <1>1, <2>4 DEF ReadLink, UseLink, Work
    <3>2. [step |-> step, version |-> 1, by |-> by] \in Work
      BY <1>2, <3>1 DEF Work
    <3> QED BY <1>1, <3>1, <3>2, TakenWork DEF SignInStep, SigningIn
  <2>5. CASE VoidOtherLinks(r) \/ Abandon(r)
    BY <1>1, <2>5, FinishedWork DEF VoidOtherLinks, Abandon, SignInStep, SigningIn
  <2> QED BY <2>1, <2>2, <2>3, <2>4, <2>5
<1> QED BY <1>3, <1>4, <1>5, <1>6, <1>7, SameSessions DEF Sound, Inv, TypeOK

(* The row a sign-in opens carries what the sign-in read.                  *)
LEMMA SoundOpening ==
  ASSUME AccountsAssumption, Inv, NEW r \in Requests, NEW s \in Sessions, OpenSession(r, s)
  PROVE  Sound
<1>1. /\ work \in [Requests -> Work] /\ work[r] \in Work
      /\ session \in [Sessions -> SessionRows] /\ SigningIn(r)
  BY DEF Inv, TypeOK, OpenSession, Doing, SigningIn
<1>2. work[r].by \in Means
  BY <1>1 DEF Inv, ByMeans
<1>3. /\ TokenOf(r) \in SessionRows
      /\ TokenOf(r).version = work[r].version /\ TokenOf(r).by = work[r].by
  BY <1>1, <1>2 DEF TokenOf, SessionRows, Work
<1>4. session' = [session EXCEPT ![s] = TokenOf(r)]
  BY DEF OpenSession
<1>5. session' \in [Sessions -> SessionRows] /\ SessionStep
  <2> HIDE DEF TokenOf
  <2> QED BY <1>1, <1>3, <1>4 DEF SessionStep
<1>6. work' \in [Requests -> Work] /\ SignInStep
  BY <1>1, FinishedWork DEF OpenSession, SignInStep, SigningIn
<1>7. UNCHANGED <<user, link, mailed, failures, locked>>
  BY DEF OpenSession
<1> QED BY <1>5, <1>6, <1>7, SameAccount DEF Sound, Inv, TypeOK

(* What ends every session raises the version in the same transaction.     *)
LEMMA SoundBumps ==
  ASSUME AccountsAssumption, Inv,
         \/ RevokeSessions \/ DeleteAccount
         \/ \E s \in Sessions, p \in Passwords : ChangePassword(s, p)
         \/ \E r \in Requests, p \in Passwords : SetPassword(r, p)
  PROVE  Sound
<1>1. /\ user \in Users /\ user.version < MaxVersion /\ user.version + 1 \in Versions
      /\ user.version \in Nat /\ work \in [Requests -> Work]
      /\ session \in [Sessions -> SessionRows]
      /\ link \in [Links -> {"none", "live", "used"}]
  <2>1. user.version < MaxVersion /\ MaxVersion \in Nat
    BY DEF AccountsAssumption, RevokeSessions, DeleteAccount, ChangePassword, SetPassword
  <2> QED BY <2>1 DEF Inv, TypeOK, Users, Versions
<1>2. user' \in Users /\ AccountStep
  <2>1. ASSUME NEW p \in Passwords, user' = NewPassword(p)
        PROVE  user' \in Users /\ AccountStep
    BY <1>1, <2>1, NewPasswordRow DEF AccountStep
  <2>2. CASE RevokeSessions
    BY <1>1, <2>2 DEF RevokeSessions, Users, AccountStep
  <2>3. CASE DeleteAccount
    <3>1. user' = [user EXCEPT !.status = "deleted", !.password = NoPassword,
                               !.version = user.version + 1]
      BY <2>3 DEF DeleteAccount
    <3>2. /\ user' \in Users /\ user'.version = user.version + 1
          /\ user'.status # "none"
      BY <1>1, <3>1 DEF Users
    <3> QED BY <1>1, <3>2 DEF AccountStep
  <2> QED BY <2>1, <2>2, <2>3 DEF ChangePassword, SetPassword
<1>3. session' \in [Sessions -> SessionRows] /\ SessionStep
  <2>1. CASE session' = Revoked(Sessions)
    BY <1>1, <2>1, RevokedRows DEF SessionStep
  <2>2. CASE DeleteAccount
    <3>1. NoSession \in SessionRows /\ NoSession.state = "none"
      BY DEF NoSession, SessionRows, AccountsAssumption, Versions, Means
    <3> QED BY <2>2, <3>1 DEF DeleteAccount, SessionStep
  <2>3. CASE UNCHANGED session
    BY <1>1, <2>3, SameSessions
  <2> QED BY <2>1, <2>2, <2>3 DEF RevokeSessions, ChangePassword, SetPassword
<1>4. work' \in [Requests -> Work] /\ SignInStep
  <2>1. ASSUME NEW r \in Requests, NEW p \in Passwords, SetPassword(r, p)
        PROVE  work' \in [Requests -> Work] /\ SignInStep
    <3>1. 1 \in Versions
      BY DEF AccountsAssumption, Versions
    <3>2. work[r] \in Work /\ Take(r, "reset set", 1, work[r].by)
      BY <1>1, <2>1 DEF SetPassword
    <3>3. [step |-> "reset set", version |-> 1, by |-> work[r].by] \in Work
      BY <3>1, <3>2 DEF Work
    <3> QED BY <1>1, <3>2, <3>3, TakenWork, ZenonT(60) DEF SignInStep, SigningIn
  <2>2. CASE UNCHANGED work
    BY <1>1, <2>2, SameSignIns
  <2> QED BY <2>1, <2>2 DEF RevokeSessions, DeleteAccount, ChangePassword
<1>5. link' \in [Links -> {"none", "live", "used"}] /\ mailed' \in BOOLEAN
  BY <1>1, VoidedLinks DEF Inv, TypeOK, RevokeSessions, DeleteAccount, ChangePassword, SetPassword
<1>6. failures' \in 0..FailedLoginLimit /\ locked' \in BOOLEAN
  <2>1. LockKept
    BY DEF LockKept, RevokeSessions, DeleteAccount, ChangePassword, SetPassword
  <2> QED BY <2>1, LockTyped
<1> QED BY <1>2, <1>3, <1>4, <1>5, <1>6 DEF Sound, TypeOK

-----------------------------------------------------------------------------
LEMMA InvInit == ASSUME AccountsAssumption PROVE Init => Inv
<1> SUFFICES ASSUME Init PROVE Inv
  OBVIOUS
<1>1. 1 \in Versions /\ "grant" \in Means /\ FailedLoginLimit \in Nat
  BY DEF AccountsAssumption, Versions, Means
<1>2. user \in Users /\ mailed \in BOOLEAN /\ locked \in BOOLEAN
  BY <1>1 DEF Init, Users
<1>3. session \in [Sessions -> SessionRows] /\ work \in [Requests -> Work]
  BY <1>1 DEF Init, NoSession, SessionRows, Idle, Work
<1>4. link \in [Links -> {"none", "live", "used"}] /\ failures \in 0..FailedLoginLimit
  BY <1>1 DEF Init
<1>5. TokensCurrent /\ NoneYet /\ ByMeans
  BY DEF Init, NoSession, Idle, TokensCurrent, NoneYet, ByMeans, SigningIn
<1> QED BY <1>2, <1>3, <1>4, <1>5 DEF Inv, TypeOK

LEMMA InvStep == ASSUME AccountsAssumption PROVE Inv /\ [Next]_vars => Inv'
<1>1. ASSUME Inv, UNCHANGED vars PROVE Inv'
  BY <1>1 DEF vars, Inv, TypeOK, TokensCurrent, Current, NoneYet, ByMeans, SigningIn
<1>2. ASSUME Inv, Next PROVE Sound
  BY <1>2, SoundBystanders, SoundEndings, SoundRequests, SoundOpening, SoundBumps
     DEF Next, LoginPage, GoogleButton, VerifyEmailPage, SessionsPanel, PasswordPanel,
         ForgotPasswordPage, ResetPasswordPage, AdminSecurityPage, SweepAccounts
<1>3. ASSUME Inv, Next PROVE Inv'
  <2>1. TypeOK' /\ AccountStep /\ SessionStep /\ SignInStep
    BY <1>2, <1>3 DEF Sound
  <2> QED BY <1>3, <2>1, CurrentStep DEF Inv
<1> QED BY <1>1, <1>3

(* Whatever sign-ins, changes and resets of the password, deletions and    *)
(* revocations interleave, a session that is accepted was opened with the  *)
(* password of now if it was opened with one (authOptions.ts:111).         *)
THEOREM AcceptedAreCurrent == ASSUME AccountsAssumption PROVE Spec => []SessionsAreCurrent
<1>1. Inv => SessionsAreCurrent
  BY DEF Inv, TokensCurrent, Current, SessionsAreCurrent, Accepted
<1> QED BY <1>1, InvInit, InvStep, PTL DEF Spec
=============================================================================
