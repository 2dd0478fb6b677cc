------------------------------ MODULE Passkeys ------------------------------
(***************************************************************************)
(* The sign-in methods of one account besides its password: passkeys with  *)
(* their challenges, recovery codes, and the grants of sixty seconds both  *)
(* end in, which the credentials provider redeems for a session.           *)
(*                                                                         *)
(* A route reads first and writes later, so a request is two steps; the    *)
(* write that consumes a challenge tests it again.  The grant a request    *)
(* creates, and the batch of recovery codes it creates (one code here),    *)
(* are named by the request.  The signatures themselves are the library's. *)
(***************************************************************************)
EXTENDS Naturals, FiniteSets

CONSTANTS
  Keys,        \* passkeys the holder's devices can make
  Challenges,  \* rows of webauthn_challenges
  Requests     \* requests to the routes

(* What is assumed of the constants. *)
PasskeysAssumption == Challenges \cap Requests = {}

VARIABLES
  active,     \* users.status = 'active'
  password,   \* users.password_hash is set
  passkeys,   \* rows of webauthn_credentials
  challenge,  \* rows of webauthn_challenges
  late,       \* those past their expires_at
  code,       \* rows of account_recovery_codes
  grant,      \* rows of passkey_login_tokens
  proof,      \* the challenge or code that earned a grant
  request,    \* requests between their read and their write
  signIns     \* how many sign-ins a proof has brought

vars == <<active, password, passkeys, challenge, late, code, grant, proof, request, signIns>>

Proofs == Challenges \cup Requests
Steps == {"idle", "answering", "registering", "generating", "removing", "done"}
Idle == [step |-> "idle", of |-> {}]

(* Every row and every request has its type. *)
TypeOK ==
  /\ active \in BOOLEAN /\ password \in BOOLEAN
  /\ passkeys \subseteq Keys
  /\ challenge \in [Challenges -> {"none", "sign-in", "setup", "used"}]
  /\ late \subseteq Challenges
  /\ code \in [Requests -> {"none", "live", "used"}]
  /\ grant \in [Requests -> {"none", "live", "used"}]
  /\ proof \in [Requests -> Proofs]
  /\ request \in [Requests -> [step : Steps, of : SUBSET (Proofs \cup Keys)]]
  /\ signIns \in [Proofs -> Nat]

Init ==
  /\ active = TRUE /\ password \in BOOLEAN
  /\ passkeys \in SUBSET Keys
  /\ challenge = [c \in Challenges |-> "none"]
  /\ late = {}
  /\ code = [r \in Requests |-> "none"]
  /\ grant = [r \in Requests |-> "none"]
  /\ proof = [r \in Requests |-> r]
  /\ request = [r \in Requests |-> Idle]
  /\ signIns = [p \in Proofs |-> 0]

Doing(r, step) == request[r].step = step
Goes(r, step, of) == request' = [request EXCEPT ![r] = [step |-> step, of |-> of]]
Ends(r) == Goes(r, "done", {})
LiveCodes == {r \in Requests : code[r] = "live"}

-----------------------------------------------------------------------------
(* A passkey is made.                                                      *)

RegistrationOptions(c) ==
  /\ active /\ challenge[c] = "none"
  /\ challenge' = [challenge EXCEPT ![c] = "setup"]
  /\ UNCHANGED <<active, password, passkeys, late, code, grant, proof, request, signIns>>

ReadRegistration(r, c, k) ==
  /\ active /\ Doing(r, "idle")
  /\ challenge[c] = "setup" /\ c \notin late /\ k \notin passkeys
  /\ Goes(r, "registering", {c, k})
  /\ UNCHANGED <<active, password, passkeys, challenge, late, code, grant, proof, signIns>>

\* (ConsumedAnyway, a mutated form, does not look whether the challenge is used.)
ConsumedAnyway(c) == TRUE

\* UPDATE ... WHERE used_at IS NULL found the row; it may have expired meanwhile.
Consumed(c) == challenge[c] \notin {"none", "used"}

StoreRegistration(r) == \E c \in Challenges, k \in Keys :
  /\ Doing(r, "registering") /\ request[r].of = {c, k}
  /\ Ends(r)
  /\ IF Consumed(c) /\ k \notin passkeys
     THEN /\ challenge' = [challenge EXCEPT ![c] = "used"]
          /\ passkeys' = passkeys \cup {k}
     ELSE UNCHANGED <<challenge, passkeys>>
  /\ UNCHANGED <<active, password, late, code, grant, proof, signIns>>

(* The count and the deletion are two statements, and lock nothing. *)
CountPasskeys(r, k) ==
  /\ active /\ Doing(r, "idle") /\ k \in passkeys
  /\ password \/ Cardinality(passkeys) > 1
  /\ Goes(r, "removing", {k})
  /\ UNCHANGED <<active, password, passkeys, challenge, late, code, grant, proof, signIns>>

RemovePasskey(r) ==
  /\ Doing(r, "removing")
  /\ passkeys' = passkeys \ request[r].of
  /\ Ends(r)
  /\ UNCHANGED <<active, password, challenge, late, code, grant, proof, signIns>>

-----------------------------------------------------------------------------
(* A passkey signs in.                                                     *)

AuthenticationOptions(c) ==
  /\ challenge[c] = "none"
  /\ challenge' = [challenge EXCEPT ![c] = "sign-in"]
  /\ UNCHANGED <<active, password, passkeys, late, code, grant, proof, request, signIns>>

ReadAnswer(r, c) ==
  /\ active /\ Doing(r, "idle")
  /\ challenge[c] = "sign-in" /\ c \notin late /\ passkeys # {}
  /\ Goes(r, "answering", {c})
  /\ UNCHANGED <<active, password, passkeys, challenge, late, code, grant, proof, signIns>>

\* The credential is not looked at again, nor the account.
GrantForAnswer(r) == \E c \in Challenges :
  /\ Doing(r, "answering") /\ c \in request[r].of
  /\ Ends(r)
  /\ IF Consumed(c)
     THEN /\ challenge' = [challenge EXCEPT ![c] = "used"]
          /\ grant' = [grant EXCEPT ![r] = "live"]
          /\ proof' = [proof EXCEPT ![r] = c]
     ELSE UNCHANGED <<challenge, grant, proof>>
  /\ UNCHANGED <<active, password, passkeys, late, code, signIns>>

-----------------------------------------------------------------------------
(* Recovery codes: the password is checked before the transaction, whose   *)
(* DELETE removes the codes it can see.                                    *)

CheckForCodes(r) ==
  /\ active /\ password /\ Doing(r, "idle")
  /\ Goes(r, "generating", LiveCodes)
  /\ UNCHANGED <<active, password, passkeys, challenge, late, code, grant, proof, signIns>>

ReplaceCodes(r) ==
  /\ Doing(r, "generating")
  /\ code' = [b \in Requests |-> IF b = r THEN "live"
                                 ELSE IF b \in request[r].of THEN "none" ELSE code[b]]
  /\ Ends(r)
  /\ UNCHANGED <<active, password, passkeys, challenge, late, grant, proof, signIns>>

GrantForCode(r, b) ==
  /\ active /\ Doing(r, "idle") /\ code[b] = "live"
  /\ code' = [code EXCEPT ![b] = "used"]
  /\ grant' = [grant EXCEPT ![r] = "live"]
  /\ proof' = [proof EXCEPT ![r] = b]
  /\ Ends(r)
  /\ UNCHANGED <<active, password, passkeys, challenge, late, signIns>>

-----------------------------------------------------------------------------

RedeemGrant(r) ==
  /\ active /\ grant[r] = "live"
  /\ grant' = [grant EXCEPT ![r] = "used"]
  /\ signIns' = [signIns EXCEPT ![proof[r]] = @ + 1]
  /\ UNCHANGED <<active, password, passkeys, challenge, late, code, proof, request>>

\* Challenges, grants and codes run out.
Expire ==
  /\ \/ \E c \in Challenges : challenge[c] \in {"sign-in", "setup"}
          /\ late' = late \cup {c} /\ UNCHANGED <<code, grant>>
     \/ \E r \in Requests : grant[r] = "live"
          /\ grant' = [grant EXCEPT ![r] = "used"] /\ UNCHANGED <<late, code>>
     \/ \E b \in Requests : code[b] = "live"
          /\ code' = [code EXCEPT ![b] = "used"] /\ UNCHANGED <<late, grant>>
  /\ UNCHANGED <<active, password, passkeys, challenge, proof, request, signIns>>

\* A reset gives a password to an account that had none, and voids nothing here.
ResetPassword ==
  /\ active
  /\ password' = TRUE
  /\ UNCHANGED <<active, passkeys, challenge, late, code, grant, proof, request, signIns>>

\* Challenges of a sign-in have no user, and stay.
ChangePassword ==
  /\ active /\ password
  /\ code' = [r \in Requests |-> "none"]
  /\ grant' = [r \in Requests |-> IF grant[r] = "live" THEN "none" ELSE grant[r]]
  /\ challenge' = [c \in Challenges |-> IF challenge[c] = "setup" THEN "used" ELSE challenge[c]]
  /\ UNCHANGED <<active, password, passkeys, late, proof, request, signIns>>

DeleteAccount ==
  /\ active
  /\ active' = FALSE /\ password' = FALSE
  /\ passkeys' = {}
  /\ code' = [r \in Requests |-> "none"]
  /\ grant' = [r \in Requests |-> "none"]
  /\ challenge' = [c \in Challenges |-> IF challenge[c] = "setup" THEN "used" ELSE challenge[c]]
  /\ UNCHANGED <<late, proof, request, signIns>>

-----------------------------------------------------------------------------
(* The pages, and the routes behind them.                                  *)

AddPasskey ==
  \/ \E c \in Challenges : RegistrationOptions(c)
  \/ \E r \in Requests, c \in Challenges, k \in Keys : ReadRegistration(r, c, k)
  \/ \E r \in Requests : StoreRegistration(r)
PasskeyPanel(r) == RemovePasskey(r) \/ \E k \in Keys : CountPasskeys(r, k)
GenerateRecovery(r) == CheckForCodes(r) \/ ReplaceCodes(r)

HandlePasskeySignIn(r) ==
  \/ \E c \in Challenges : AuthenticationOptions(c) \/ ReadAnswer(r, c)
  \/ GrantForAnswer(r) \/ RedeemGrant(r)
HandleRecoverySignIn(r) == RedeemGrant(r) \/ \E b \in Requests : GrantForCode(r, b)

Next ==
  \/ AddPasskey
  \/ \E r \in Requests :
       \/ PasskeyPanel(r) \/ GenerateRecovery(r)
       \/ HandlePasskeySignIn(r) \/ HandleRecoverySignIn(r)
  \/ Expire \/ ResetPassword \/ ChangePassword \/ DeleteAccount

Spec == Init /\ [][Next]_vars

-----------------------------------------------------------------------------
(* A challenge that was answered, or a recovery code, brings one sign-in:  *)
(* two requests that carry the same answer, or the same code, earn one     *)
(* grant between them, and a grant is redeemed once (verify/route.ts:38).  *)
OneSignInPerProof == \A p \in Proofs : signIns[p] <= 1

-----------------------------------------------------------------------------
(* What the steps keep, and rely on.                                       *)

\* What was not answered with yet: it has brought no sign-in, and no grant is out for it.
Unspent(p) ==
  signIns[p] = 0 /\ \A r \in Requests : grant[r] = "live" => proof[r] # p

\* A challenge that is not used, a code that is live and a request that has made none
\* are unspent; a code is there only when its request has ended.
ProofsUnspent ==
  /\ \A c \in Challenges : challenge[c] # "used" => Unspent(c)
  /\ \A b \in Requests : code[b] = "live" \/ request[b].step # "done" => Unspent(b)
  /\ \A b \in Requests : code[b] # "none" => request[b].step = "done"

\* One grant is out for a proof, and none when it has brought its sign-in.
OneGrantPerProof ==
  \A q, r \in Requests : grant[r] = "live" =>
    signIns[proof[r]] = 0 /\ (grant[q] = "live" /\ proof[q] = proof[r] => q = r)

Inv == TypeOK /\ ProofsUnspent /\ OneGrantPerProof /\ OneSignInPerProof
=============================================================================
