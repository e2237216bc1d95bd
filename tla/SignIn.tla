------------------------------- MODULE SignIn -------------------------------
(* The credentials of one account: its password, its second factor, the    *)
(* reset links and challenges that wait to be used, and the device         *)
(* sessions that sign-in has issued.  A request verifies a password or     *)
(* hashes a new one outside any transaction and commits later, under the   *)
(* lock of the account's row; between the two the other requests run.      *)
(* Times are ticks of one clock; several things may happen in one tick.    *)
(* Rotation of a session's secret is in DeviceRotation.  A definition      *)
(* named Bug... is a plausible defect of one below it, for the mutants.    *)
EXTENDS Naturals, FiniteSets

CONSTANTS
  Sessions,    \* device sessions that may be issued
  Challenges,  \* second-factor challenges that may be issued
  Codes,       \* recovery codes that may be printed
  Requests,    \* requests in flight at once
  PendingTTL,  \* ticks a session may wait for its approval (15 minutes)
  MaxTime,     \* bound: ticks
  MaxPw,       \* bound: password changes
  MaxResets,   \* bound: reset links
  MaxSecrets   \* bound: authenticator secrets

ASSUME SignInAssumption ==
  /\ PendingTTL \in Nat \ {0}
  /\ MaxTime \in Nat \ {0} /\ MaxPw \in Nat /\ MaxResets \in Nat /\ MaxSecrets \in Nat

VARIABLES
  now,        \* the clock, in ticks
  account,    \* users: password_hash (as a version), token_invalid_before_at
  factor,     \* the row of user_2fa
  reset,      \* the row of password_reset_tokens
  challenge,  \* mfa_challenges
  session,    \* device_sessions
  req,        \* what each request in flight has read or verified so far
  spent,      \* history: one-time proofs that were accepted
  replayed    \* history: one of them was accepted again

rows == <<account, factor, reset, challenge, session>>
vars == <<rows, now, req, spent, replayed>>

Time == 0..MaxTime
Idle == [op |-> "none"]

(* pw and second of a session or challenge are history: the password and   *)
(* the enrolment of the second factor that it was issued on.               *)
SessionRow == [state : {"none", "live", "revoked"}, auth : Time, mfa : Time,
               pending : BOOLEAN, pw : 0..MaxPw, second : 0..MaxSecrets]
ChallengeRow == [state : {"none", "open", "closed"}, at : Time, pw : 0..MaxPw]

SignInState == [op : {"known"}, pw : 0..MaxPw, cut : Time]
          \cup [op : {"challenge"}, pw : 0..MaxPw, cut : Time, at : Time]
          \cup [op : {"issue"}, pw : 0..MaxPw, cut : Time, at : Time,
                mfa : Time, second : 0..MaxSecrets]
Waiting == SignInState
      \cup [op : {"change"}, pw : 0..MaxPw]
      \cup [op : {"reset"}, id : 1..MaxResets]
      \cup [op : {"revoke"}, targets : SUBSET Sessions]

(* The type of every variable; an enabled factor has its time and the step *)
(* that enabled it, which every later comparison relies on.                *)
TypeOK ==
  /\ now \in Time
  /\ account \in [pw : 0..MaxPw, cut : Time]
  /\ factor \in [state : {"none", "setup", "on"}, secret : 0..MaxSecrets, since : Time,
                 step : 0..(MaxTime + 2), codes : SUBSET Codes]
  /\ reset \in [state : {"none", "fresh", "void"}, id : 0..MaxResets, at : Time, pw : 0..MaxPw]
  /\ challenge \in [Challenges -> ChallengeRow]
  /\ session \in [Sessions -> SessionRow]
  /\ req \in [Requests -> Waiting \cup {Idle}]
  /\ replayed \in BOOLEAN
  /\ factor.state = "on" => factor.since > 0 /\ factor.step > 0

-----------------------------------------------------------------------------
(* rotateDeviceSession, resolveSessionAccess and lockMfaActor accept a     *)
(* session that is not revoked, did not wait too long for its approval, is *)
(* younger than the account's cutoff and not older than the second factor. *)
PassesFactor(s) == factor.state = "on" => session[s].mfa >= factor.since
Valid(s) ==
  /\ session[s].state = "live"
  /\ session[s].pending => now - session[s].auth < PendingTTL
  /\ session[s].auth > account.cut
  /\ PassesFactor(s)
Actor(s) == Valid(s) /\ ~ session[s].pending

(* sameSignInState: nothing the verification relied on has changed.        *)
SameState(q) == q.pw = account.pw /\ q.cut = account.cut

(* What consumeSecondFactor accepts: an authenticator code of this tick or *)
(* a neighbouring one, above the last step used (0: none used yet; step k  *)
(* stands for the tick k - 1), or a recovery code that is left.            *)
Window == {k \in 1..(MaxTime + 2) : k - 1 \in {now - 1, now, now + 1}}
(* For the mutants: the step that was used last is accepted once more.     *)
BugSteps == {<<"step", factor.secret, k>> : k \in {j \in Window : j >= factor.step}}
Steps == {<<"step", factor.secret, k>> : k \in {j \in Window : j > factor.step}}
Recovery == {<<"code", c>> : c \in factor.codes}
Proofs == IF factor.state = "on" THEN Steps \cup Recovery ELSE {}

AfterProof(p) ==
  IF p[1] = "code" THEN [factor EXCEPT !.codes = @ \ {p[2]}]
  ELSE [factor EXCEPT !.step = p[3]]

Accept(P) ==
  /\ spent' = spent \cup P
  /\ replayed' = (replayed \/ P \cap spent # {})

(* Whoever reads a revoked session or a used challenge stops at that: its  *)
(* other columns are dropped.                                              *)
Gone == [state |-> "revoked", auth |-> 0, mfa |-> 0, pending |-> FALSE, pw |-> 0, second |-> 0]
Revoked(S) == [s \in Sessions |->
  IF s \in S /\ session[s].state = "live" THEN Gone ELSE session[s]]
Used == [state |-> "closed", at |-> 0, pw |-> 0]
Closed(C) == [c \in Challenges |->
  IF c \in C /\ challenge[c].state = "open" THEN Used ELSE challenge[c]]

Finish(r)     == req' = [req EXCEPT ![r] = Idle]
Continue(r, q) == req' = [req EXCEPT ![r] = q]

Init ==
  /\ now = 1
  /\ account = [pw |-> 0, cut |-> 0]
  /\ factor = [state |-> "none", secret |-> 0, since |-> 0, step |-> 0, codes |-> {}]
  /\ reset = [state |-> "none", id |-> 0, at |-> 0, pw |-> 0]
  /\ challenge = [c \in Challenges |-> [state |-> "none", at |-> 0, pw |-> 0]]
  /\ session = [s \in Sessions |-> [state |-> "none", auth |-> 0, mfa |-> 0,
                                     pending |-> FALSE, pw |-> 0, second |-> 0]]
  /\ req = [r \in Requests |-> Idle]
  /\ spent = {} /\ replayed = FALSE

-----------------------------------------------------------------------------
(* Plausible defects of the operations below, for the mutants.             *)

(* The session is written without comparing the sign-in state again.       *)
BugIssueUnchecked(r, s) ==
  LET q == req[r] IN
  /\ q.op = "issue" /\ session[s].state = "none"
  /\ \E at \in q.at..now :
       session' = [session EXCEPT ![s] =
         [state |-> "live", auth |-> at, mfa |-> q.mfa, pending |-> TRUE,
          pw |-> q.pw, second |-> q.second]]
  /\ Finish(r)
  /\ UNCHANGED <<now, account, factor, reset, challenge, spent, replayed>>

(* Disabling drops the factor and leaves the sessions to its old check.    *)
BugDisableFactor(s) ==
  /\ Actor(s) /\ factor.state = "on"
  /\ factor' = [factor EXCEPT !.state = "none", !.since = 0, !.step = 0, !.codes = {}]
  /\ challenge' = Closed(Challenges)
  /\ UNCHANGED <<now, account, reset, session, req, spent, replayed>>

(* A change of password leaves the reset links as they are.                *)
BugCommitChange(r) ==
  /\ req[r].op = "change"
  /\ IF req[r].pw = account.pw /\ account.pw < MaxPw
     THEN /\ account' = [pw |-> account.pw + 1, cut |-> now]
          /\ session' = Revoked(Sessions)
          /\ challenge' = Closed(Challenges)
     ELSE UNCHANGED <<account, session, challenge>>
  /\ Finish(r)
  /\ UNCHANGED <<now, factor, reset, spent, replayed>>

-----------------------------------------------------------------------------
(* Sign-in.                                                                *)

(* login reads the account and compares the password, which takes long.    *)
VerifyPassword(r) ==
  /\ req[r] = Idle
  /\ Continue(r, [op |-> "known", pw |-> account.pw, cut |-> account.cut])
  /\ UNCHANGED <<rows, now, spent, replayed>>

(* newSessionBlockReason: is a second factor on?                           *)
ChooseCeremony(r) ==
  LET q == req[r] IN
  /\ q.op = "known"
  /\ Continue(r, IF factor.state = "on"
                 THEN [op |-> "challenge", pw |-> q.pw, cut |-> q.cut, at |-> now]
                 ELSE [op |-> "issue", pw |-> q.pw, cut |-> q.cut, at |-> now,
                       mfa |-> 0, second |-> 0])
  /\ UNCHANGED <<rows, now, spent, replayed>>

(* beginSignIn: a challenge, if nothing changed.  Its created_at is the    *)
(* start of the transaction, which may have waited for the account.        *)
IssueChallenge(r, c) ==
  LET q == req[r] IN
  /\ q.op = "challenge" /\ challenge[c].state = "none"
  /\ IF SameState(q) /\ factor.state = "on"
     THEN \E at \in q.at..now :
            challenge' = [challenge EXCEPT ![c] = [state |-> "open", at |-> at, pw |-> q.pw]]
     ELSE UNCHANGED challenge
  /\ Finish(r)
  /\ UNCHANGED <<now, account, factor, reset, session, spent, replayed>>

(* completeMfaChallenge: challenge and proof are used up together.  What   *)
(* follows is issued on the account as it is now.                          *)
CompleteMfaChallenge(r, c) ==
  /\ req[r] = Idle /\ challenge[c].state = "open"
  /\ challenge[c].at > account.cut
  /\ factor.state = "on" /\ challenge[c].at >= factor.since
  /\ \E p \in Proofs :
       /\ factor' = AfterProof(p)
       /\ Accept({p, <<"challenge", c>>})
  /\ challenge' = Closed({c})
  /\ Continue(r, [op |-> "issue", pw |-> account.pw, cut |-> account.cut, at |-> now,
                  mfa |-> factor.since, second |-> factor.secret])
  /\ UNCHANGED <<now, account, reset, session>>

(* issueDeviceSession: authTime is taken before the transaction, and the   *)
(* state that was verified is compared under the account's lock.           *)
IssueDeviceSession(r, s) ==
  LET q == req[r] IN
  /\ q.op = "issue" /\ session[s].state = "none"
  /\ IF SameState(q) /\ (factor.state = "on" => q.mfa >= factor.since)
     THEN \E at \in q.at..now :
            session' = [session EXCEPT ![s] =
              [state |-> "live", auth |-> at, mfa |-> q.mfa, pending |-> TRUE,
               pw |-> q.pw, second |-> q.second]]
     ELSE UNCHANGED session
  /\ Finish(r)
  /\ UNCHANGED <<now, account, factor, reset, challenge, spent, replayed>>

(* An approved device becomes a full session (devices/approve).            *)
ApproveDevice(s) ==
  /\ Valid(s) /\ session[s].pending
  /\ session' = [session EXCEPT ![s].pending = FALSE]
  /\ UNCHANGED <<now, account, factor, reset, challenge, req, spent, replayed>>

(* Recovery of the device trust ends every other session.  Its own one is  *)
(* dated one millisecond after the cutoff, in which nothing else happens.  *)
RecoverDevice(s) ==
  /\ Valid(s) /\ now < MaxTime
  /\ now' = now + 1
  /\ account' = [account EXCEPT !.cut = now]
  /\ session' = [Revoked(Sessions \ {s}) EXCEPT ![s].pending = FALSE, ![s].auth = now + 1]
  /\ UNCHANGED <<factor, reset, challenge, req, spent, replayed>>

(* The code of a challenge is not entered in time, or its browser signs    *)
(* out first.                                                              *)
DropChallenge(c) ==
  /\ challenge[c].state = "open"
  /\ challenge' = Closed({c})
  /\ UNCHANGED <<now, account, factor, reset, session, req, spent, replayed>>

-----------------------------------------------------------------------------
(* The second factor.  Every change repeats the checks of its request      *)
(* (lockMfaActor) under the locks of the account, sessions and factor.     *)

GenerateTOTPSetup(s) ==
  /\ Actor(s) /\ factor.state # "on" /\ factor.secret < MaxSecrets
  /\ factor' = [factor EXCEPT !.state = "setup", !.secret = @ + 1]
  /\ UNCHANGED <<now, account, reset, challenge, session, req, spent, replayed>>

(* The code that enables counts as used; the request then goes on to issue *)
(* a session that has passed the factor.                                   *)
VerifyAndEnable2FA(r, s) ==
  /\ req[r] = Idle /\ Actor(s) /\ factor.state = "setup"
  /\ \E k \in Window, codes \in SUBSET (Codes \ {c \in Codes : <<"code", c>> \in spent}) :
       /\ codes # {}
       /\ factor' = [factor EXCEPT !.state = "on", !.since = now, !.step = k, !.codes = codes]
       /\ Accept({<<"step", factor.secret, k>>})
  /\ challenge' = Closed(Challenges)
  /\ Continue(r, [op |-> "issue", pw |-> account.pw, cut |-> account.cut, at |-> now,
                  mfa |-> now, second |-> factor.secret])
  /\ UNCHANGED <<now, account, reset, session>>

ReplaceRecoveryCodes(s) ==
  /\ Actor(s) /\ factor.state = "on"
  /\ \E codes \in SUBSET (Codes \ {c \in Codes : <<"code", c>> \in spent}) :
       codes # {} /\ factor' = [factor EXCEPT !.codes = codes]
  /\ UNCHANGED <<now, account, reset, challenge, session, req, spent, replayed>>

(* verifyFreshAuthentication with a code, before a sensitive request.      *)
VerifyTOTPLogin ==
  /\ \E p \in Proofs : factor' = AfterProof(p) /\ Accept({p})
  /\ UNCHANGED <<now, account, reset, challenge, session, req>>

Disable2FA(s) ==
  /\ Actor(s) /\ factor.state = "on"
  /\ account' = [account EXCEPT !.cut = now]
  /\ session' = Revoked(Sessions)
  /\ challenge' = Closed(Challenges)
  /\ factor' = [factor EXCEPT !.state = "none", !.since = 0, !.step = 0, !.codes = {}]
  /\ UNCHANGED <<now, reset, req, spent, replayed>>

-----------------------------------------------------------------------------
(* The password.                                                           *)

(* issuePasswordReset: one link at a time, and none within a tick of the   *)
(* last.  It does not take the account's lock.                             *)
IssuePasswordReset ==
  /\ reset.id < MaxResets
  /\ reset.state = "none" \/ reset.at < now
  /\ reset' = [state |-> "fresh", id |-> reset.id + 1, at |-> now, pw |-> account.pw]
  /\ UNCHANGED <<now, account, factor, challenge, session, req, spent, replayed>>

(* The mail could not be sent, or the link expires.                        *)
VoidReset ==
  /\ reset.state = "fresh"
  /\ reset' = [reset EXCEPT !.state = "void"]
  /\ UNCHANGED <<now, account, factor, challenge, session, req, spent, replayed>>

(* consumePasswordReset looks the link up, hashes the new password ...     *)
ReadReset(r) ==
  /\ req[r] = Idle /\ reset.state = "fresh"
  /\ Continue(r, [op |-> "reset", id |-> reset.id])
  /\ UNCHANGED <<rows, now, spent, replayed>>

(* ... and uses the link up, if it is still there, with everything that    *)
(* was issued on the old password.                                         *)
CommitReset(r) ==
  /\ req[r].op = "reset"
  /\ IF reset.state = "fresh" /\ reset.id = req[r].id /\ account.pw < MaxPw
     THEN /\ account' = [pw |-> account.pw + 1, cut |-> now]
          /\ session' = Revoked(Sessions)
          /\ challenge' = Closed(Challenges)
          /\ reset' = [reset EXCEPT !.state = "none"]
          /\ Accept({<<"reset", reset.id>>})
     ELSE UNCHANGED <<account, session, challenge, reset, spent, replayed>>
  /\ Finish(r)
  /\ UNCHANGED <<now, factor>>

(* changePassword: the current password is compared, with a second factor  *)
(* a proof is used up, the new password is hashed ...                      *)
VerifyChange(r, s) ==
  /\ req[r] = Idle /\ Actor(s)
  /\ IF factor.state = "on"
     THEN \E p \in Proofs : factor' = AfterProof(p) /\ Accept({p})
     ELSE UNCHANGED <<factor, spent, replayed>>
  /\ Continue(r, [op |-> "change", pw |-> account.pw])
  /\ UNCHANGED <<now, account, reset, challenge, session>>

(* ... and replaces the one that was compared, or nothing.                 *)
CommitChange(r) ==
  /\ req[r].op = "change"
  /\ IF req[r].pw = account.pw /\ account.pw < MaxPw
     THEN /\ account' = [pw |-> account.pw + 1, cut |-> now]
          /\ session' = Revoked(Sessions)
          /\ challenge' = Closed(Challenges)
          /\ reset' = [reset EXCEPT !.state = "none"]
     ELSE UNCHANGED <<account, session, challenge, reset>>
  /\ Finish(r)
  /\ UNCHANGED <<now, factor, spent, replayed>>

-----------------------------------------------------------------------------
(* Devices.  privacy/devices DELETE decides on the session of its request  *)
(* and revokes later, without asking again whether that session is alive.  *)
AskRevocation(r, s) ==
  /\ req[r] = Idle /\ Actor(s)
  /\ \E targets \in {Sessions \ {s}} \cup {{t} : t \in Sessions} :
       Continue(r, [op |-> "revoke", targets |-> targets])
  /\ UNCHANGED <<rows, now, spent, replayed>>

CommitRevocation(r) ==
  /\ req[r].op = "revoke"
  /\ session' = Revoked(req[r].targets)
  /\ Finish(r)
  /\ UNCHANGED <<now, account, factor, reset, challenge, spent, replayed>>

(* logout revokes the session of the browser.                              *)
Logout(s) ==
  /\ Valid(s)
  /\ session' = Revoked({s})
  /\ UNCHANGED <<now, account, factor, reset, challenge, req, spent, replayed>>

Tick ==
  /\ now < MaxTime /\ now' = now + 1
  /\ UNCHANGED <<rows, req, spent, replayed>>

(* A request is abandoned or its process stops.                            *)
Abandon(r) ==
  /\ req[r] # Idle /\ Finish(r)
  /\ UNCHANGED <<rows, now, spent, replayed>>

SignInStep(r) ==
  \/ VerifyPassword(r) \/ ChooseCeremony(r)
  \/ \E c \in Challenges : IssueChallenge(r, c) \/ CompleteMfaChallenge(r, c)
  \/ \E s \in Sessions : IssueDeviceSession(r, s)
FactorStep(s) ==
  \/ GenerateTOTPSetup(s) \/ ReplaceRecoveryCodes(s) \/ Disable2FA(s)
  \/ \E r \in Requests : VerifyAndEnable2FA(r, s)
PasswordStep(r) ==
  \/ ReadReset(r) \/ CommitReset(r) \/ CommitChange(r)
  \/ \E s \in Sessions : VerifyChange(r, s)
DeviceStep(s) ==
  \/ ApproveDevice(s) \/ RecoverDevice(s) \/ Logout(s)
  \/ \E r \in Requests : AskRevocation(r, s)

Next ==
  \/ \E r \in Requests : SignInStep(r) \/ PasswordStep(r) \/ CommitRevocation(r) \/ Abandon(r)
  \/ \E s \in Sessions : FactorStep(s) \/ DeviceStep(s)
  \/ \E c \in Challenges : DropChallenge(c)
  \/ VerifyTOTPLogin \/ IssuePasswordReset \/ VoidReset \/ Tick

Spec == Init /\ [][Next]_vars

-----------------------------------------------------------------------------
(* SessionsAreCurrent: a session that is alive was signed in with the      *)
(* password the account has now, and one that the second factor lets pass  *)
(* has proved this enrolment of it, however long a sign-in was under way   *)
(* while the password or the factor changed (issueDeviceSession,           *)
(* consumePasswordReset, disable2FA).                                      *)
SessionsAreCurrent ==
  \A s \in Sessions : session[s].state = "live" =>
    /\ session[s].pw = account.pw
    /\ factor.state = "on" /\ PassesFactor(s) => session[s].second = factor.secret

(* SingleUse: no authenticator code, recovery code, challenge or reset     *)
(* link is honoured twice, whichever requests race for it, and the account *)
(* stays in one piece (consumeSecondFactor, completeMfaChallenge,          *)
(* consumePasswordReset).                                                  *)
SingleUse == TypeOK /\ ~ replayed

(* NoResurrection: a session that was turned away is never let in again;   *)
(* in particular, removing the second factor does not bring back the       *)
(* sessions it had locked out (disable2FA).                                *)
NoResurrection ==
  [][\A s \in Sessions :
       session[s].state # "none" /\ ~ Valid(s) => ~ Valid(s)']_vars

(* PasswordHasBasis: a password is replaced only by a request that proved  *)
(* this very password, or with a reset link that was issued after the last *)
(* replacement and is the newest one (changePassword,                      *)
(* consumePasswordReset).                                                  *)
PasswordHasBasis ==
  [][account'.pw # account.pw =>
       \E r \in Requests : req[r] # Idle /\ req'[r] = Idle /\
         \/ req[r].op = "change" /\ req[r].pw = account.pw
         \/ req[r].op = "reset" /\ req[r].id = reset.id /\ reset.pw = account.pw]_vars
=============================================================================
