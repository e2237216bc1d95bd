---------------------------- MODULE SignIn_proofs ----------------------------
(***************************************************************************)
(* No one-time proof is honoured twice, a session that is alive stands on  *)
(* the current password and second factor, one that was turned away stays  *)
(* out, and a password is replaced only with a basis, for any number of    *)
(* sessions, challenges, codes, requests and changes.                      *)
(***************************************************************************)
EXTENDS SignIn, TLAPS

-----------------------------------------------------------------------------
(* The inductive invariant                                                 *)

FactorRow == [state : {"none", "setup", "on"}, secret : 0..MaxSecrets, since : Time,
              step : 0..(MaxTime + 2), codes : SUBSET Codes]
ResetRow == [state : {"none", "fresh", "void"}, id : 0..MaxResets, at : Time, pw : 0..MaxPw]

(* Nothing is dated in the future.                                         *)
Dated ==
  /\ now > 0 /\ account.cut <= now
  /\ \A c \in Challenges : challenge[c].state = "open" => challenge[c].at <= now
  /\ \A s \in Sessions : session[s].state = "live" => session[s].auth <= now

(* A reset link that may be used was issued on the password of now.        *)
ResetIsCurrent == reset.state = "fresh" => reset.pw = account.pw /\ reset.id > 0

(* What was accepted cannot be presented again.                            *)
Barred(p) ==
  /\ p[1] = "step" =>
       /\ p[2] \in 0..factor.secret /\ p[3] \in Nat
       /\ p[2] = factor.secret => /\ factor.state # "setup"
                                  /\ factor.state = "on" => p[3] <= factor.step
  /\ p[1] = "code" => p = <<"code", p[2]>> /\ p[2] \notin factor.codes
  /\ p[1] = "challenge" => p[2] \in Challenges /\ challenge[p[2]].state = "closed"
  /\ p[1] = "reset" => p[2] \in 0..reset.id /\ (p[2] = reset.id => reset.state = "none")
SpentForGood == \A p \in spent : Barred(p)

(* A session that has passed a second factor has passed the present one.   *)
Enrolled ==
  \A s \in Sessions : session[s].state = "live" =>
    /\ session[s].pw = account.pw
    /\ session[s].mfa > 0 => factor.state = "on" /\ session[s].second = factor.secret

(* So has a request that is about to issue one, unless the cutoff moved    *)
(* since, which the commit compares.                                       *)
IssueInv(r) ==
  req[r].op = "issue" /\ req[r].mfa > 0 =>
    /\ req[r].cut < req[r].at /\ req[r].at <= now
    /\ req[r].cut = account.cut => factor.state = "on" /\ req[r].second = factor.secret

IInv ==
  /\ TypeOK /\ ~ replayed
  /\ Dated
  /\ ResetIsCurrent
  /\ SpentForGood
  /\ Enrolled
  /\ \A r \in Requests : IssueInv(r)

USE DEF vars, rows
USE SignInAssumption

-----------------------------------------------------------------------------
(* The operators that the steps are built from                             *)

LEMMA Types ==
  TypeOK <=> /\ now \in Time /\ account \in [pw : 0..MaxPw, cut : Time]
             /\ factor \in FactorRow /\ reset \in ResetRow
             /\ challenge \in [Challenges -> ChallengeRow] /\ session \in [Sessions -> SessionRow]
             /\ req \in [Requests -> Waiting \cup {Idle}] /\ replayed \in BOOLEAN
             /\ (factor.state = "on" => factor.since > 0 /\ factor.step > 0)
  BY DEF TypeOK, FactorRow, ResetRow

(* What a request in flight carries.                                       *)
LEMMA RequestFields ==
  ASSUME TypeOK, NEW r \in Requests
  PROVE  /\ req[r].op \in {"known", "challenge", "issue"} =>
              req[r].pw \in 0..MaxPw /\ req[r].cut \in Time
         /\ req[r].op \in {"challenge", "issue"} => req[r].at \in Time
         /\ req[r].op = "issue" => req[r].mfa \in Time /\ req[r].second \in 0..MaxSecrets
         /\ req[r].op = "change" => req[r].pw \in 0..MaxPw
         /\ req[r].op = "reset" => req[r].id \in 1..MaxResets
         /\ req[r].op = "revoke" => req[r].targets \in SUBSET Sessions
<1>1. req[r] \in Waiting \cup {Idle}
  BY Types
<1> QED
  BY <1>1 DEF Waiting, SignInState, Idle

(* A request that ends, or goes on with something else than an issue.      *)
LEMMA RequestMoves ==
  ASSUME IInv, NEW r \in Requests, NEW q \in Waiting \cup {Idle}, Continue(r, q),
         q.op = "issue" /\ q.mfa > 0 =>
           /\ q.cut < q.at /\ q.at <= now'
           /\ q.cut = account'.cut => factor'.state = "on" /\ q.second = factor'.secret,
         now' \in Time, now <= now',
         \/ UNCHANGED account
         \/ account'.cut = now,
         factor.state = "on" /\ factor.secret # factor'.secret => account'.cut = now,
         factor.state = "on" /\ factor'.state # "on" => account'.cut = now
  PROVE  req' \in [Requests -> Waiting \cup {Idle}] /\ \A x \in Requests : IssueInv(x)'
<1>1. req' \in [Requests -> Waiting \cup {Idle}]
  BY Types DEF IInv, Continue
<1>2. ASSUME NEW x \in Requests PROVE IssueInv(x)'
  <2>1. CASE x = r
    BY <2>1, Types DEF IInv, Continue, IssueInv
  <2>2. CASE x # r
    <3>1. req'[x] = req[x]
      BY <2>2, Types DEF IInv, Continue
    <3>2. IssueInv(x)
      BY DEF IInv
    <3>3. req[x].op = "issue" => req[x].cut \in Time /\ req[x].at \in Time
      BY RequestFields DEF IInv
    <3> QED
      BY <3>1, <3>2, <3>3, Types DEF IInv, IssueInv, Time
  <2> QED
    BY <2>1, <2>2
<1> QED
  BY <1>1, <1>2

(* A request that ends while time stands still.                            *)
LEMMA RequestEnds ==
  ASSUME IInv, NEW r \in Requests, Finish(r), UNCHANGED now,
         UNCHANGED account \/ account'.cut = now,
         factor.state = "on" /\ factor.secret # factor'.secret => account'.cut = now,
         factor.state = "on" /\ factor'.state # "on" => account'.cut = now
  PROVE  req' \in [Requests -> Waiting \cup {Idle}] /\ \A x \in Requests : IssueInv(x)'
<1>1. Continue(r, Idle) /\ Idle.op = "none"
  BY DEF Continue, Finish, Idle
<1>2. now \in Time /\ now' \in Time /\ now <= now'
  BY Types DEF IInv, Time
<1> QED
  BY <1>1, <1>2, RequestMoves

(* A session's row that is approved and dated anew.                        *)
LEMMA SessionRecovered ==
  ASSUME NEW r \in SessionRow, NEW t \in Time
  PROVE  \E g \in SessionRow :
           /\ g = [r EXCEPT !.pending = FALSE, !.auth = t]
           /\ g.auth = t /\ g.state = r.state
           /\ g.pw = r.pw /\ g.mfa = r.mfa /\ g.second = r.second
<1> DEFINE g == [r EXCEPT !.pending = FALSE, !.auth = t]
<1>1. /\ g \in SessionRow /\ g.auth = t /\ g.state = r.state
      /\ g.pw = r.pw /\ g.mfa = r.mfa /\ g.second = r.second
  BY DEF SessionRow
<1> QED
  BY <1>1

(* Sessions that are revoked are not alive; the others keep their rows.    *)
LEMMA Revoking ==
  ASSUME TypeOK, NEW S
  PROVE  /\ Revoked(S) \in [Sessions -> SessionRow]
         /\ \A s \in Sessions : /\ Revoked(S)[s].state = "live" => Revoked(S)[s] = session[s] /\ s \notin S
                                /\ session[s].state = "revoked" => Revoked(S)[s].state = "revoked"
<1>1. Gone \in SessionRow
  BY DEF Gone, SessionRow, Time
<1> QED
  BY <1>1, Types DEF Revoked, Gone, SessionRow

LEMMA Closing ==
  ASSUME TypeOK, NEW C
  PROVE  /\ Closed(C) \in [Challenges -> ChallengeRow]
         /\ \A c \in Challenges : /\ Closed(C)[c].state = "open" => Closed(C)[c] = challenge[c]
                                  /\ challenge[c].state = "closed" => Closed(C)[c].state = "closed"
                                  /\ c \in C /\ challenge[c].state = "open" => Closed(C)[c].state = "closed"
<1>1. Used \in ChallengeRow
  BY DEF Used, ChallengeRow, Time
<1> QED
  BY <1>1, Types DEF Closed, Used, ChallengeRow

(* The factor's row with some of its columns written.                      *)
LEMMA FactorStepped ==
  ASSUME NEW f \in FactorRow, NEW k \in 0..(MaxTime + 2)
  PROVE  /\ [f EXCEPT !.step = k] \in FactorRow
         /\ [f EXCEPT !.step = k].state = f.state /\ [f EXCEPT !.step = k].secret = f.secret
         /\ [f EXCEPT !.step = k].since = f.since /\ [f EXCEPT !.step = k].codes = f.codes
         /\ [f EXCEPT !.step = k].step = k
  BY DEF FactorRow

LEMMA FactorCoded ==
  ASSUME NEW f \in FactorRow, NEW C \in SUBSET Codes
  PROVE  /\ [f EXCEPT !.codes = C] \in FactorRow
         /\ [f EXCEPT !.codes = C].state = f.state /\ [f EXCEPT !.codes = C].secret = f.secret
         /\ [f EXCEPT !.codes = C].since = f.since /\ [f EXCEPT !.codes = C].step = f.step
         /\ [f EXCEPT !.codes = C].codes = C
  BY DEF FactorRow

EnabledFactor(f, t, k, C) == [f EXCEPT !.state = "on", !.since = t, !.step = k, !.codes = C]

LEMMA FactorEnabled ==
  ASSUME NEW f \in FactorRow, NEW C \in SUBSET Codes, NEW k \in 0..(MaxTime + 2), NEW t \in Time
  PROVE  /\ EnabledFactor(f, t, k, C) \in FactorRow
         /\ EnabledFactor(f, t, k, C).state = "on" /\ EnabledFactor(f, t, k, C).secret = f.secret
         /\ EnabledFactor(f, t, k, C).since = t /\ EnabledFactor(f, t, k, C).step = k
         /\ EnabledFactor(f, t, k, C).codes = C
  BY DEF FactorRow, EnabledFactor

LEMMA FactorDisabled ==
  ASSUME NEW f \in FactorRow
  PROVE  LET g == [f EXCEPT !.state = "none", !.since = 0, !.step = 0, !.codes = {}]
         IN  g \in FactorRow /\ g.state = "none" /\ g.secret = f.secret /\ g.codes = {}
<1>1. 0 \in Time /\ 0 \in 0..(MaxTime + 2)
  BY DEF Time
<1> QED
  BY <1>1 DEF FactorRow

(* A second factor's proof is new, and afterwards it is not one any more.  *)
LEMMA Proving ==
  ASSUME IInv, NEW p \in Proofs
  PROVE  /\ factor.state = "on"
         /\ AfterProof(p) \in FactorRow
         /\ AfterProof(p).state = "on" /\ AfterProof(p).secret = factor.secret
         /\ AfterProof(p).since = factor.since /\ AfterProof(p).step > 0
         /\ AfterProof(p).step >= factor.step /\ AfterProof(p).codes \subseteq factor.codes
         /\ p \notin spent
         /\ \/ p[1] = "step" /\ p[2] = factor.secret /\ p[3] \in Nat /\ p[3] <= AfterProof(p).step
            \/ p[1] = "code" /\ p = <<"code", p[2]>> /\ p[2] \notin AfterProof(p).codes
<1>1. factor.state = "on" /\ p \in Steps \cup Recovery
  BY DEF Proofs
<1>2. factor \in FactorRow /\ factor.step > 0
  BY <1>1, Types DEF IInv
<1>3. ASSUME NEW k \in Window, k > factor.step, p = <<"step", factor.secret, k>>
      PROVE  /\ AfterProof(p) = [factor EXCEPT !.step = k] /\ p \notin spent /\ k \in 1..(MaxTime + 2)
             /\ p[1] = "step" /\ p[2] = factor.secret /\ p[3] = k
  <2>1. p[1] = "step" /\ p[2] = factor.secret /\ p[3] = k
    BY <1>3
  <2>2. k \in 1..(MaxTime + 2)
    BY <1>3 DEF Window
  <2>3. p \notin spent
    BY <2>1, <2>2, <1>1, <1>2, <1>3 DEF IInv, SpentForGood, Barred, FactorRow
  <2> QED
    BY <2>1, <2>2, <2>3 DEF AfterProof
<1>4. ASSUME NEW c \in factor.codes, p = <<"code", c>>
      PROVE  /\ AfterProof(p) = [factor EXCEPT !.codes = @ \ {c}] /\ p \notin spent
             /\ p[1] = "code" /\ p[2] = c
  <2>1. p[1] = "code" /\ p[2] = c
    BY <1>4
  <2>2. p \notin spent
    BY <2>1, <1>4 DEF IInv, SpentForGood, Barred
  <2> QED
    BY <2>1, <2>2 DEF AfterProof
<1>5. CASE p \in Steps
  <2>1. PICK k \in Window : k > factor.step /\ p = <<"step", factor.secret, k>>
    BY <1>5 DEF Steps
  <2>2. k \in 1..(MaxTime + 2)
    BY <2>1 DEF Window
  <2>3. /\ AfterProof(p) = [factor EXCEPT !.step = k] /\ p \notin spent
        /\ p[1] = "step" /\ p[2] = factor.secret /\ p[3] = k
    BY <1>3, <2>1
  <2>4. factor.step \in Nat
    BY <1>2 DEF FactorRow
  <2>5. k \in 0..(MaxTime + 2) /\ k \in Nat /\ k > 0 /\ k >= factor.step
    BY <2>1, <2>2, <2>4
  <2>6. [factor EXCEPT !.step = k] \in FactorRow
        /\ [factor EXCEPT !.step = k].state = factor.state
        /\ [factor EXCEPT !.step = k].secret = factor.secret
        /\ [factor EXCEPT !.step = k].since = factor.since
        /\ [factor EXCEPT !.step = k].codes = factor.codes
        /\ [factor EXCEPT !.step = k].step = k
    BY <1>2, <2>5, FactorStepped
  <2> QED
    BY <1>1, <2>3, <2>5, <2>6
<1>6. CASE p \in Recovery
  <2>1. PICK c \in factor.codes : p = <<"code", c>>
    BY <1>6 DEF Recovery
  <2>2. /\ AfterProof(p) = [factor EXCEPT !.codes = @ \ {c}] /\ p \notin spent
        /\ p[1] = "code" /\ p[2] = c /\ p = <<"code", p[2]>>
    BY <1>4, <2>1
  <2>3. factor.codes \ {c} \in SUBSET Codes /\ factor.step \in Nat
    BY <1>2 DEF FactorRow
  <2> QED
    BY <1>1, <1>2, <2>2, <2>3, FactorCoded
<1> QED
  BY <1>1, <1>5, <1>6

(* A second factor's proof is used up, alone or with the challenge it      *)
(* answers.                                                                *)
LEMMA ProvingKeeps ==
  ASSUME IInv, NEW p \in Proofs, factor' = AfterProof(p), UNCHANGED <<account, reset>>,
         NEW X, Accept({p} \cup X), X \cap spent = {},
         \A x \in X : x[1] \notin {"step", "code", "reset"},
         \A x \in spent \cup X :
           x[1] = "challenge" => x[2] \in Challenges /\ challenge'[x[2]].state = "closed"
  PROVE  /\ SpentForGood' /\ replayed' = FALSE
         /\ factor' \in FactorRow /\ factor'.since > 0 /\ factor'.step > 0
         /\ factor'.state = "on" /\ factor.state = "on"
         /\ factor'.secret = factor.secret /\ factor'.since = factor.since
<1>1. factor \in FactorRow /\ factor.since > 0 /\ factor.state = "on"
  BY Proving, Types DEF IInv
<1>2. spent' = spent \cup {p} \cup X /\ replayed' = FALSE
  BY Proving DEF Accept, IInv
<1>3. ASSUME NEW x \in spent' PROVE Barred(x)'
  <2>1. CASE x \in spent
    <3>1. Barred(x)
      BY <2>1 DEF IInv, SpentForGood
    <3> QED
      BY <2>1, <3>1, <1>1, Proving DEF Barred, FactorRow
  <2>2. CASE x = p
    <3>1. \/ p[1] = "step" /\ p[2] = factor'.secret /\ p[3] \in Nat /\ p[3] <= factor'.step
          \/ p[1] = "code" /\ p = <<"code", p[2]>> /\ p[2] \notin factor'.codes
      BY Proving
    <3>2. factor'.secret \in 0..MaxSecrets /\ factor'.state = "on"
      BY Proving DEF FactorRow
    <3>3. factor'.secret \in 0..factor'.secret
      BY <3>2
    <3> QED
      BY <2>2, <3>1, <3>2, <3>3 DEF Barred
  <2>3. CASE x \in X
    BY <2>3 DEF Barred
  <2> QED
    BY <1>2, <2>1, <2>2, <2>3
<1> QED
  BY <1>1, <1>2, <1>3, Proving DEF SpentForGood

LEMMA ProvingAlone ==
  ASSUME IInv, NEW p \in Proofs, factor' = AfterProof(p), Accept({p}),
         UNCHANGED <<account, reset, challenge>>
  PROVE  /\ SpentForGood' /\ replayed' = FALSE
         /\ factor' \in FactorRow /\ factor'.since > 0 /\ factor'.step > 0
         /\ factor'.state = "on" /\ factor.state = "on"
         /\ factor'.secret = factor.secret /\ factor'.since = factor.since
<1> DEFINE X == {}
<1>1. {p} \cup X = {p} /\ X \cap spent = {} /\ spent \cup X = spent
  OBVIOUS
<1>2. \A x \in X : x[1] \notin {"step", "code", "reset"}
  OBVIOUS
<1>3. \A x \in spent : x[1] = "challenge" => x[2] \in Challenges /\ challenge'[x[2]].state = "closed"
  BY DEF IInv, SpentForGood, Barred
<1>4. Accept({p} \cup X)
  BY <1>1
<1>5. \A x \in spent \cup X :
        x[1] = "challenge" => x[2] \in Challenges /\ challenge'[x[2]].state = "closed"
  BY <1>1, <1>3
<1> HIDE DEF X
<1> QED
  BY <1>1, <1>2, <1>4, <1>5, ProvingKeeps

(* Steps that change the requests alone, the sessions or the challenges.   *)
LEMMA OnlyRequests ==
  ASSUME IInv, UNCHANGED <<rows, now, spent, replayed>>,
         req' \in [Requests -> Waiting \cup {Idle}], \A x \in Requests : IssueInv(x)'
  PROVE  IInv'
BY DEF IInv, TypeOK, Dated, ResetIsCurrent, SpentForGood, Barred, Enrolled

LEMMA OnlySessions ==
  ASSUME IInv, UNCHANGED <<now, account, factor, reset, challenge, spent, replayed>>,
         req' \in [Requests -> Waiting \cup {Idle}], \A x \in Requests : IssueInv(x)',
         session' \in [Sessions -> SessionRow],
         \A s \in Sessions : session'[s].state = "live" =>
           /\ session'[s].auth <= now /\ session'[s].pw = account.pw
           /\ session'[s].mfa > 0 => factor.state = "on" /\ session'[s].second = factor.secret
  PROVE  IInv'
BY DEF IInv, TypeOK, Dated, ResetIsCurrent, SpentForGood, Barred, Enrolled

LEMMA OnlyChallenges ==
  ASSUME IInv, UNCHANGED <<now, account, factor, reset, session, spent, replayed>>,
         req' \in [Requests -> Waiting \cup {Idle}], \A x \in Requests : IssueInv(x)',
         challenge' \in [Challenges -> ChallengeRow],
         \A c \in Challenges : /\ challenge'[c].state = "open" => challenge'[c].at <= now
                               /\ challenge[c].state = "closed" => challenge'[c].state = "closed"
  PROVE  IInv'
BY DEF IInv, TypeOK, Dated, ResetIsCurrent, SpentForGood, Barred, Enrolled

(* Requests and time stand still.                                          *)
LEMMA RequestsStay ==
  ASSUME IInv, UNCHANGED <<now, req>>,
         UNCHANGED account \/ account'.cut = now,
         factor.state = "on" /\ factor.secret # factor'.secret => account'.cut = now,
         factor.state = "on" /\ factor'.state # "on" => account'.cut = now
  PROVE  \A x \in Requests : IssueInv(x)'
<1> SUFFICES ASSUME NEW x \in Requests PROVE IssueInv(x)'
  OBVIOUS
<1>1. IssueInv(x)
  BY DEF IInv
<1>2. req[x].op = "issue" => req[x].cut \in Time /\ req[x].at \in Time
  BY RequestFields DEF IInv
<1> QED
  BY <1>1, <1>2, Types DEF IInv, IssueInv, Time

-----------------------------------------------------------------------------
(* The steps                                                               *)

LEMMA Initially == Init => IInv
<1> SUFFICES ASSUME Init PROVE IInv
  OBVIOUS
<1>1. 0 \in Time /\ 1 \in Time /\ 0 \in 0..MaxPw /\ 0 \in 0..MaxSecrets /\ 0 \in 0..MaxResets
      /\ 0 \in 0..(MaxTime + 2)
  BY DEF Time
<1>2. session \in [Sessions -> SessionRow] /\ challenge \in [Challenges -> ChallengeRow]
  BY <1>1 DEF Init, ChallengeRow, SessionRow
<1>3. account \in [pw : 0..MaxPw, cut : Time] /\ reset \in ResetRow /\ factor \in FactorRow
  BY <1>1 DEF Init, ResetRow, FactorRow
<1>4. now \in Time /\ req \in [Requests -> Waiting \cup {Idle}] /\ replayed \in BOOLEAN
      /\ factor.state = "none"
  BY <1>1 DEF Init
<1>5. TypeOK
  BY <1>2, <1>3, <1>4, Types
<1> QED
  BY <1>5 DEF Init, IInv, Dated, ResetIsCurrent, SpentForGood, Enrolled, IssueInv, Idle

LEMMA SignInStepKeeps ==
  ASSUME IInv, NEW r \in Requests, SignInStep(r)
  PROVE  IInv'
<1>1. CASE VerifyPassword(r)
  <2> DEFINE q == [op |-> "known", pw |-> account.pw, cut |-> account.cut]
  <2>1. q \in Waiting
    BY Types DEF IInv, Waiting, SignInState
  <2> QED
    BY <1>1, <2>1, RequestMoves, OnlyRequests, Types DEF VerifyPassword, IInv, Time
<1>2. CASE ChooseCeremony(r)
  <2> DEFINE p == req[r]
             q == IF factor.state = "on"
                  THEN [op |-> "challenge", pw |-> p.pw, cut |-> p.cut, at |-> now]
                  ELSE [op |-> "issue", pw |-> p.pw, cut |-> p.cut, at |-> now,
                        mfa |-> 0, second |-> 0]
  <2>1. q \in Waiting /\ (q.op = "issue" => q.mfa = 0)
    BY <1>2, RequestFields, Types DEF ChooseCeremony, IInv, Waiting, SignInState, Time
  <2>2. Continue(r, q)
    BY <1>2 DEF ChooseCeremony
  <2> QED
    BY <1>2, <2>1, <2>2, RequestMoves, OnlyRequests, Types DEF ChooseCeremony, IInv, Time
<1>3. ASSUME NEW c \in Challenges, IssueChallenge(r, c) PROVE IInv'
  <2> USE <1>3 DEF IssueChallenge
  <2>1. req' \in [Requests -> Waiting \cup {Idle}] /\ \A x \in Requests : IssueInv(x)'
    BY RequestEnds
  <2>2. req[r].pw \in 0..MaxPw /\ req[r].at \in Time /\ now \in Time
    BY RequestFields, Types DEF IInv
  <2>3. /\ challenge' \in [Challenges -> ChallengeRow]
        /\ \A d \in Challenges : /\ challenge'[d].state = "open" => challenge'[d].at <= now
                                 /\ challenge[d].state = "closed" => challenge'[d].state = "closed"
    BY <2>2, Types DEF IInv, Dated, ChallengeRow, Time
  <2> QED
    BY <2>1, <2>3, OnlyChallenges
<1>4. ASSUME NEW c \in Challenges, CompleteMfaChallenge(r, c) PROVE IInv'
  <2> USE <1>4 DEF CompleteMfaChallenge
  <2>1. PICK p \in Proofs : factor' = AfterProof(p) /\ Accept({p, <<"challenge", c>>})
    OBVIOUS
  <2> DEFINE x == <<"challenge", c>>
             q == [op |-> "issue", pw |-> account.pw, cut |-> account.cut, at |-> now,
                   mfa |-> factor.since, second |-> factor.secret]
  <2>2. x[1] = "challenge" /\ x[2] = c
    OBVIOUS
  <2>3. x \notin spent
    BY <2>2 DEF IInv, SpentForGood, Barred
  <2>4. challenge'[c].state = "closed"
    BY Closing DEF IInv
  <2>5. \A y \in spent \cup {x} : y[1] = "challenge" => y[2] \in Challenges /\ challenge'[y[2]].state = "closed"
    BY <2>2, <2>4, Closing DEF IInv, SpentForGood, Barred
  <2>6. /\ SpentForGood' /\ replayed' = FALSE
        /\ factor' \in FactorRow /\ factor'.since > 0 /\ factor'.step > 0
        /\ factor'.state = "on" /\ factor'.secret = factor.secret /\ factor'.since = factor.since
    <3>1. Accept({p} \cup {x}) /\ {x} \cap spent = {}
      BY <2>1, <2>3
    <3>2. \A y \in {x} : y[1] \notin {"step", "code", "reset"}
      BY <2>2
    <3> HIDE DEF x
    <3> QED
      BY <2>1, <2>5, <3>1, <3>2, ProvingKeeps
  <2>7. q \in Waiting /\ account.cut < now
    BY Types DEF IInv, Dated, Waiting, SignInState, FactorRow, ChallengeRow, Time
  <2>8. req' \in [Requests -> Waiting \cup {Idle}] /\ \A y \in Requests : IssueInv(y)'
    BY <2>6, <2>7, RequestMoves, Types DEF IInv, Time
  <2>9. challenge' \in [Challenges -> ChallengeRow] /\ Dated'
    BY Closing DEF IInv, Dated
  <2>10. TypeOK'
    BY <2>6, <2>8, <2>9 DEF IInv, TypeOK, FactorRow
  <2>11. ResetIsCurrent' /\ Enrolled'
    BY <2>6 DEF IInv, ResetIsCurrent, Enrolled
  <2> QED
    BY <2>6, <2>8, <2>9, <2>10, <2>11 DEF IInv
<1>5. ASSUME NEW s \in Sessions, IssueDeviceSession(r, s) PROVE IInv'
  <2> USE <1>5 DEF IssueDeviceSession
  <2>1. req' \in [Requests -> Waiting \cup {Idle}] /\ \A x \in Requests : IssueInv(x)'
    BY RequestEnds
  <2>2. /\ req[r].pw \in 0..MaxPw /\ req[r].at \in Time /\ now \in Time
        /\ req[r].mfa \in Time /\ req[r].second \in 0..MaxSecrets
    BY RequestFields, Types DEF IInv
  <2>3. IssueInv(r)
    BY DEF IInv
  <2> DEFINE Issued ==
        /\ session' \in [Sessions -> SessionRow]
        /\ \A d \in Sessions : session'[d].state = "live" =>
             /\ session'[d].auth <= now /\ session'[d].pw = account.pw
             /\ session'[d].mfa > 0 => factor.state = "on" /\ session'[d].second = factor.secret
  <2>4. Issued
    <3>1. CASE UNCHANGED session
      BY <3>1, Types DEF IInv, Dated, Enrolled
    <3>2. ASSUME NEW at \in req[r].at..now, SameState(req[r]),
                 session' = [session EXCEPT ![s] =
                   [state |-> "live", auth |-> at, mfa |-> req[r].mfa, pending |-> TRUE,
                    pw |-> req[r].pw, second |-> req[r].second]]
          PROVE  Issued
      <4>1. at \in Time /\ at <= now
        BY <2>2 DEF Time
      <4> QED
        BY <2>2, <2>3, <3>2, <4>1, Types DEF IInv, Dated, Enrolled, IssueInv, SameState, SessionRow
    <3> QED
      BY <3>1, <3>2
  <2> QED
    BY <2>1, <2>4, OnlySessions
<1> QED
  BY <1>1, <1>2, <1>3, <1>4, <1>5 DEF SignInStep

(* The factor is set up, enabled, given new codes or removed.              *)
LEMMA FactorStepKeeps ==
  ASSUME IInv, NEW s \in Sessions, FactorStep(s)
  PROVE  IInv'
<1> factor \in FactorRow
  BY Types DEF IInv
<1>1. CASE GenerateTOTPSetup(s)
  <2> USE <1>1 DEF GenerateTOTPSetup
  <2>1. factor' \in FactorRow /\ factor'.state = "setup" /\ factor'.secret = factor.secret + 1
        /\ factor'.codes = factor.codes
    <3>1. factor.secret + 1 \in 0..MaxSecrets
      BY DEF FactorRow
    <3> QED
      BY <3>1 DEF FactorRow
  <2>2. TypeOK'
    BY <2>1 DEF IInv, TypeOK, FactorRow
  <2>3. SpentForGood'
    <3> SUFFICES ASSUME NEW p \in spent PROVE Barred(p)'
      BY DEF SpentForGood
    <3>1. Barred(p)
      BY DEF IInv, SpentForGood
    <3> QED
      BY <2>1, <3>1 DEF Barred, FactorRow
  <2>4. Dated' /\ ResetIsCurrent' /\ Enrolled'
    BY DEF IInv, Dated, ResetIsCurrent, Enrolled
  <2>5. \A x \in Requests : IssueInv(x)'
    BY RequestsStay
  <2> QED
    BY <2>2, <2>3, <2>4, <2>5 DEF IInv
<1>2. CASE ReplaceRecoveryCodes(s)
  <2> USE <1>2 DEF ReplaceRecoveryCodes
  <2>1. PICK codes \in SUBSET (Codes \ {c \in Codes : <<"code", c>> \in spent}) :
          factor' = [factor EXCEPT !.codes = codes]
    OBVIOUS
  <2>2. TypeOK'
    BY <2>1 DEF IInv, TypeOK, FactorRow
  <2>3. SpentForGood'
    <3> SUFFICES ASSUME NEW p \in spent PROVE Barred(p)'
      BY DEF SpentForGood
    <3>1. Barred(p)
      BY DEF IInv, SpentForGood
    <3>2. p[1] = "code" => p[2] \notin codes
      BY <2>1, <3>1 DEF Barred
    <3> QED
      BY <2>1, <3>1, <3>2 DEF Barred, FactorRow
  <2>4. Dated' /\ ResetIsCurrent' /\ Enrolled'
    BY <2>1 DEF IInv, Dated, ResetIsCurrent, Enrolled, FactorRow
  <2>5. \A x \in Requests : IssueInv(x)'
    BY <2>1, RequestsStay DEF FactorRow
  <2> QED
    BY <2>2, <2>3, <2>4, <2>5 DEF IInv
<1>3. CASE Disable2FA(s)
  <2> USE <1>3 DEF Disable2FA
  <2>1. factor' \in FactorRow /\ factor'.state = "none" /\ factor'.secret = factor.secret /\ factor'.codes = {}
    BY FactorDisabled
  <2>2. account' \in [pw : 0..MaxPw, cut : Time] /\ account'.cut = now /\ account'.pw = account.pw
    BY Types DEF IInv
  <2>3. session' \in [Sessions -> SessionRow] /\ \A t \in Sessions : session'[t].state # "live"
    BY Revoking DEF IInv
  <2>4. challenge' \in [Challenges -> ChallengeRow]
        /\ \A c \in Challenges : /\ challenge'[c].state = "open" => challenge'[c] = challenge[c]
                                 /\ challenge[c].state = "closed" => challenge'[c].state = "closed"
    BY Closing DEF IInv
  <2>5. TypeOK'
    BY <2>1, <2>2, <2>3, <2>4 DEF IInv, TypeOK, FactorRow
  <2>6. SpentForGood'
    <3> SUFFICES ASSUME NEW p \in spent PROVE Barred(p)'
      BY DEF SpentForGood
    <3>1. Barred(p)
      BY DEF IInv, SpentForGood
    <3> QED
      BY <2>1, <2>4, <3>1 DEF Barred
  <2>7. Dated' /\ ResetIsCurrent' /\ Enrolled'
    BY <2>2, <2>3, <2>4, Types DEF IInv, Dated, ResetIsCurrent, Enrolled, Time
  <2>8. \A x \in Requests : IssueInv(x)'
    BY <2>2, RequestsStay
  <2> QED
    BY <2>5, <2>6, <2>7, <2>8 DEF IInv
<1>4. ASSUME NEW r \in Requests, VerifyAndEnable2FA(r, s) PROVE IInv'
  <2> USE <1>4 DEF VerifyAndEnable2FA
  <2>1. PICK k \in Window, codes \in SUBSET (Codes \ {c \in Codes : <<"code", c>> \in spent}) :
          /\ factor' = [factor EXCEPT !.state = "on", !.since = now, !.step = k, !.codes = codes]
          /\ Accept({<<"step", factor.secret, k>>})
    OBVIOUS
  <2> DEFINE x == <<"step", factor.secret, k>>
             q == [op |-> "issue", pw |-> account.pw, cut |-> account.cut, at |-> now,
                   mfa |-> now, second |-> factor.secret]
  <2>2. x[1] = "step" /\ x[2] = factor.secret /\ x[3] = k /\ k \in 1..(MaxTime + 2)
    BY DEF Window
  <2>3. now \in Time /\ now > 0 /\ account.cut < now
    BY Types DEF IInv, Dated, Actor, Valid, SessionRow, Time
  <2>4. factor' \in FactorRow /\ factor'.state = "on" /\ factor'.secret = factor.secret
        /\ factor'.since = now /\ factor'.step = k /\ factor'.codes = codes
    <3>1. codes \in SUBSET Codes
      BY <2>1
    <3>2. k \in 0..(MaxTime + 2) /\ factor \in FactorRow /\ now \in Time
      BY <2>2, <2>3
    <3> HIDE DEF VerifyAndEnable2FA
    <3>3. factor' = EnabledFactor(factor, now, k, codes)
      BY <2>1 DEF EnabledFactor
    <3> QED
      BY <3>1, <3>2, <3>3, FactorEnabled
  <2>5. x \notin spent
    BY <2>2 DEF IInv, SpentForGood, Barred
  <2>6. spent' = spent \cup {x} /\ replayed' = FALSE
    <3>1. spent' = spent \cup {x} /\ replayed' = (replayed \/ {x} \cap spent # {})
      BY <2>1 DEF Accept
    <3> HIDE DEF x, VerifyAndEnable2FA
    <3> QED
      BY <2>5, <3>1 DEF IInv
  <2>7. challenge' \in [Challenges -> ChallengeRow]
        /\ \A c \in Challenges : /\ challenge'[c].state = "open" => challenge'[c] = challenge[c]
                                 /\ challenge[c].state = "closed" => challenge'[c].state = "closed"
    BY Closing DEF IInv
  <2>8. ASSUME NEW p \in spent' PROVE Barred(p)'
    <3>1. CASE p \in spent
      <4>1. Barred(p)
        BY <3>1 DEF IInv, SpentForGood
      <4>2. p[1] = "code" => p[2] \notin codes
        BY <2>1, <3>1, <4>1 DEF Barred
      <4> QED
        BY <2>4, <2>7, <4>1, <4>2 DEF Barred
    <3>2. CASE p = x
      BY <2>2, <2>4, <3>2 DEF Barred, FactorRow
    <3> QED
      BY <2>6, <3>1, <3>2
  <2>9. q \in Waiting /\ q.cut < q.at /\ q.at <= now
    <3>1. /\ account.pw \in 0..MaxPw /\ account.cut \in Time
          /\ factor.secret \in 0..MaxSecrets
      BY Types DEF IInv, FactorRow
    <3>2. q \in SignInState
      BY <2>3, <3>1 DEF SignInState
    <3> QED
      BY <2>3, <3>2 DEF Waiting, Time
  <2>10. req' \in [Requests -> Waiting \cup {Idle}] /\ \A y \in Requests : IssueInv(y)'
    BY <2>3, <2>4, <2>9, RequestMoves DEF Time
  <2>11. TypeOK'
    <3>1. factor'.since > 0 /\ factor'.step > 0
      BY <2>2, <2>3, <2>4
    <3> HIDE DEF VerifyAndEnable2FA, x, q
    <3>2. UNCHANGED <<now, account, reset, session>>
      BY DEF VerifyAndEnable2FA
    <3> QED
      BY <2>4, <2>6, <2>7, <2>10, <3>1, <3>2 DEF IInv, TypeOK, FactorRow
  <2>12. Dated' /\ ResetIsCurrent' /\ Enrolled'
    BY <2>4, <2>7 DEF IInv, Dated, ResetIsCurrent, Enrolled
  <2> QED
    BY <2>6, <2>8, <2>10, <2>11, <2>12 DEF IInv, SpentForGood
<1> QED
  BY <1>1, <1>2, <1>3, <1>4 DEF FactorStep

(* The password is replaced: everything issued on the old one ends.        *)
LEMMA Replacing ==
  ASSUME IInv, NEW r \in Requests, Finish(r), account.pw < MaxPw,
         account' = [pw |-> account.pw + 1, cut |-> now],
         session' = Revoked(Sessions), challenge' = Closed(Challenges),
         reset' = [reset EXCEPT !.state = "none"], UNCHANGED <<now, factor>>,
         replayed' = FALSE,
         \A p \in spent' : p \in spent \/ (p[1] = "reset" /\ p[2] = reset.id)
  PROVE  IInv'
<1>1. account' \in [pw : 0..MaxPw, cut : Time] /\ account'.cut = now
  BY Types DEF IInv
<1>2. session' \in [Sessions -> SessionRow] /\ \A t \in Sessions : session'[t].state # "live"
  BY Revoking DEF IInv
<1>3. challenge' \in [Challenges -> ChallengeRow]
      /\ \A c \in Challenges : /\ challenge'[c].state = "open" => challenge'[c] = challenge[c]
                               /\ challenge[c].state = "closed" => challenge'[c].state = "closed"
  BY Closing DEF IInv
<1>4. reset' \in ResetRow /\ reset'.state = "none" /\ reset'.id = reset.id /\ reset.id \in Nat
  BY Types DEF IInv, ResetRow
<1>5. req' \in [Requests -> Waiting \cup {Idle}] /\ \A x \in Requests : IssueInv(x)'
  BY <1>1, RequestEnds
<1>6. TypeOK'
  BY <1>1, <1>2, <1>3, <1>4, <1>5 DEF IInv, TypeOK, ResetRow
<1>7. ASSUME NEW p \in spent' PROVE Barred(p)'
  <2>1. CASE p \in spent
    <3>1. Barred(p)
      BY <2>1 DEF IInv, SpentForGood
    <3> QED
      BY <1>3, <1>4, <3>1 DEF Barred
  <2>2. CASE p[1] = "reset" /\ p[2] = reset.id
    BY <1>4, <2>2 DEF Barred
  <2> QED
    BY <2>1, <2>2
<1>8. Dated' /\ ResetIsCurrent' /\ Enrolled'
  BY <1>1, <1>2, <1>3, <1>4, Types DEF IInv, Dated, ResetIsCurrent, Enrolled, Time
<1> QED
  BY <1>5, <1>6, <1>7, <1>8 DEF IInv, SpentForGood

LEMMA PasswordStepKeeps ==
  ASSUME IInv, NEW r \in Requests, PasswordStep(r)
  PROVE  IInv'
<1>1. CASE ReadReset(r)
  <2> DEFINE q == [op |-> "reset", id |-> reset.id]
  <2>1. reset.id \in 1..MaxResets
    BY <1>1, Types DEF IInv, ReadReset, ResetRow, ResetIsCurrent
  <2>2. q \in Waiting
    BY <2>1 DEF Waiting
  <2> QED
    BY <1>1, <2>2, RequestMoves, OnlyRequests, Types DEF ReadReset, IInv, Time
<1>2. CASE CommitReset(r)
  <2> USE <1>2 DEF CommitReset
  <2>1. CASE reset.state = "fresh" /\ reset.id = req[r].id /\ account.pw < MaxPw
    <3> DEFINE x == <<"reset", reset.id>>
    <3>1. x[1] = "reset" /\ x[2] = reset.id
      OBVIOUS
    <3>2. x \notin spent
      BY <2>1, <3>1 DEF IInv, SpentForGood, Barred
    <3>3. replayed' = FALSE /\ spent' = spent \cup {x}
      BY <2>1, <3>2 DEF IInv, Accept
    <3> QED
      BY <2>1, <3>1, <3>3, Replacing
  <2>2. CASE ~ (reset.state = "fresh" /\ reset.id = req[r].id /\ account.pw < MaxPw)
    BY <2>2, RequestEnds, OnlyRequests
  <2> QED
    BY <2>1, <2>2
<1>3. CASE CommitChange(r)
  <2> USE <1>3 DEF CommitChange
  <2>1. CASE req[r].pw = account.pw /\ account.pw < MaxPw
    <3>1. replayed' = FALSE /\ \A p \in spent' : p \in spent
      BY DEF IInv
    <3> QED
      BY <2>1, <3>1, Replacing
  <2>2. CASE ~ (req[r].pw = account.pw /\ account.pw < MaxPw)
    BY <2>2, RequestEnds, OnlyRequests
  <2> QED
    BY <2>1, <2>2
<1>4. ASSUME NEW s \in Sessions, VerifyChange(r, s) PROVE IInv'
  <2> USE <1>4 DEF VerifyChange
  <2> DEFINE q == [op |-> "change", pw |-> account.pw]
  <2>1. q \in Waiting
    BY Types DEF IInv, Waiting
  <2>2. CASE factor.state = "on"
    <3>1. PICK p \in Proofs : factor' = AfterProof(p) /\ Accept({p})
      BY <2>2
    <3>2. /\ SpentForGood' /\ replayed' = FALSE
          /\ factor' \in FactorRow /\ factor'.since > 0 /\ factor'.step > 0
          /\ factor'.state = "on" /\ factor'.secret = factor.secret
      BY <3>1, ProvingAlone
    <3>3. req' \in [Requests -> Waiting \cup {Idle}] /\ \A y \in Requests : IssueInv(y)'
      BY <2>1, <3>2, RequestMoves, Types DEF IInv, Time
    <3>4. TypeOK' /\ Dated' /\ ResetIsCurrent' /\ Enrolled'
      BY <2>2, <3>2, <3>3 DEF IInv, TypeOK, FactorRow, Dated, ResetIsCurrent, Enrolled
    <3> QED
      BY <3>2, <3>3, <3>4 DEF IInv
  <2>3. CASE factor.state # "on"
    BY <2>1, <2>3, RequestMoves, OnlyRequests, Types DEF IInv, Time
  <2> QED
    BY <2>2, <2>3
<1> QED
  BY <1>1, <1>2, <1>3, <1>4 DEF PasswordStep

(* Sessions are approved, recovered or end.                                *)
LEMMA DeviceStepKeeps ==
  ASSUME IInv, NEW s \in Sessions, DeviceStep(s)
  PROVE  IInv'
<1>1. CASE ApproveDevice(s)
  <2> USE <1>1 DEF ApproveDevice
  <2>0. /\ session \in [Sessions -> SessionRow]
        /\ session' = [session EXCEPT ![s] = [session[s] EXCEPT !.pending = FALSE]]
    BY Types DEF IInv
  <2>1. \A t \in Sessions : session'[t] \in SessionRow /\ session'[t].state = session[t].state
          /\ session'[t].auth = session[t].auth /\ session'[t].pw = session[t].pw
          /\ session'[t].mfa = session[t].mfa /\ session'[t].second = session[t].second
    <3> HIDE DEF ApproveDevice
    <3> QED
      BY <2>0 DEF SessionRow
  <2>2. session' \in [Sessions -> SessionRow]
    <3>1. DOMAIN session' = Sessions /\ session' = [t \in Sessions |-> session'[t]]
      BY Types DEF IInv
    <3> QED
      BY <2>1, <3>1
  <2>3. \A x \in Requests : IssueInv(x)'
    BY RequestsStay
  <2> QED
    BY <2>1, <2>2, <2>3, OnlySessions, Types DEF IInv, Dated, Enrolled
<1>2. CASE RecoverDevice(s)
  <2> USE <1>2 DEF RecoverDevice
  <2>1. now' = now + 1 /\ now' \in Time /\ now \in Time /\ now > 0
    BY Types DEF IInv, Dated, Time
  <2>2. account' \in [pw : 0..MaxPw, cut : Time] /\ account'.cut = now /\ account'.pw = account.pw
    BY Types DEF IInv
  <2>3. /\ session' \in [Sessions -> SessionRow]
        /\ \A t \in Sessions : session'[t].state = "live" =>
             /\ session[t].state = "live" /\ session'[t].auth <= now'
             /\ session'[t].pw = session[t].pw /\ session'[t].mfa = session[t].mfa
             /\ session'[t].second = session[t].second
    <3> DEFINE rest == Revoked(Sessions \ {s})
    <3>1. rest \in [Sessions -> SessionRow]
          /\ \A t \in Sessions : rest[t].state = "live" => rest[t] = session[t] /\ t = s
      BY Revoking DEF IInv
    <3> DEFINE own == [rest[s] EXCEPT !.pending = FALSE, !.auth = now + 1]
    <3>2. session' = [rest EXCEPT ![s] = own]
      BY <3>1
    <3>3. own \in SessionRow /\ own.auth = now' /\ own.state = rest[s].state
          /\ own.pw = rest[s].pw /\ own.mfa = rest[s].mfa /\ own.second = rest[s].second
      <4>1. rest[s] \in SessionRow /\ now + 1 \in Time
        BY <2>1, <3>1
      <4>2. \E g \in SessionRow :
              /\ g = own
              /\ g.auth = now + 1 /\ g.state = rest[s].state
              /\ g.pw = rest[s].pw /\ g.mfa = rest[s].mfa /\ g.second = rest[s].second
        <5> HIDE DEF rest, RecoverDevice
        <5> QED
          BY <4>1, SessionRecovered
      <4> HIDE DEF rest, own, RecoverDevice
      <4> QED
        BY <2>1, <4>2
    <3>4. \A t \in Sessions : session'[t] = IF t = s THEN own ELSE rest[t]
      BY <3>1, <3>2
    <3>5. session' \in [Sessions -> SessionRow]
      BY <3>1, <3>2, <3>3
    <3>6. now' <= now'
      BY <2>1 DEF Time
    <3>7. \A t \in Sessions : rest[t].state = "live" => t = s /\ rest[t] = session[t]
      BY <3>1
    <3> HIDE DEF rest, own, RecoverDevice
    <3>8. ASSUME NEW t \in Sessions, session'[t].state = "live"
          PROVE  /\ session[t].state = "live" /\ session'[t].auth <= now'
                 /\ session'[t].pw = session[t].pw /\ session'[t].mfa = session[t].mfa
                 /\ session'[t].second = session[t].second
      BY <3>3, <3>4, <3>6, <3>7, <3>8
    <3> QED
      BY <3>5, <3>8
  <2>4. \A x \in Requests : IssueInv(x)'
    <3> SUFFICES ASSUME NEW x \in Requests PROVE IssueInv(x)'
      OBVIOUS
    <3>1. IssueInv(x)
      BY DEF IInv
    <3>2. req[x].op = "issue" => req[x].cut \in Time /\ req[x].at \in Time
      BY RequestFields DEF IInv
    <3> QED
      BY <2>1, <2>2, <3>1, <3>2 DEF IssueInv, Time
  <2>5. TypeOK'
    BY <2>1, <2>2, <2>3 DEF IInv, TypeOK
  <2>6. Dated'
    <3>1. \A c \in Challenges : challenge[c].state = "open" => challenge'[c].at <= now'
      <4>1. \A c \in Challenges : challenge[c].at \in Nat
        BY Types DEF IInv, ChallengeRow, Time
      <4> QED
        BY <2>1, <4>1 DEF IInv, Dated, Time
    <3>2. UNCHANGED challenge
      OBVIOUS
    <3> HIDE DEF RecoverDevice
    <3>3. now' > 0 /\ account'.cut <= now'
      BY <2>1, <2>2 DEF Time
    <3> QED
      BY <2>3, <3>1, <3>2, <3>3 DEF Dated
  <2>7. ResetIsCurrent' /\ Enrolled'
    <3>1. UNCHANGED <<factor, reset>>
      OBVIOUS
    <3> HIDE DEF RecoverDevice
    <3> QED
      BY <2>2, <2>3, <3>1 DEF IInv, ResetIsCurrent, Enrolled
  <2> QED
    BY <2>4, <2>5, <2>6, <2>7 DEF IInv, SpentForGood, Barred
<1>3. CASE Logout(s)
  <2> USE <1>3 DEF Logout
  <2>1. \A x \in Requests : IssueInv(x)'
    BY RequestsStay
  <2> QED
    BY <2>1, Revoking, OnlySessions, Types DEF IInv, Dated, Enrolled
<1>4. ASSUME NEW r \in Requests, AskRevocation(r, s) PROVE IInv'
  <2> USE <1>4 DEF AskRevocation
  <2>1. PICK targets \in {Sessions \ {s}} \cup {{t} : t \in Sessions} :
          Continue(r, [op |-> "revoke", targets |-> targets])
    OBVIOUS
  <2>2. [op |-> "revoke", targets |-> targets] \in Waiting
    BY <2>1 DEF Waiting
  <2> QED
    BY <2>1, <2>2, RequestMoves, OnlyRequests, Types DEF IInv, Time
<1> QED
  BY <1>1, <1>2, <1>3, <1>4 DEF DeviceStep

(* A request revokes or is abandoned, a challenge is dropped, a code is    *)
(* used before a sensitive request, a link is issued or void, time passes. *)
LEMMA OtherStepKeeps ==
  ASSUME IInv,
         \/ \E r \in Requests : CommitRevocation(r) \/ Abandon(r)
         \/ \E c \in Challenges : DropChallenge(c)
         \/ VerifyTOTPLogin \/ IssuePasswordReset \/ VoidReset \/ Tick
  PROVE  IInv'
<1>1. ASSUME NEW r \in Requests, CommitRevocation(r) PROVE IInv'
  <2> USE <1>1 DEF CommitRevocation
  <2>1. req' \in [Requests -> Waiting \cup {Idle}] /\ \A x \in Requests : IssueInv(x)'
    BY RequestEnds
  <2>2. /\ session' \in [Sessions -> SessionRow]
        /\ \A s \in Sessions : session'[s].state = "live" => session'[s] = session[s]
    BY Revoking DEF IInv
  <2> QED
    BY <2>1, <2>2, OnlySessions DEF IInv, Dated, Enrolled
<1>2. ASSUME NEW r \in Requests, Abandon(r) PROVE IInv'
  BY <1>2, RequestEnds, OnlyRequests DEF Abandon
<1>3. ASSUME NEW c \in Challenges, DropChallenge(c) PROVE IInv'
  <2> USE <1>3 DEF DropChallenge
  <2>1. \A x \in Requests : IssueInv(x)'
    BY RequestsStay
  <2> QED
    BY <2>1, Closing, OnlyChallenges, Types DEF IInv, Dated
<1>4. CASE VerifyTOTPLogin
  <2> USE <1>4 DEF VerifyTOTPLogin
  <2>1. PICK p \in Proofs : factor' = AfterProof(p) /\ Accept({p})
    OBVIOUS
  <2>2. /\ SpentForGood' /\ replayed' = FALSE
        /\ factor' \in FactorRow /\ factor'.since > 0 /\ factor'.step > 0
        /\ factor'.state = "on" /\ factor.state = "on" /\ factor'.secret = factor.secret
    BY <2>1, ProvingAlone
  <2>3. \A x \in Requests : IssueInv(x)'
    BY <2>2, RequestsStay
  <2>4. TypeOK' /\ Dated' /\ ResetIsCurrent' /\ Enrolled'
    BY <2>2 DEF IInv, TypeOK, FactorRow, Dated, ResetIsCurrent, Enrolled
  <2> QED
    BY <2>2, <2>3, <2>4 DEF IInv
<1>5. CASE IssuePasswordReset \/ VoidReset
  <2>1. /\ reset' \in ResetRow
        /\ reset'.state = "fresh" => reset'.pw = account.pw /\ reset'.id > 0
        /\ reset.id \in Nat
        /\ \/ reset'.id = reset.id + 1
           \/ reset'.id = reset.id /\ reset.state # "none"
    BY <1>5, Types DEF IInv, IssuePasswordReset, VoidReset, ResetRow, ResetIsCurrent
  <2>2. UNCHANGED <<now, account, factor, challenge, session, req, spent, replayed>>
    BY <1>5 DEF IssuePasswordReset, VoidReset
  <2>3. \A x \in Requests : IssueInv(x)'
    BY <2>2, RequestsStay
  <2>4. TypeOK' /\ Dated' /\ ResetIsCurrent' /\ Enrolled'
    BY <2>1, <2>2 DEF IInv, TypeOK, ResetRow, Dated, ResetIsCurrent, Enrolled
  <2>5. SpentForGood'
    <3> SUFFICES ASSUME NEW p \in spent PROVE Barred(p)'
      BY <2>2 DEF SpentForGood
    <3>1. Barred(p)
      BY DEF IInv, SpentForGood
    <3> QED
      BY <2>1, <2>2, <3>1 DEF Barred
  <2> QED
    BY <2>2, <2>3, <2>4, <2>5 DEF IInv
<1>6. CASE Tick
  <2> USE <1>6 DEF Tick
  <2>1. now' \in Time /\ now' = now + 1 /\ now \in Time
    BY Types DEF IInv, Time
  <2>2. TypeOK' /\ Dated'
    BY <2>1, Types DEF IInv, TypeOK, Dated, ChallengeRow, SessionRow, Time
  <2>3. \A x \in Requests : IssueInv(x)'
    <3> SUFFICES ASSUME NEW x \in Requests PROVE IssueInv(x)'
      OBVIOUS
    <3>1. IssueInv(x)
      BY DEF IInv
    <3>2. req[x].op = "issue" => req[x].at \in Time
      BY RequestFields DEF IInv
    <3> QED
      BY <2>1, <3>1, <3>2 DEF IssueInv, Time
  <2> QED
    BY <2>2, <2>3 DEF IInv, ResetIsCurrent, SpentForGood, Barred, Enrolled
<1> QED
  BY <1>1, <1>2, <1>3, <1>4, <1>5, <1>6

LEMMA Stutter ==
  ASSUME IInv, UNCHANGED vars
  PROVE  IInv'
BY DEF IInv, TypeOK, Dated, ResetIsCurrent, SpentForGood, Barred, Enrolled, IssueInv

-----------------------------------------------------------------------------
(* What a step never does                                                  *)

(* What may let a session in that was turned away: nothing moves its time  *)
(* of sign-in, the cutoff only rises, the factor changes together with the *)
(* end of every session.                                                   *)
LEMMA TurnedAwayRow ==
  ASSUME IInv, NEW s \in Sessions, ~ Valid(s),
         session'[s].state = "live" =>
           /\ session[s].state = "live" /\ session'[s].auth = session[s].auth
           /\ session'[s].mfa = session[s].mfa /\ session'[s].pending = session[s].pending
           /\ factor.state = "on" => factor'.state = "on" /\ factor'.since = factor.since,
         now' \in Time, now <= now', account'.cut \in Time, account.cut <= account'.cut
  PROVE  ~ Valid(s)'
<1>1. /\ session[s] \in SessionRow /\ now \in Time /\ account.cut \in Time
      /\ factor.since \in Time
  BY Types DEF IInv, FactorRow
<1>2. session[s].auth \in Nat /\ session[s].mfa \in Nat /\ now \in Nat /\ now' \in Nat
      /\ account.cut \in Nat /\ account'.cut \in Nat
  BY <1>1 DEF SessionRow, Time
<1> QED
  BY <1>2 DEF Valid, PassesFactor

LEMMA StaysOut ==
  ASSUME IInv, [Next]_vars, NEW s \in Sessions, session[s].state # "none", ~ Valid(s)
  PROVE  ~ Valid(s)'
<1>1. /\ now \in Time /\ account.cut \in Time /\ account.cut <= now
      /\ session \in [Sessions -> SessionRow] /\ challenge \in [Challenges -> ChallengeRow]
      /\ factor \in FactorRow
  BY Types DEF IInv, Dated
<1>2. now <= now /\ account.cut <= account.cut
  BY <1>1 DEF Time
<1>3. ASSUME NEW S, session' = Revoked(S)
      PROVE  session'[s].state = "live" => session'[s] = session[s]
  BY <1>3, Revoking DEF IInv
<1>4. ASSUME session'[s] = session[s], now' \in Time, now <= now',
             UNCHANGED account \/ account'.cut = now,
             factor.state = "on" => factor'.state = "on" /\ factor'.since = factor.since
      PROVE  ~ Valid(s)'
  <2>1. account'.cut \in Time /\ account.cut <= account'.cut
    BY <1>1, <1>2, <1>4
  <2> QED
    BY <1>4, <2>1, TurnedAwayRow
<1>5. ASSUME NEW r \in Requests, SignInStep(r) PROVE ~ Valid(s)'
  <2>1. session'[s] = session[s]
    BY <1>1, <1>5 DEF SignInStep, VerifyPassword, ChooseCeremony, IssueChallenge,
       CompleteMfaChallenge, IssueDeviceSession
  <2>2. UNCHANGED <<now, account>>
    BY <1>5 DEF SignInStep, VerifyPassword, ChooseCeremony, IssueChallenge,
       CompleteMfaChallenge, IssueDeviceSession
  <2>3. factor.state = "on" => factor'.state = "on" /\ factor'.since = factor.since
    <3>1. CASE \E c \in Challenges : CompleteMfaChallenge(r, c)
      BY <3>1, Proving DEF CompleteMfaChallenge
    <3>2. CASE ~ \E c \in Challenges : CompleteMfaChallenge(r, c)
      BY <1>5, <3>2 DEF SignInStep, VerifyPassword, ChooseCeremony, IssueChallenge, IssueDeviceSession
    <3> QED
      BY <3>1, <3>2
  <2> QED
    BY <1>1, <1>2, <1>4, <2>1, <2>2, <2>3
<1>6. ASSUME NEW r \in Requests, PasswordStep(r) PROVE ~ Valid(s)'
  <2>1. UNCHANGED now
    BY <1>6 DEF PasswordStep, ReadReset, VerifyChange, CommitReset, CommitChange
  <2>2. CASE session' = Revoked(Sessions)
    BY <2>2, Revoking DEF IInv, Valid
  <2>3. CASE session' # Revoked(Sessions)
    <3>1. UNCHANGED <<session, account>>
      BY <1>6, <2>3 DEF PasswordStep, ReadReset, VerifyChange, CommitReset, CommitChange
    <3>2. factor.state = "on" => factor'.state = "on" /\ factor'.since = factor.since
      <4>1. CASE \E t \in Sessions : VerifyChange(r, t)
        BY <4>1, Proving DEF VerifyChange
      <4>2. CASE ~ \E t \in Sessions : VerifyChange(r, t)
        BY <1>6, <4>2 DEF PasswordStep, ReadReset, CommitReset, CommitChange
      <4> QED
        BY <4>1, <4>2
    <3> QED
      BY <1>1, <1>2, <1>4, <2>1, <3>1, <3>2
  <2> QED
    BY <2>2, <2>3
<1>7. ASSUME NEW t \in Sessions, FactorStep(t) PROVE ~ Valid(s)'
  <2>1. CASE Disable2FA(t)
    BY <2>1, Revoking DEF IInv, Disable2FA, Valid
  <2>2. CASE ~ Disable2FA(t)
    <3>1. UNCHANGED <<now, account, session>>
      BY <1>7, <2>2 DEF FactorStep, GenerateTOTPSetup, ReplaceRecoveryCodes, VerifyAndEnable2FA
    <3>2. factor.state = "on" => factor'.state = "on" /\ factor'.since = factor.since
      BY <1>1, <1>7, <2>2 DEF FactorStep, GenerateTOTPSetup, ReplaceRecoveryCodes, VerifyAndEnable2FA, FactorRow
    <3> QED
      BY <1>1, <1>2, <1>4, <3>1, <3>2
  <2> QED
    BY <2>1, <2>2
<1>8. ASSUME NEW t \in Sessions, DeviceStep(t) PROVE ~ Valid(s)'
  <2>1. CASE ApproveDevice(t) \/ \E r \in Requests : AskRevocation(r, t)
    <3>1. session'[s] = session[s]
      BY <1>1, <2>1 DEF ApproveDevice, AskRevocation
    <3>2. UNCHANGED <<now, account, factor>>
      BY <2>1 DEF ApproveDevice, AskRevocation
    <3> QED
      BY <1>1, <1>2, <1>4, <3>1, <3>2
  <2>2. CASE Logout(t)
    <3>1. UNCHANGED <<now, account, factor>> /\ session' = Revoked({t})
      BY <2>2 DEF Logout
    <3> QED
      BY <1>1, <1>2, <1>3, <3>1, TurnedAwayRow
  <2>3. CASE RecoverDevice(t)
    <3> DEFINE rest == Revoked(Sessions \ {t})
    <3>1. t # s /\ session' = [rest EXCEPT ![t].pending = FALSE, ![t].auth = now + 1]
      BY <2>3 DEF RecoverDevice
    <3>2. \A u \in Sessions : rest[u].state = "live" => u = t
      BY Revoking DEF IInv
    <3>3. rest \in [Sessions -> SessionRow]
      BY Revoking DEF IInv
    <3> HIDE DEF rest
    <3>4. session'[s] = rest[s]
      BY <3>1, <3>3
    <3> QED
      BY <3>1, <3>2, <3>4 DEF Valid
  <2> QED
    BY <1>8, <2>1, <2>2, <2>3 DEF DeviceStep
<1>9. ASSUME NEW r \in Requests, CommitRevocation(r) \/ Abandon(r) PROVE ~ Valid(s)'
  <2>1. UNCHANGED <<now, account, factor>>
    BY <1>9 DEF CommitRevocation, Abandon
  <2>2. session'[s].state = "live" => session'[s] = session[s]
    BY <1>3, <1>9 DEF CommitRevocation, Abandon
  <2> QED
    BY <1>1, <1>2, <2>1, <2>2, TurnedAwayRow
<1>10. CASE \/ \E c \in Challenges : DropChallenge(c)
            \/ VerifyTOTPLogin \/ IssuePasswordReset \/ VoidReset \/ Tick \/ UNCHANGED vars
  <2>1. UNCHANGED <<account, session>>
    BY <1>10 DEF DropChallenge, VerifyTOTPLogin, IssuePasswordReset, VoidReset, Tick
  <2>2. now' \in Time /\ now <= now'
    <3>1. CASE Tick
      BY <1>1, <3>1 DEF Tick, Time
    <3>2. CASE ~ Tick
      BY <1>1, <1>2, <1>10, <3>2 DEF DropChallenge, VerifyTOTPLogin, IssuePasswordReset, VoidReset
    <3> QED
      BY <3>1, <3>2
  <2>3. factor.state = "on" => factor'.state = "on" /\ factor'.since = factor.since
    <3>1. CASE VerifyTOTPLogin
      BY <3>1, Proving DEF VerifyTOTPLogin
    <3>2. CASE ~ VerifyTOTPLogin
      BY <1>10, <3>2 DEF DropChallenge, IssuePasswordReset, VoidReset, Tick
    <3> QED
      BY <3>1, <3>2
  <2> QED
    BY <1>1, <1>4, <2>1, <2>2, <2>3
<1> QED
  BY <1>5, <1>6, <1>7, <1>8, <1>9, <1>10 DEF Next

(* No other step replaces the password.                                    *)
LEMMA OnlyTheseReplace ==
  ASSUME IInv, Next, account'.pw # account.pw
  PROVE  \E r \in Requests : CommitReset(r) \/ CommitChange(r)
<1>1. account \in [pw : 0..MaxPw, cut : Time]
  BY Types DEF IInv
<1>2. ASSUME NEW r \in Requests, SignInStep(r) PROVE FALSE
  BY <1>2 DEF SignInStep, VerifyPassword, ChooseCeremony, IssueChallenge, CompleteMfaChallenge,
     IssueDeviceSession
<1>3. ASSUME NEW r \in Requests, PasswordStep(r) PROVE CommitReset(r) \/ CommitChange(r)
  BY <1>3 DEF PasswordStep, ReadReset, VerifyChange
<1>4. ASSUME NEW s \in Sessions, FactorStep(s) PROVE FALSE
  BY <1>1, <1>4 DEF FactorStep, GenerateTOTPSetup, ReplaceRecoveryCodes, Disable2FA, VerifyAndEnable2FA
<1>5. ASSUME NEW s \in Sessions, DeviceStep(s) PROVE FALSE
  BY <1>1, <1>5 DEF DeviceStep, ApproveDevice, RecoverDevice, Logout, AskRevocation
<1>6. ASSUME NEW r \in Requests, CommitRevocation(r) \/ Abandon(r) PROVE FALSE
  BY <1>6 DEF CommitRevocation, Abandon
<1>7. ASSUME NEW c \in Challenges, DropChallenge(c) PROVE FALSE
  BY <1>7 DEF DropChallenge
<1>8. CASE VerifyTOTPLogin \/ IssuePasswordReset \/ VoidReset \/ Tick
  BY <1>8 DEF VerifyTOTPLogin, IssuePasswordReset, VoidReset, Tick
<1> QED
  BY <1>2, <1>3, <1>4, <1>5, <1>6, <1>7, <1>8 DEF Next

-----------------------------------------------------------------------------
(* The theorems                                                            *)

(* The inductive invariant: what was spent is barred, and whatever is on   *)
(* its way to a session stands on the factor of now or on an old cutoff.   *)
THEOREM Invariance == Spec => []IInv
<1>1. Init => IInv
  BY Initially
<1>2. IInv /\ [Next]_vars => IInv'
  BY SignInStepKeeps, FactorStepKeeps, PasswordStepKeeps, DeviceStepKeeps, OtherStepKeeps, Stutter DEF Next
<1> QED
  BY <1>1, <1>2, PTL DEF Spec

(* No authenticator code, recovery code, challenge or reset link is        *)
(* honoured twice (consumeSecondFactor, completeMfaChallenge,              *)
(* consumePasswordReset).                                                  *)
THEOREM UsedOnce == Spec => []SingleUse
<1>1. IInv => SingleUse
  BY DEF IInv, SingleUse
<1> QED
  BY <1>1, Invariance, PTL

(* A session that is alive stands on the password and the second factor of *)
(* now (issueDeviceSession, consumePasswordReset, disable2FA).             *)
THEOREM Current == Spec => []SessionsAreCurrent
<1>1. IInv => SessionsAreCurrent
  BY Types DEF IInv, SessionsAreCurrent, Enrolled, PassesFactor, FactorRow, SessionRow, Time
<1> QED
  BY <1>1, Invariance, PTL

(* A session that was turned away is never let in again (disable2FA).      *)
THEOREM TurnedAway == Spec => NoResurrection
<1> DEFINE Out == \A s \in Sessions : session[s].state # "none" /\ ~ Valid(s) => ~ Valid(s)'
<1>1. IInv /\ [Next]_vars => Out
  <2> SUFFICES ASSUME IInv, [Next]_vars, NEW s \in Sessions, session[s].state # "none", ~ Valid(s)
               PROVE  ~ Valid(s)'
    OBVIOUS
  <2> QED
    BY StaysOut
<1> QED
  BY <1>1, Invariance, PTL DEF Spec, NoResurrection

(* A password is replaced by a request that proved it, or with the newest  *)
(* reset link, issued on it (changePassword, consumePasswordReset).        *)
THEOREM Basis == Spec => PasswordHasBasis
<1> DEFINE Based ==
      account'.pw # account.pw =>
        \E r \in Requests : req[r] # Idle /\ req'[r] = Idle /\
          \/ req[r].op = "change" /\ req[r].pw = account.pw
          \/ req[r].op = "reset" /\ req[r].id = reset.id /\ reset.pw = account.pw
<1>1. IInv /\ [Next]_vars => Based
  <2> SUFFICES ASSUME IInv, Next, account'.pw # account.pw PROVE Based
    OBVIOUS
  <2>1. \E r \in Requests : CommitReset(r) \/ CommitChange(r)
    BY OnlyTheseReplace
  <2>2. PICK r \in Requests : CommitReset(r) \/ CommitChange(r)
    BY <2>1
  <2>3. req[r] # Idle /\ req'[r] = Idle
    BY <2>2, Types DEF IInv, CommitReset, CommitChange, Finish, Idle
  <2>4. CASE CommitReset(r)
    BY <2>3, <2>4 DEF IInv, ResetIsCurrent, CommitReset
  <2>5. CASE CommitChange(r)
    BY <2>3, <2>5 DEF CommitChange
  <2> QED
    BY <2>2, <2>4, <2>5
<1> QED
  BY <1>1, Invariance, PTL DEF Spec, PasswordHasBasis
=============================================================================
