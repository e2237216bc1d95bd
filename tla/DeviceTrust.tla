---------------------------- MODULE DeviceTrust ----------------------------
(* Which devices of one account may read its encrypted chats: their public *)
(* keys and the trust in them, the sessions that wait for approval, the    *)
(* requests that link a new device, and the approval proofs.  A proof is   *)
(* handed out in one request (Challenge...), answered with the private key *)
(* of its source device, and spent in a later one, when everything it was  *)
(* based on may have changed.  A definition named Bug... is a plausible    *)
(* defect of one below it, for the mutants.                                *)
EXTENDS Naturals, FiniteSets

CONSTANTS
  Keys,        \* devices, each with its one key pair
  Sessions,    \* device sessions that may be issued
  Links,       \* link requests that may be made
  Proofs,      \* approval proofs that may be handed out
  Nobody,      \* no key, no session, no link
  MaxRecovery  \* bound: recoveries of the account

ASSUME TrustAssumption ==
  /\ Nobody \notin Keys \cup Sessions \cup Links
  /\ MaxRecovery \in Nat

VARIABLES
  key,      \* e2ee_keys
  session,  \* device_sessions
  link,     \* device_link_requests
  proof,    \* proofs handed out and not yet presented
  mail,     \* device_recovery_email_codes: the newest row
  asked,    \* a registration that has found no key for its device
  era,      \* history: one more than the recoveries so far
  decided   \* history: links that an approval or a refusal has used up

rows == <<key, session, link, mail>>
vars == <<rows, proof, asked, era, decided>>

Eras == 0..(MaxRecovery + 1)
NoProof == [kind |-> "none"]
NoMail == [state |-> "none", key |-> Nobody, session |-> Nobody]

(* key.first: trusted as the first key of the account.  era is history: in *)
(* a key that of the trust it descends from, in a session that of the      *)
(* trusted key it proved to hold, 0 before.                                *)
TypeOK ==
  /\ key \in [Keys -> [known : BOOLEAN, trusted : BOOLEAN, session : Sessions \cup {Nobody},
                       first : BOOLEAN, era : Eras]]
  /\ session \in [Sessions -> [state : {"none", "live", "revoked"}, pending : BOOLEAN, era : Eras]]
  /\ link \in [Links -> [state : {"none", "pending", "approved", "rejected", "revoked", "expired"},
                         kind : {"qr", "code", "exchanged"}, key : Keys \cup {Nobody},
                         session : Sessions \cup {Nobody}, source : Keys \cup {Nobody}]]
  /\ proof \in [Proofs -> [kind : {"none", "spent"}]
                     \cup [kind : {"bind", "recover"}, key : Keys, session : Sessions]
                     \cup [kind : {"approve", "reject"}, source : Keys, target : Keys,
                           link : Links \cup {Nobody}]]
  /\ mail \in [state : {"none", "fresh", "used"}, key : Keys \cup {Nobody}, session : Sessions \cup {Nobody}]
  /\ asked \in [Keys -> {Nobody} \cup [by : Sessions, prior : BOOLEAN]]
  /\ era \in Eras
  /\ decided \in [Links -> 0..2]
  /\ \A k \in Keys : key[k].trusted => key[k].known
  /\ \A l \in Links : link[l].state = "pending" => key[link[l].key].known

-----------------------------------------------------------------------------
Live(s) == session[s].state = "live"
Registered == {k \in Keys : key[k].known}
Trusted == {k \in Keys : key[k].trusted}
Pending(k, s) == Live(s) /\ key[k].known /\ ~ key[k].trusted /\ key[k].session = s

(* revokedAt on some sessions, with what goes with it in privacy/devices.  *)
EndSessions(S) == [s \in Sessions |->
  IF s \in S /\ Live(s) THEN [session[s] EXCEPT !.state = "revoked", !.pending = FALSE, !.era = 0]
  ELSE session[s]]
DropTrust(S) == [k \in Keys |->
  IF key[k].session \in S THEN [key[k] EXCEPT !.trusted = FALSE] ELSE key[k]]
RevokeLinks(L) == [l \in Links |->
  IF l \in L THEN [link[l] EXCEPT !.state = "revoked"] ELSE link[l]]

Init ==
  /\ key = [k \in Keys |-> [known |-> FALSE, trusted |-> FALSE, session |-> Nobody,
                            first |-> FALSE, era |-> 0]]
  /\ session = [s \in Sessions |-> [state |-> "none", pending |-> FALSE, era |-> 0]]
  /\ link = [l \in Links |-> [state |-> "none", kind |-> "qr", key |-> Nobody,
                              session |-> Nobody, source |-> Nobody]]
  /\ proof = [p \in Proofs |-> NoProof]
  /\ mail = NoMail
  /\ asked = [k \in Keys |-> Nobody]
  /\ era = 1
  /\ decided = [l \in Links |-> 0]

Spend(p) == proof' = [proof EXCEPT ![p] = [kind |-> "spent"]]
Decide(l) == decided' = [decided EXCEPT ![l] = IF @ < 2 THEN @ + 1 ELSE @]

-----------------------------------------------------------------------------
(* Plausible defects of the operations below, for the mutants.             *)

(* Whether the key is the first one is decided before the account is       *)
(* locked.                                                                 *)
BugRegister(k) ==
  /\ asked[k] # Nobody
  /\ key' = IF key[k].known THEN key
            ELSE [key EXCEPT ![k] = [known |-> TRUE, session |-> asked[k].by,
                    trusted |-> ~ asked[k].prior, first |-> ~ asked[k].prior, era |-> era]]
  /\ asked' = [asked EXCEPT ![k] = Nobody]
  /\ UNCHANGED <<session, link, mail, proof, era, decided>>

(* An approval relies on the trust its source had when it was challenged.  *)
BugApprove(p) ==
  LET q == proof[p] IN
  /\ q.kind = "approve"
  /\ IF q.link = Nobody \/ (link[q.link].state = "pending" /\ Live(link[q.link].session))
     THEN /\ key' = [key EXCEPT ![q.target].trusted = TRUE, ![q.target].era = key[q.source].era]
          /\ link' = IF q.link = Nobody THEN link
                     ELSE [link EXCEPT ![q.link].state = "approved"]
          /\ IF q.link = Nobody THEN UNCHANGED decided ELSE Decide(q.link)
     ELSE UNCHANGED <<key, link, decided>>
  /\ Spend(p)
  /\ UNCHANGED <<session, mail, asked, era>>

(* Recovery leaves the other browsers signed in.                           *)
BugRecover(p) ==
  LET q == proof[p] IN
  /\ q.kind = "recover" /\ era <= MaxRecovery
  /\ IF Pending(q.key, q.session)
     THEN /\ era' = era + 1
          /\ key' = [k \in Keys |-> IF k = q.key THEN [key[k] EXCEPT !.trusted = TRUE, !.era = era + 1]
                                    ELSE [key[k] EXCEPT !.trusted = FALSE]]
          /\ session' = [session EXCEPT ![q.session].pending = FALSE, ![q.session].era = era + 1]
          /\ link' = RevokeLinks({l \in Links : link[l].state = "pending"})
     ELSE UNCHANGED <<key, session, link, era>>
  /\ Spend(p)
  /\ UNCHANGED <<mail, asked, decided>>

-----------------------------------------------------------------------------
(* Sessions and keys.                                                      *)

(* A sign-in: every new session waits for its approval.                    *)
IssueSession(s) ==
  /\ session[s].state = "none"
  /\ session' = [session EXCEPT ![s].state = "live", ![s].pending = TRUE]
  /\ UNCHANGED <<key, link, mail, proof, asked, era, decided>>

(* keys POST looks for a key of the device and, where there is none ...    *)
AskRegister(k, s) ==
  /\ Live(s) /\ ~ key[k].known /\ asked[k] = Nobody
  /\ asked' = [asked EXCEPT ![k] = [by |-> s, prior |-> Registered # {}]]
  /\ UNCHANGED <<rows, proof, era, decided>>

(* ... writes it under the lock of the account: trusted if it is the first *)
(* one.  A key that exists by then is left as it is.                       *)
Register(k) ==
  /\ asked[k] # Nobody
  /\ key' = IF key[k].known THEN key
            ELSE [key EXCEPT ![k] = [known |-> TRUE, session |-> asked[k].by,
                    trusted |-> Registered = {}, first |-> Registered = {}, era |-> era]]
  /\ asked' = [asked EXCEPT ![k] = Nobody]
  /\ UNCHANGED <<session, link, mail, proof, era, decided>>

(* privacy/devices DELETE: sessions, the trust of the keys that are bound  *)
(* to them and their link requests go together.                            *)
RevokeDevice(S) ==
  /\ session' = EndSessions(S)
  /\ key' = DropTrust(S)
  /\ link' = RevokeLinks({l \in Links : link[l].session \in S})
  /\ UNCHANGED <<mail, proof, asked, era, decided>>

(* A logout, or a change of password, ends sessions and keeps the trust.   *)
EndSession(S) ==
  /\ \E s \in S : Live(s)
  /\ session' = EndSessions(S)
  /\ UNCHANGED <<key, link, mail, proof, asked, era, decided>>

Revoke(s) ==
  /\ Live(s) /\ ~ session[s].pending
  /\ \/ \E t \in Sessions : Live(t) /\ RevokeDevice({t})
     \/ RevokeDevice(Sessions \ {s})

-----------------------------------------------------------------------------
(* Linking a new device.                                                   *)

(* link POST and link/code POST: the device's earlier requests lapse.      *)
RequestLink(l, k, s, kind) ==
  /\ link[l].state = "none" /\ Pending(k, s)
  /\ link' = [m \in Links |->
       IF m = l THEN [state |-> "pending", kind |-> kind, key |-> k, session |-> s, source |-> Nobody]
       ELSE IF link[m].key = k /\ link[m].state = "pending" THEN [link[m] EXCEPT !.state = "revoked"]
       ELSE link[m]]
  /\ UNCHANGED <<key, session, mail, proof, asked, era, decided>>

(* code/verify: the code is exchanged once, and binds the request to the   *)
(* trusted device it was entered on.                                       *)
ExchangeCode(l, k, s) ==
  /\ Live(s) /\ key[k].trusted /\ key[k].session = s
  /\ link[l].state = "pending" /\ link[l].kind = "code"
  /\ Pending(link[l].key, link[l].session)
  /\ link' = [link EXCEPT ![l].kind = "exchanged", ![l].source = k]
  /\ UNCHANGED <<key, session, mail, proof, asked, era, decided>>

ExpireLink(l) ==
  /\ link[l].state = "pending"
  /\ link' = [link EXCEPT ![l].state = "expired"]
  /\ UNCHANGED <<key, session, mail, proof, asked, era, decided>>

-----------------------------------------------------------------------------
(* Proofs handed out (approve POST, action "challenge").                   *)

HandOut(p, q) ==
  /\ proof[p] = NoProof
  /\ proof' = [proof EXCEPT ![p] = q]

ChallengeBind(p, k, s) ==
  /\ Live(s) /\ key[k].known
  /\ HandOut(p, [kind |-> "bind", key |-> k, session |-> s])
  /\ UNCHANGED <<rows, asked, era, decided>>

(* An approval needs a trusted source, and the token of the link request:  *)
(* the one shown as a QR code, or the one a code was exchanged for.        *)
ChallengeLink(p, k, l) ==
  /\ key[k].trusted
  /\ link[l].state = "pending" /\ link[l].key # k /\ Live(link[l].session)
  /\ link[l].source \in {k, Nobody}
  /\ \E kind \in {"approve", "reject"} :
       /\ kind = "approve" => link[l].kind # "code"
       /\ HandOut(p, [kind |-> kind, source |-> k, target |-> link[l].key, link |-> l])
  /\ UNCHANGED <<rows, asked, era, decided>>

(* Without a link request: from the list of devices.                       *)
ChallengeDirect(p, k, target) ==
  /\ key[k].trusted /\ key[target].known /\ target # k
  /\ HandOut(p, [kind |-> "approve", source |-> k, target |-> target, link |-> Nobody])
  /\ UNCHANGED <<rows, asked, era, decided>>

(* recovery-email: a code for one pending device, replacing the last one.  *)
IssueRecoveryEmail(k, s) ==
  /\ Pending(k, s)
  /\ mail' = [state |-> "fresh", key |-> k, session |-> s]
  /\ UNCHANGED <<key, session, link, proof, asked, era, decided>>

(* A recovery uses the mailed code up.                                     *)
ChallengeRecovery(p, k, s) ==
  /\ Pending(k, s)
  /\ mail = [state |-> "fresh", key |-> k, session |-> s]
  /\ mail' = [mail EXCEPT !.state = "used"]
  /\ HandOut(p, [kind |-> "recover", key |-> k, session |-> s])
  /\ UNCHANGED <<key, session, link, asked, era, decided>>

-----------------------------------------------------------------------------
(* Proofs presented (action "approve"); each counts once.                  *)

(* Possession of a key binds it to the session; only a trusted key ends    *)
(* the wait for approval.                                                  *)
Bind(p) ==
  LET q == proof[p] IN
  /\ q.kind = "bind"
  /\ IF Live(q.session)
     THEN /\ key' = [key EXCEPT ![q.key].session = q.session]
          /\ session' = IF ~ key[q.key].trusted THEN session
                        ELSE [session EXCEPT ![q.session].pending = FALSE,
                                             ![q.session].era = key[q.key].era]
     ELSE UNCHANGED <<key, session>>
  /\ Spend(p)
  /\ UNCHANGED <<link, mail, asked, era, decided>>

Undecided(q) ==
  q.link # Nobody => link[q.link].state = "pending" /\ Live(link[q.link].session)

Approve(p) ==
  LET q == proof[p] IN
  /\ q.kind = "approve"
  /\ IF key[q.source].trusted /\ Undecided(q)
     THEN /\ key' = [key EXCEPT ![q.target].trusted = TRUE, ![q.target].era = key[q.source].era]
          /\ link' = IF q.link = Nobody THEN link
                     ELSE [link EXCEPT ![q.link].state = "approved"]
          /\ IF q.link = Nobody THEN UNCHANGED decided ELSE Decide(q.link)
     ELSE UNCHANGED <<key, link, decided>>
  /\ Spend(p)
  /\ UNCHANGED <<session, mail, asked, era>>

Reject(p) ==
  LET q == proof[p] IN
  /\ q.kind = "reject"
  /\ IF key[q.source].trusted /\ Undecided(q)
     THEN link' = [link EXCEPT ![q.link].state = "rejected"] /\ Decide(q.link)
     ELSE UNCHANGED <<link, decided>>
  /\ Spend(p)
  /\ UNCHANGED <<key, session, mail, asked, era>>

(* Recovery replaces all trust by that in one key, ends every other        *)
(* session and every pending link request.                                 *)
Recover(p) ==
  LET q == proof[p] IN
  /\ q.kind = "recover" /\ era <= MaxRecovery
  /\ IF Pending(q.key, q.session)
     THEN /\ era' = era + 1
          /\ key' = [k \in Keys |-> IF k = q.key THEN [key[k] EXCEPT !.trusted = TRUE, !.era = era + 1]
                                    ELSE [key[k] EXCEPT !.trusted = FALSE]]
          /\ session' = [EndSessions(Sessions \ {q.session}) EXCEPT
                           ![q.session].pending = FALSE, ![q.session].era = era + 1]
          /\ link' = RevokeLinks({l \in Links : link[l].state = "pending"})
     ELSE UNCHANGED <<key, session, link, era>>
  /\ Spend(p)
  /\ UNCHANGED <<mail, asked, decided>>

(* A proof is valid for two minutes.                                       *)
LoseProof(p) ==
  /\ proof[p].kind \notin {"none", "spent"}
  /\ Spend(p)
  /\ UNCHANGED <<rows, asked, era, decided>>

Challenge(p) ==
  \/ \E k \in Keys, s \in Sessions : ChallengeBind(p, k, s) \/ ChallengeRecovery(p, k, s)
  \/ \E k \in Keys, l \in Links : ChallengeLink(p, k, l)
  \/ \E k, target \in Keys : ChallengeDirect(p, k, target)

Linking(l) ==
  \/ \E k \in Keys, s \in Sessions :
       \/ \E kind \in {"qr", "code"} : RequestLink(l, k, s, kind)
       \/ ExchangeCode(l, k, s)
  \/ ExpireLink(l)

Next ==
  \/ \E s \in Sessions : IssueSession(s) \/ Revoke(s) \/ EndSession({s})
  \/ EndSession(Sessions)
  \/ \E k \in Keys : Register(k)
  \/ \E k \in Keys, s \in Sessions : AskRegister(k, s) \/ IssueRecoveryEmail(k, s)
  \/ \E l \in Links : Linking(l)
  \/ \E p \in Proofs : Challenge(p) \/ Bind(p) \/ Approve(p) \/ Reject(p) \/ Recover(p) \/ LoseProof(p)

Spec == Init /\ [][Next]_vars

-----------------------------------------------------------------------------
(* Of the browsers that register at the same time only one is trusted      *)
(* without approval; every other key needs a trusted device or a recovery  *)
(* (keys POST).                                                            *)
OneFirstKey == \A j, k \in Keys : key[j].first /\ key[k].first => j = k

(* Two trusted devices that answer one link request at the same time do    *)
(* not both take effect (approve POST).                                    *)
DecidedOnce == \A l \in Links : decided[l] <= 1

(* GrantedOnce: what may be granted once is granted once, and the rows     *)
(* stay sound, in every order of the requests.                             *)
GrantedOnce == TypeOK /\ OneFirstKey /\ DecidedOnce

(* TrustIsCurrent: all trust descends from the last recovery.  A proof that *)
(* an older trusted device was handed before the recovery gives no trust   *)
(* after it, whatever the order of the requests (approve POST).            *)
TrustIsCurrent == \A k \in Trusted : key[k].era = era

(* ApprovalIsCurrent: a full session has proved a key of the current       *)
(* trust; a browser approved before a recovery is signed out by it, and a  *)
(* session that was only signed in never becomes a full one.               *)
ApprovalIsCurrent ==
  \A s \in Sessions : Live(s) /\ ~ session[s].pending => session[s].era = era
=============================================================================
