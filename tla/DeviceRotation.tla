--------------------------- MODULE DeviceRotation ---------------------------
(* One device session whose refresh secret is replaced whenever it is      *)
(* used.  The tabs of the browser share one jar of cookies; their requests *)
(* carry what the jar held when they left, and their answers overwrite it  *)
(* in whatever order they arrive, or are lost.  A secret is the list of    *)
(* generations that were hashed into it one after the other, so that two   *)
(* derivations are equal exactly when the program's are.  Of the time only *)
(* the order of the two deadlines is kept.  A definition named Bug... is a *)
(* plausible defect of one below it, for the mutants.                      *)
EXTENDS Naturals, SequencesExt

CONSTANTS
  Tabs,    \* tabs that may each have one request under way
  MaxGen   \* bound: rotations

ASSUME RotationAssumption == MaxGen \in Nat

VARIABLES
  row,     \* the row of device_sessions
  jar,     \* the cookies of the browser
  tab,     \* the request or answer of each tab that is under way
  mishap,  \* history: the jar fell behind the row for longer than the grace
  signedOut \* history: logout, another device or an expiry ended the session

vars == <<row, jar, tab, mishap, signedOut>>

Secret == UNION {[1..n -> 1..MaxGen] : n \in 0..MaxGen}
None == <<0>>   \* previous_hash is null
Quiet == [at |-> "none"]

(* row.state "over" is a session past expires_at, past the time for its    *)
(* approval, or of an account that is turned away.  row.grace: previous    *)
(* is still valid.  A secret has one element for each generation.          *)
TypeOK ==
  /\ row \in [state : {"live", "revoked", "over"}, generation : 0..MaxGen,
              current : Secret, previous : Secret \cup {None}, grace : BOOLEAN]
  /\ jar \in [refresh : Secret, access : BOOLEAN]
  /\ tab \in [Tabs -> [at : {"none"}]
                 \cup [at : {"server"}, secret : Secret, access : BOOLEAN]
                 \cup [at : {"answer"}, secret : Secret]
                 \cup [at : {"refused"}]]
  /\ mishap \in BOOLEAN /\ signedOut \in BOOLEAN
  /\ Len(row.current) = row.generation

(* HMAC(id : generation : secret).                                         *)
Derive(generation, secret) == Append(secret, generation)

Init ==
  /\ row = [state |-> "live", generation |-> 0, current |-> <<>>, previous |-> None,
            grace |-> FALSE]
  /\ jar = [refresh |-> <<>>, access |-> TRUE]
  /\ tab = [t \in Tabs |-> Quiet]
  /\ mishap = FALSE /\ signedOut = FALSE

(* For the mutants: a refusal is not passed on to the tab.                 *)
BugSet(t, v) == tab' = [tab EXCEPT ![t] = IF v.at = "refused" THEN Quiet ELSE v]

Set(t, v) == tab' = [tab EXCEPT ![t] = v]

-----------------------------------------------------------------------------
(* Plausible defects of rotateDeviceSession, for the mutants.              *)

(* Any use of the previous secret counts as a replay.                      *)
BugInGrace(presented) == FALSE

(* A tab that comes second takes a generation of its own.                  *)
BugSecondUse(presented) == Derive(row.generation + 1, presented)

-----------------------------------------------------------------------------
(* rotateDeviceSession, under the lock of the row.                         *)

FirstUse(presented) ==
  [row EXCEPT !.generation = @ + 1, !.current = Derive(row.generation + 1, presented),
              !.previous = presented, !.grace = TRUE]

InGrace(presented) == presented = row.previous /\ row.grace

SecondUse(presented) == Derive(row.generation, presented)

(* The request of a tab reaches proxy: it rotates only without a valid     *)
(* access token.                                                           *)
Rotate(t) ==
  LET presented == tab[t].secret IN
  /\ tab[t].at = "server" /\ ~ tab[t].access
  /\ \/ /\ row.state = "live" /\ presented = row.current /\ row.generation < MaxGen
        /\ row' = FirstUse(presented)
        /\ Set(t, [at |-> "answer", secret |-> row'.current])
     \/ /\ row.state = "live" /\ presented # row.current /\ InGrace(presented)
        /\ row' = row
        /\ Set(t, [at |-> "answer", secret |-> SecondUse(presented)])
     \/ /\ row.state = "live" /\ presented # row.current /\ ~ InGrace(presented)
        /\ row' = IF presented = row.previous THEN [row EXCEPT !.state = "revoked"] ELSE row
        /\ Set(t, [at |-> "refused"])
     \/ /\ row.state # "live"
        /\ row' = row
        /\ Set(t, [at |-> "refused"])
  /\ UNCHANGED <<jar, mishap, signedOut>>

(* A request with a valid access token is answered without new cookies.    *)
Serve(t) ==
  /\ tab[t].at = "server" /\ tab[t].access
  /\ Set(t, Quiet)
  /\ UNCHANGED <<row, jar, mishap, signedOut>>

-----------------------------------------------------------------------------
(* The browser.                                                            *)

Ask(t) ==
  /\ tab[t].at = "none"
  /\ Set(t, [at |-> "server", secret |-> jar.refresh, access |-> jar.access])
  /\ UNCHANGED <<row, jar, mishap, signedOut>>

(* setDeviceCookies overwrites both cookies, whatever they hold by now.    *)
Receive(t) ==
  /\ tab[t].at = "answer"
  /\ jar' = [refresh |-> tab[t].secret, access |-> TRUE]
  /\ mishap' = (mishap \/ tab[t].secret # row.current)
  /\ Set(t, Quiet)
  /\ UNCHANGED <<row, signedOut>>

(* A refusal sends the tab to the login page; the cookies stay.            *)
ReceiveRefusal(t) ==
  /\ tab[t].at = "refused"
  /\ Set(t, Quiet)
  /\ UNCHANGED <<row, jar, mishap, signedOut>>

(* A request or an answer is lost, or the tab is closed.                   *)
Lose(t) ==
  /\ tab[t].at # "none"
  /\ Set(t, Quiet)
  /\ UNCHANGED <<row, jar, mishap, signedOut>>

-----------------------------------------------------------------------------
(* previous_valid_until passes.  That is a mishap when the jar or a        *)
(* request on its way still has the secret from before the rotation.       *)
GraceEnds ==
  /\ row.grace
  /\ row' = [row EXCEPT !.grace = FALSE]
  /\ mishap' = (mishap \/ jar.refresh # row.current
        \/ \E t \in Tabs : tab[t].at = "server" /\ ~ tab[t].access /\ tab[t].secret # row.current)
  /\ UNCHANGED <<jar, tab, signedOut>>

(* The access token expires: fifteen minutes after it was issued, when the *)
(* ten seconds of the rotation that issued it are over.                    *)
AccessExpires ==
  /\ jar.access /\ ~ row.grace
  /\ jar' = [jar EXCEPT !.access = FALSE]
  /\ UNCHANGED <<row, tab, mishap, signedOut>>

(* The session ends: logout, revocation by another device, or in time.     *)
End(state) ==
  /\ row.state = "live"
  /\ row' = [row EXCEPT !.state = state]
  /\ signedOut' = TRUE
  /\ UNCHANGED <<jar, tab, mishap>>

Next ==
  \/ \E t \in Tabs : Rotate(t) \/ Serve(t) \/ Ask(t) \/ Receive(t) \/ ReceiveRefusal(t) \/ Lose(t)
  \/ GraceEnds \/ AccessExpires \/ End("revoked") \/ End("over")

(* A tab that goes on asking, a server that handles what reaches it, and a *)
(* network that does not lose every answer.                                *)
FairSpec ==
  /\ Init /\ [][Next]_vars
  /\ \A t \in Tabs :
       WF_vars(Ask(t)) /\ SF_vars(Rotate(t)) /\ SF_vars(Serve(t)) /\ SF_vars(Receive(t))

-----------------------------------------------------------------------------
(* NoFork: whatever secrets the jar, the requests and the answers hold,    *)
(* they lie on the one chain that the row continues: tabs that rotate with *)
(* one cookie get one successor, and none of them holds a secret that the  *)
(* server never made current (rotateDeviceSession).                        *)
OnChain(secret) == IsPrefix(secret, row.current)
NoFork ==
  /\ TypeOK
  /\ OnChain(jar.refresh)
  /\ \A t \in Tabs : tab[t].at \in {"server", "answer"} => OnChain(tab[t].secret)

(* NoSpuriousRevocation: a session is revoked only by somebody who asked   *)
(* for it, unless the jar or a request stayed behind a rotation for longer *)
(* than the grace, or a late answer put an older secret back: several tabs *)
(* that find the access token expired at once, or an answer that is lost   *)
(* and asked for again, do not look like a replay (rotateDeviceSession).   *)
NoSpuriousRevocation == row.state = "revoked" => mishap \/ signedOut

(* AccessReturns: a browser without a valid access token gets one again,   *)
(* or is told to sign in; it is never left asking (proxy).                 *)
AccessReturns ==
  (~ jar.access) ~> \/ jar.access \/ \E t \in Tabs : tab[t].at = "refused"
                     \/ row.generation = MaxGen
=============================================================================
