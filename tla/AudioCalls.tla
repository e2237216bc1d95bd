----------------------------- MODULE AudioCalls -----------------------------
(* Audio calls between two people: POST /api/calls invites, answers, ends  *)
(* and keeps calls alive, from several browsers of each account at once;   *)
(* maintenance removes what has expired.  A request begins a transaction,  *)
(* which fixes its now(), and checks the conversation; only then does it   *)
(* lock both accounts.  From there to the commit nobody else invites,      *)
(* answers, ends or extends a call of theirs: that part is one step.       *)
(*                                                                         *)
(* A definition named Bug... is a variant of the one after it with a       *)
(* plausible defect, for the mutants.                                      *)
EXTENDS Naturals, FiniteSets

CONSTANTS
  Accounts,
  Clients,   \* browsers
  Account,   \* Account[c]: who is signed in there
  Chats,     \* accepted one-to-one conversations, each the set of its two people
  Contested, \* those that somebody blocks or deletes: bounds the state space
  Calls,     \* rows of audio_calls, each inserted once
  Requests,  \* POST requests under way at once
  TTL,       \* 45 seconds
  MaxTime,   \* bound on the clock
  MaxWait,   \* how long a request may wait for its locks
  NoClient

ASSUME CallAssumption ==
  /\ Account \in [Clients -> Accounts] /\ NoClient \notin Clients
  /\ \A c \in Chats : \E a, b \in Accounts : a # b /\ c = {a, b}
  /\ Contested \subseteq Chats
  /\ TTL \in Nat \ {0} /\ MaxTime \in Nat /\ MaxWait \in Nat

VARIABLES
  clock,
  access,    \* access[c]: the conversation of two people
  barredAt,  \* since when access[c] is not "open"
  call,      \* call[k]: its row
  notice,    \* notice[k]: the outcome in its two notifications
  answered,  \* answered[k]: clients whose answer was accepted
  heard,     \* heard[k][a]: when its party was last heard of
  req        \* req[r]: what the request has read, in a set

worldVars == <<clock, access, barredAt>>
callVars == <<call, notice, answered, heard>>
vars == <<worldVars, callVars, req>>

Times == 0..(MaxTime + TTL)
Final == {"missed", "declined", "cancelled", "ended"}

Row == [state : {"ringing", "active"}, caller : Accounts, callee : Accounts,
        callerClient : Clients, calleeClient : Clients \cup {NoClient},
        seen : [Accounts -> Times], expires : Times]

Request == [kind : {"invite", "answer", "end", "heartbeat"}, client : Clients,
            chat : Chats, call : SUBSET Calls, now : Times]

(* The type of every variable.  A call has a row or none, and the row of   *)
(* an active call names the clients that hold it.                          *)
TypeOK ==
  /\ clock \in 0..MaxTime
  /\ access \in [Chats -> {"open", "barred", "deleted"}]
  /\ barredAt \in [Chats -> Times]
  /\ \A k \in Calls : call[k] \subseteq Row /\ Cardinality(call[k]) <= 1
  /\ notice \in [Calls -> {"none", "ringing", "connected"} \cup Final]
  /\ answered \in [Calls -> SUBSET Clients]
  /\ heard \in [Calls -> [Accounts -> Times]]
  /\ \A r \in Requests : req[r] \subseteq Request /\ Cardinality(req[r]) <= 1
  /\ \A k \in Calls : \A w \in call[k] :
       /\ Account[w.callerClient] = w.caller
       /\ w.state = "active" => w.calleeClient # NoClient /\ Account[w.calleeClient] = w.callee

Init ==
  /\ clock = 0
  /\ access = [c \in Chats |-> "open"] /\ barredAt = [c \in Chats |-> 0]
  /\ call = [k \in Calls |-> {}]
  /\ notice = [k \in Calls |-> "none"]
  /\ answered = [k \in Calls |-> {}]
  /\ heard = [k \in Calls |-> [a \in Accounts |-> 0]]
  /\ req = [r \in Requests |-> {}]

-----------------------------------------------------------------------------
(* The world                                                               *)

Tick ==
  /\ clock < MaxTime
  /\ \A r \in Requests : \A q \in req[r] : clock < q.now + MaxWait
  /\ clock' = clock + 1
  /\ UNCHANGED <<access, barredAt, callVars, req>>

(* A block or a withdrawn acceptance, ...                                  *)
Bar(c) ==
  /\ access[c] = "open"
  /\ access' = [access EXCEPT ![c] = "barred"]
  /\ barredAt' = [barredAt EXCEPT ![c] = clock]
  /\ UNCHANGED <<clock, callVars, req>>

Unbar(c) ==
  /\ access[c] = "barred"
  /\ access' = [access EXCEPT ![c] = "open"]
  /\ UNCHANGED <<clock, barredAt, callVars, req>>

(* ... or the end of the conversation, which takes its calls with it and   *)
(* leaves their notifications.                                             *)
DeleteConversation(c) ==
  /\ access[c] # "deleted"
  /\ access' = [access EXCEPT ![c] = "deleted"]
  /\ barredAt' = [barredAt EXCEPT ![c] = clock]
  /\ call' = [k \in Calls |-> {w \in call[k] : {w.caller, w.callee} # c}]
  /\ UNCHANGED <<clock, notice, answered, heard, req>>

-----------------------------------------------------------------------------
(* POST /api/calls up to the locks                                         *)

(* Both have accepted the conversation and nobody blocks.                  *)
Admitted(q) == access[q.chat] = "open"

(* BEGIN, the call's row (for all but an invitation) and the conversation. *)
Authorize(r, q) ==
  /\ req[r] = {} /\ q.now = clock
  /\ Account[q.client] \in q.chat /\ Admitted(q)
  /\ \/ q.kind = "invite" /\ q.call = {}
     \/ /\ q.kind # "invite"
        /\ \E k \in Calls : \E w \in call[k] : q.call = {k} /\ q.chat = {w.caller, w.callee}
  /\ req' = [req EXCEPT ![r] = {q}]
  /\ UNCHANGED <<worldVars, callVars>>

(* Any error, refusal or crash from there on rolls back.                   *)
Rollback(r) ==
  /\ req[r] # {}
  /\ req' = [req EXCEPT ![r] = {}]
  /\ UNCHANGED <<worldVars, callVars>>

-----------------------------------------------------------------------------
(* ... and from the locks to the commit                                    *)

Earlier(s, t) == IF s < t THEN s ELSE t

(* Only calls that were answered count.                                    *)
BugBusyActive(q) ==
  \E k \in Calls : \E w \in call[k] :
    w.state = "active" /\ w.expires > q.now /\ {w.caller, w.callee} \cap q.chat # {}

Busy(q) ==
  \E k \in Calls : \E w \in call[k] :
    w.expires > q.now /\ {w.caller, w.callee} \cap q.chat # {}

Other(q) == CHOOSE a \in q.chat : a # Account[q.client]

NewCall(q) ==
  [state |-> "ringing", caller |-> Account[q.client], callee |-> Other(q),
   callerClient |-> q.client, calleeClient |-> NoClient,
   seen |-> [a \in Accounts |-> q.now], expires |-> q.now + TTL]

Invite(r, k) ==
  \E q \in req[r] :
    /\ q.kind = "invite" /\ notice[k] = "none"
    /\ access[q.chat] # "deleted" /\ ~ Busy(q)
    /\ call' = [call EXCEPT ![k] = {NewCall(q)}]
    /\ notice' = [notice EXCEPT ![k] = "ringing"]
    /\ heard' = [heard EXCEPT ![k] = [a \in Accounts |-> clock]]
    /\ req' = [req EXCEPT ![r] = {}]
    /\ UNCHANGED <<worldVars, answered>>

Answerable(q, w) ==
  w.callee = Account[q.client] /\ w.state = "ringing" /\ w.expires > q.now

(* The answer counts as a sign of life of both.                            *)
Answer(r, k) ==
  \E q \in req[r], w \in call[k] :
    /\ q.kind = "answer" /\ q.call = {k} /\ Answerable(q, w)
    /\ call' = [call EXCEPT ![k] =
         {[w EXCEPT !.state = "active", !.calleeClient = q.client,
                    !.seen = [a \in Accounts |-> q.now], !.expires = q.now + TTL]}]
    /\ notice' = [notice EXCEPT ![k] = "connected"]
    /\ answered' = [answered EXCEPT ![k] = @ \cup {q.client}]
    /\ heard' = [heard EXCEPT ![k] = [a \in Accounts |-> clock]]
    /\ req' = [req EXCEPT ![r] = {}]
    /\ UNCHANGED worldVars

Peer(w, me) == IF w.caller = me THEN w.callee ELSE w.caller

(* The client holds its party's side of the call.                          *)
Owns(w, client) ==
  \/ w.caller = Account[client] /\ w.callerClient = client
  \/ w.callee = Account[client] /\ w.calleeClient = client

(* One side's heartbeat is enough.                                         *)
BugExtended(w, me, now) == [w EXCEPT !.seen[me] = now, !.expires = now + TTL]

(* The call lives on from when the other side was last seen.               *)
Extended(w, me, now) ==
  [w EXCEPT !.seen[me] = now, !.expires = Earlier(now, w.seen[Peer(w, me)]) + TTL]

Heartbeat(r, k) ==
  \E q \in req[r], w \in call[k] :
    LET me == Account[q.client]
    IN /\ q.kind = "heartbeat" /\ q.call = {k}
       /\ w.expires > q.now /\ Owns(w, q.client)
       /\ call' = [call EXCEPT ![k] = {Extended(w, me, q.now)}]
       /\ heard' = [heard EXCEPT ![k][me] = clock]
       /\ req' = [req EXCEPT ![r] = {}]
       /\ UNCHANGED <<worldVars, notice, answered>>

(* The row of an ended call is deleted before the commit.                  *)
End(r, k) ==
  \E q \in req[r], w \in call[k] :
    LET me == Account[q.client]
    IN /\ q.kind = "end" /\ q.call = {k}
       /\ w.expires > q.now
       /\ Owns(w, q.client) \/ (w.callee = me /\ w.state = "ringing")
       /\ call' = [call EXCEPT ![k] = {}]
       /\ notice' = [notice EXCEPT ![k] =
            IF @ = "connected" THEN "ended"
            ELSE IF me = w.callee THEN "declined" ELSE "cancelled"]
       /\ req' = [req EXCEPT ![r] = {}]
       /\ UNCHANGED <<worldVars, answered, heard>>

-----------------------------------------------------------------------------
(* Maintenance                                                             *)

Expired == {k \in Calls : \E w \in call[k] : w.expires <= clock}

(* Whatever expires was missed.                                            *)
BugOutcome(k) == "missed"

ExpiryOutcome(k) ==
  IF \E w \in call[k] : w.state = "ringing" THEN "missed" ELSE "ended"

CleanupExpiredCalls ==
  /\ Expired # {}
  /\ call' = [k \in Calls |-> IF k \in Expired THEN {} ELSE call[k]]
  /\ notice' = [k \in Calls |-> IF k \in Expired THEN ExpiryOutcome(k) ELSE notice[k]]
  /\ UNCHANGED <<worldVars, answered, heard, req>>

Next ==
  \/ Tick \/ CleanupExpiredCalls
  \/ \E c \in Contested : Bar(c) \/ Unbar(c) \/ DeleteConversation(c)
  \/ \E r \in Requests :
       \/ \E q \in [kind : {"invite", "answer", "end", "heartbeat"}, client : Clients,
                    chat : Chats, call : {{}} \cup {{k} : k \in Calls}, now : {clock}] :
            Authorize(r, q)
       \/ Rollback(r)
       \/ \E k \in Calls : Invite(r, k) \/ Answer(r, k) \/ Heartbeat(r, k) \/ End(r, k)

Spec == Init /\ [][Next]_vars

-----------------------------------------------------------------------------
Live(w) == w.expires > clock

(* OneCall: nobody is in two live calls, however invitations and answers   *)
(* of both sides, from all their browsers, cross.  It holds as long as no  *)
(* request waits across an expiry (MaxWait = 0).                           *)
OneCall ==
  \A j, k \in Calls : \A v \in call[j], w \in call[k] :
    j # k /\ Live(v) /\ Live(w) => {v.caller, v.callee} \cap {w.caller, w.callee} = {}

(* Of all browsers that answer a call one is told that it has it, and that *)
(* one holds it.                                                           *)
AnsweredOnce ==
  \A k \in Calls :
    /\ Cardinality(answered[k]) <= 1
    /\ \A w \in call[k] : w.state = "active" <=> w.calleeClient \in answered[k]

(* OutcomeIsTrue: what the browsers were told and what both people's call  *)
(* history says of a call is what happened, although answers, the end and  *)
(* the expiry of a call race; the history is open only while the call is,  *)
(* or when the conversation was deleted under it.                          *)
OutcomeIsTrue ==
  /\ AnsweredOnce
  /\ \A k \in Calls :
       /\ notice[k] \in {"connected", "ended"} <=> answered[k] # {}
       /\ \A w \in call[k] : notice[k] = IF w.state = "ringing" THEN "ringing" ELSE "connected"
       /\ notice[k] \in {"ringing", "connected"} /\ call[k] = {}
            => \E c \in Chats : access[c] = "deleted"

(* A call does not outlive the silence of either party by more than TTL,   *)
(* whatever the other one's heartbeats do ...                              *)
BothHeard ==
  \A k \in Calls : \A w \in call[k] :
    w.expires <= Earlier(heard[k][w.caller], heard[k][w.callee]) + TTL

(* ... nor the loss of the conversation, by a block or by a withdrawn      *)
(* acceptance, although neither party can end it any more.                 *)
BarredCallsEnd ==
  \A k \in Calls : \A w \in call[k] :
    LET c == {w.caller, w.callee}
    IN access[c] # "open" => w.expires <= barredAt[c] + TTL

(* CallsLapse: no call is kept alive by one side, nor past its barring.    *)
CallsLapse == BothHeard /\ BarredCallsEnd
=============================================================================
