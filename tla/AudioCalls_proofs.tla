-------------------------- MODULE AudioCalls_proofs --------------------------
(* What the requests for audio calls guarantee, for any people, browsers,  *)
(* calls and concurrent requests, and however long requests wait for their *)
(* locks; that nobody is in two calls if no request waits across a tick of *)
(* the clock; and what the people in a temporary room can rely on, for any *)
(* number of requests, tabs and messages.                                  *)
EXTENDS MCAudioCalls, FiniteSetTheorems, SequenceTheorems, TLAPS

-----------------------------------------------------------------------------
(* The inductive invariant                                                 *)

AtMostOne(S) == S = {} \/ \E x : S = {x}

Plain ==
  /\ clock \in 0..MaxTime
  /\ access \in [Chats -> {"open", "barred", "deleted"}]
  /\ barredAt \in [Chats -> Times]
  /\ call \in [Calls -> SUBSET Row]
  /\ notice \in [Calls -> {"none", "ringing", "connected"} \cup Final]
  /\ answered \in [Calls -> SUBSET Clients]
  /\ heard \in [Calls -> [Accounts -> Times]]
  /\ req \in [Requests -> SUBSET Request]

(* The two sides of a row are held by browsers of its two people, and its  *)
(* answer and its notification agree with its state.                       *)
Sides(k, w) ==
  /\ {w.caller, w.callee} \in Chats
  /\ Account[w.callerClient] = w.caller
  /\ w.state = "ringing" => answered[k] = {} /\ w.calleeClient = NoClient
                            /\ notice[k] = "ringing"
  /\ w.state = "active" => answered[k] = {w.calleeClient} /\ w.calleeClient \in Clients
                           /\ Account[w.calleeClient] = w.callee /\ notice[k] = "connected"

(* A row never lasts longer than TTL from now, from the last sign of life  *)
(* of either side, or from the moment the conversation was barred.         *)
Lasts(k, w) ==
  /\ w.expires <= clock + TTL
  /\ \A a \in Accounts : w.seen[a] <= heard[k][a]
  /\ w.expires <= heard[k][w.caller] + TTL
  /\ w.expires <= heard[k][w.callee] + TTL
  /\ access[{w.caller, w.callee}] # "open" => w.expires <= barredAt[{w.caller, w.callee}] + TTL

(* What the history says of a call with and without a row.                 *)
History(k) ==
  /\ AtMostOne(call[k]) /\ AtMostOne(answered[k])
  /\ notice[k] = "none" => call[k] = {} /\ answered[k] = {}
  /\ notice[k] \in {"connected", "ended"} <=> answered[k] # {}
  /\ notice[k] \in {"ringing", "connected"} /\ call[k] = {}
       => \E c \in Chats : access[c] = "deleted"

(* A request began before its conversation was barred, and the call it is  *)
(* about is one of that conversation: no other call will ever have its id. *)
RequestInv(q) ==
  /\ q.now <= clock
  /\ Account[q.client] \in q.chat
  /\ access[q.chat] # "open" => q.now <= barredAt[q.chat]
  /\ \A k \in Calls : q.call = {k} =>
       /\ notice[k] # "none"
       /\ \A w \in call[k] : q.chat = {w.caller, w.callee}

IInv ==
  /\ Plain
  /\ \A k \in Calls : History(k)
  /\ \A k \in Calls : \A w \in call[k] : Sides(k, w) /\ Lasts(k, w)
  /\ \A r \in Requests : AtMostOne(req[r])
  /\ \A r \in Requests : \A q \in req[r] : RequestInv(q)

USE CallAssumption DEF vars, worldVars, callVars

-----------------------------------------------------------------------------
LEMMA OneOfSet ==
  ASSUME NEW S, AtMostOne(S)
  PROVE  IsFiniteSet(S) /\ Cardinality(S) <= 1
<1>1. CASE S = {}
  BY <1>1, FS_EmptySet
<1>2. CASE \E x : S = {x}
  <2>1. PICK x : S = {x}
    BY <1>2
  <2>2. IsFiniteSet(S) /\ Cardinality(S) = 1
    BY <2>1, FS_Singleton
  <2> QED
    BY <2>2
<1> QED BY <1>1, <1>2 DEF AtMostOne

(* A conversation is its caller and the other one.                         *)
LEMMA TwoPeople ==
  ASSUME NEW q \in Request, Account[q.client] \in q.chat
  PROVE  /\ Account[q.client] \in Accounts /\ Other(q) \in Accounts
         /\ Other(q) # Account[q.client] /\ q.chat = {Account[q.client], Other(q)}
<1>1. q.chat \in Chats
  BY DEF Request
<1>2. PICK a, b \in Accounts : a # b /\ q.chat = {a, b}
  BY <1>1
<1>3. \E o \in q.chat : o # Account[q.client]
  BY <1>2
<1>4. Other(q) \in q.chat /\ Other(q) # Account[q.client]
  BY <1>3 DEF Other
<1> QED
  BY <1>2, <1>4

LEMMA TypeFollows == IInv => TypeOK
<1> SUFFICES ASSUME IInv PROVE TypeOK
  OBVIOUS
<1> USE DEF IInv
<1>1. \A k \in Calls : call[k] \subseteq Row /\ Cardinality(call[k]) <= 1
  BY OneOfSet DEF Plain, History
<1>2. \A r \in Requests : req[r] \subseteq Request /\ Cardinality(req[r]) <= 1
  BY OneOfSet DEF Plain
<1>3. ASSUME NEW k \in Calls, NEW w \in call[k]
      PROVE  /\ Account[w.callerClient] = w.caller
             /\ w.state = "active" => w.calleeClient # NoClient /\ Account[w.calleeClient] = w.callee
  <2>1. Sides(k, w)
    BY <1>3
  <2> QED
    BY <2>1 DEF Sides
<1> QED
  BY <1>1, <1>2, <1>3 DEF Plain, TypeOK

LEMMA Initially == Init => IInv
<1> SUFFICES ASSUME Init PROVE IInv
  OBVIOUS
<1>1. Plain
  BY DEF Init, Plain, Times
<1>2. \A k \in Calls : History(k)
  BY DEF Init, History, AtMostOne
<1> QED
  BY <1>1, <1>2 DEF Init, IInv, AtMostOne

-----------------------------------------------------------------------------
(* The world                                                               *)

LEMMA TickKeeps == IInv /\ Tick => IInv'
<1> SUFFICES ASSUME IInv, Tick PROVE IInv'
  OBVIOUS
<1> USE DEF IInv, Tick
<1>1. Plain'
  BY DEF Plain
<1>2. \A k \in Calls : History(k)'
  BY DEF History
<1>3. ASSUME NEW k \in Calls, NEW w \in call[k] PROVE Sides(k, w)' /\ Lasts(k, w)'
  <2>1. w.expires \in Nat /\ clock \in Nat /\ clock' = clock + 1 /\ TTL \in Nat
    BY DEF Plain, Row, Times
  <2>2. Sides(k, w) /\ Lasts(k, w)
    OBVIOUS
  <2>3. w.expires <= clock' + TTL
    BY <2>1, <2>2 DEF Lasts
  <2> QED
    BY <2>2, <2>3 DEF Sides, Lasts
<1>4. ASSUME NEW r \in Requests, NEW q \in req[r] PROVE RequestInv(q)'
  <2>1. q \in Request /\ clock \in Nat
    BY DEF Plain
  <2> QED
    BY <1>4, <2>1 DEF RequestInv, Request, Times
<1> QED
  BY <1>1, <1>2, <1>3, <1>4

(* What bars a conversation does so now, when no row lasts longer than TTL.*)
LEMMA BarKeeps == ASSUME NEW c \in Contested, IInv, Bar(c) \/ Unbar(c) PROVE IInv'
<1> USE DEF IInv, Bar, Unbar
<1>1. Plain'
  BY DEF Plain, Times
<1>2. \A k \in Calls : History(k)'
  <2>1. \A d \in Chats : access[d] = "deleted" => access'[d] = "deleted"
    BY DEF Plain
  <2> QED
    BY <2>1 DEF History
<1>3. ASSUME NEW k \in Calls, NEW w \in call[k] PROVE Sides(k, w)' /\ Lasts(k, w)'
  <2>1. w \in Row /\ {w.caller, w.callee} \in Chats
    BY DEF Plain, Sides
  <2>2. Sides(k, w)'
    BY <1>3, <2>1 DEF Sides
  <2>3. /\ UNCHANGED clock /\ \A a \in Accounts : UNCHANGED heard[k][a]
        /\ Lasts(k, w) /\ clock \in Nat /\ TTL \in Nat
    <3>1. clock \in 0..MaxTime /\ UNCHANGED <<clock, heard>>
      BY DEF Plain
    <3> QED
      BY <1>3, <3>1, CallAssumption
  <2>4. access'[{w.caller, w.callee}] # "open" =>
          \/ barredAt'[{w.caller, w.callee}] = clock
          \/ /\ access[{w.caller, w.callee}] # "open"
             /\ barredAt'[{w.caller, w.callee}] = barredAt[{w.caller, w.callee}]
    BY <2>1 DEF Plain
  <2>5. Lasts(k, w)'
    BY <1>3, <2>3, <2>4 DEF Lasts
  <2> QED
    BY <2>2, <2>5
<1>4. ASSUME NEW r \in Requests, NEW q \in req[r] PROVE RequestInv(q)'
  <2>1. q \in Request /\ q.chat \in Chats /\ RequestInv(q)
    BY <1>4 DEF Plain, Request
  <2>2. clock \in 0..MaxTime /\ UNCHANGED <<clock, call, notice>>
    BY DEF Plain
  <2>3. access'[q.chat] # "open" =>
          \/ barredAt'[q.chat] = clock
          \/ access[q.chat] # "open" /\ barredAt'[q.chat] = barredAt[q.chat]
    BY <2>1 DEF Plain
  <2> HIDE DEF Bar, Unbar
  <2> QED
    BY <2>1, <2>2, <2>3 DEF RequestInv
<1> QED
  BY <1>1, <1>2, <1>3, <1>4

LEMMA DeleteKeeps == ASSUME NEW c \in Contested, IInv, DeleteConversation(c) PROVE IInv'
<1> USE DEF IInv, DeleteConversation
<1>0. \A k \in Calls : call'[k] = {w \in call[k] : {w.caller, w.callee} # c}
  OBVIOUS
<1>1. Plain'
  BY DEF Plain, Times
<1>2. ASSUME NEW k \in Calls PROVE History(k)'
  <2>1. access'[c] = "deleted"
    BY DEF Plain
  <2>2. AtMostOne(call'[k])
    <3>1. CASE call[k] = {}
      BY <1>0, <3>1 DEF AtMostOne
    <3>2. CASE \E x : call[k] = {x}
      <4>1. PICK x : call[k] = {x}
        BY <3>2
      <4>2. call'[k] = {} \/ call'[k] = {x}
        BY <1>0, <4>1
      <4> QED
        BY <4>2 DEF AtMostOne
    <3> QED
      BY <3>1, <3>2 DEF History, AtMostOne
  <2> QED
    BY <1>0, <2>1, <2>2 DEF History
<1>3. ASSUME NEW k \in Calls, NEW w \in call'[k] PROVE Sides(k, w)' /\ Lasts(k, w)'
  <2>1. w \in call[k] /\ {w.caller, w.callee} \in Chats /\ {w.caller, w.callee} # c
    BY <1>0 DEF Sides
  <2>2. access'[{w.caller, w.callee}] = access[{w.caller, w.callee}]
        /\ barredAt'[{w.caller, w.callee}] = barredAt[{w.caller, w.callee}]
    BY <2>1 DEF Plain
  <2> QED
    BY <2>1, <2>2 DEF Sides, Lasts
<1>4. ASSUME NEW r \in Requests, NEW q \in req'[r] PROVE RequestInv(q)'
  <2>1. q \in req[r] /\ q \in Request /\ q.chat \in Chats
    BY DEF Plain, Request
  <2> QED
    BY <1>0, <2>1 DEF RequestInv, Plain
<1> QED
  BY <1>1, <1>2, <1>3, <1>4
(* What a request leaves alone keeps its part of the invariant.            *)

LEMMA AuthorizeKeeps ==
  ASSUME NEW r \in Requests,
         NEW q \in [kind : {"invite", "answer", "end", "heartbeat"}, client : Clients,
                    chat : Chats, call : {{}} \cup {{k} : k \in Calls}, now : {clock}],
         IInv, Authorize(r, q)
  PROVE  IInv'
<1> USE DEF IInv, Authorize
<1>1. q \in Request /\ req' = [req EXCEPT ![r] = {q}]
  BY DEF Plain, Request, Times
<1>2. Plain'
  BY <1>1 DEF Plain
<1>3. RequestInv(q)'
  <2>1. Account[q.client] \in q.chat /\ access[q.chat] = "open" /\ q.now = clock /\ clock \in Nat
    BY DEF Admitted, Plain
  <2>2. ASSUME NEW k \in Calls, q.call = {k}
        PROVE  notice[k] # "none" /\ \A w \in call[k] : q.chat = {w.caller, w.callee}
    <3>1. \E w \in call[k] : q.chat = {w.caller, w.callee}
      BY <2>2
    <3>2. AtMostOne(call[k]) /\ notice[k] # "none"
      BY <3>1 DEF History
    <3> QED
      BY <3>1, <3>2 DEF AtMostOne
  <2> QED
    BY <2>1, <2>2 DEF RequestInv
<1>4. \A s \in Requests : s # r => req'[s] = req[s]
  BY <1>1 DEF Plain
<1>5. req'[r] = {q}
  BY <1>1 DEF Plain
<1>6. ASSUME NEW s \in Requests PROVE AtMostOne(req'[s])
  <2>1. CASE s = r
    BY <1>5, <2>1 DEF AtMostOne
  <2>2. CASE s # r
    BY <1>4, <2>2
  <2> QED
    BY <2>1, <2>2
<1>7. ASSUME NEW s \in Requests, NEW p \in req'[s] PROVE RequestInv(p)'
  <2>1. p \in req[s] => RequestInv(p)'
    BY DEF RequestInv
  <2> QED
    BY <1>3, <1>4, <1>5, <2>1
<1>8. \A k \in Calls : History(k)'
  BY DEF History
<1>9. ASSUME NEW k \in Calls, NEW w \in call'[k] PROVE Sides(k, w)' /\ Lasts(k, w)'
  <2>1. Sides(k, w) /\ Lasts(k, w)
    BY <1>9
  <2>2. Sides(k, w)'
    BY <2>1 DEF Sides
  <2>3. Lasts(k, w)'
    BY <2>1 DEF Lasts
  <2> QED
    BY <2>2, <2>3
<1> QED
  BY <1>2, <1>6, <1>7, <1>8, <1>9

(* The end of a request, ...                                               *)
LEMMA Leaves ==
  ASSUME NEW r \in Requests, req \in [Requests -> SUBSET Request],
         req' = [req EXCEPT ![r] = {}]
  PROVE  /\ req' \in [Requests -> SUBSET Request]
         /\ \A s \in Requests : req'[s] \subseteq req[s] /\ (req'[s] = req[s] \/ req'[s] = {})
BY DEF Request

LEMMA RollbackKeeps == ASSUME NEW r \in Requests, IInv, Rollback(r) PROVE IInv'
<1> USE DEF IInv, Rollback
<1>1. /\ req' \in [Requests -> SUBSET Request]
      /\ \A s \in Requests : req'[s] \subseteq req[s] /\ (req'[s] = req[s] \/ req'[s] = {})
  BY Leaves DEF Plain
<1>2. Plain' /\ \A s \in Requests : AtMostOne(req'[s])
  BY <1>1 DEF Plain, AtMostOne
<1>3. ASSUME NEW s \in Requests, NEW p \in req'[s] PROVE RequestInv(p)'
  BY <1>1 DEF RequestInv
<1>4. \A k \in Calls : History(k)'
  BY DEF History
<1>5. ASSUME NEW k \in Calls, NEW w \in call'[k] PROVE Sides(k, w)' /\ Lasts(k, w)'
  <2>1. Sides(k, w) /\ Lasts(k, w)
    BY <1>5
  <2>2. Sides(k, w)'
    BY <2>1 DEF Sides
  <2>3. Lasts(k, w)'
    BY <2>1 DEF Lasts
  <2> QED
    BY <2>2, <2>3
<1> QED
  BY <1>2, <1>3, <1>4, <1>5

-----------------------------------------------------------------------------
(* From the locks to the commit                                            *)

(* A request that ends with a change of one call only.                     *)
LEMMA CallStep ==
  ASSUME NEW k \in Calls, NEW r \in Requests, IInv, Plain',
         UNCHANGED worldVars, req' = [req EXCEPT ![r] = {}],
         \A j \in Calls \ {k} : /\ call'[j] = call[j] /\ notice'[j] = notice[j]
                                /\ answered'[j] = answered[j] /\ heard'[j] = heard[j],
         History(k)', notice'[k] # "none",
         \A w \in call'[k] : Sides(k, w)' /\ Lasts(k, w)',
         \A p \in Request : \A w \in call'[k] :
           p.call = {k} /\ notice[k] # "none" /\ (\A v \in call[k] : p.chat = {v.caller, v.callee})
             => p.chat = {w.caller, w.callee}
  PROVE  IInv'
<1> USE DEF IInv
<1>1. /\ req' \in [Requests -> SUBSET Request]
      /\ \A s \in Requests : req'[s] \subseteq req[s] /\ (req'[s] = req[s] \/ req'[s] = {})
  BY Leaves DEF Plain
<1>2. \A s \in Requests : AtMostOne(req'[s])
  BY <1>1 DEF AtMostOne
<1>3. ASSUME NEW j \in Calls PROVE History(j)'
  <2>1. CASE j = k
    BY <2>1
  <2>2. CASE j # k
    <3>1. History(j)
      OBVIOUS
    <3> QED
      BY <2>2, <3>1 DEF History
  <2> QED
    BY <2>1, <2>2
<1>4. ASSUME NEW j \in Calls, NEW w \in call'[j] PROVE Sides(j, w)' /\ Lasts(j, w)'
  <2>1. CASE j = k
    BY <1>4, <2>1
  <2>2. CASE j # k
    <3>1. w \in call[j] /\ Sides(j, w) /\ Lasts(j, w)
      BY <1>4, <2>2
    <3>2. Sides(j, w)'
      BY <2>2, <3>1 DEF Sides
    <3>3. Lasts(j, w)'
      BY <2>2, <3>1 DEF Lasts
    <3> QED
      BY <3>2, <3>3
  <2> QED
    BY <2>1, <2>2
<1>5. ASSUME NEW s \in Requests, NEW p \in req'[s] PROVE RequestInv(p)'
  <2>1. p \in req[s] /\ p \in Request /\ RequestInv(p)
    BY <1>1 DEF Plain
  <2>2. ASSUME NEW j \in Calls, p.call = {j}
        PROVE  notice'[j] # "none" /\ \A w \in call'[j] : p.chat = {w.caller, w.callee}
    <3>1. CASE j = k
      BY <2>1, <2>2, <3>1 DEF RequestInv
    <3>2. CASE j # k
      BY <2>1, <2>2, <3>2 DEF RequestInv
    <3> QED
      BY <3>1, <3>2
  <2> QED
    BY <2>1, <2>2 DEF RequestInv
<1> QED
  BY <1>2, <1>3, <1>4, <1>5

LEMMA EndKeeps == ASSUME NEW r \in Requests, NEW k \in Calls, IInv, End(r, k) PROVE IInv'
<1> USE DEF IInv
<1>1. PICK q \in req[r], w \in call[k] : End(r, k)!(q, w)
  BY DEF End
<1>2. notice[k] \in {"ringing", "connected"}
  <2>1. Sides(k, w) /\ w.state \in {"ringing", "active"}
    BY <1>1 DEF Plain, Row
  <2> QED
    BY <2>1 DEF Sides
<1>3. call'[k] = {} /\ answered' = answered /\ heard' = heard
      /\ notice'[k] = IF notice[k] = "connected" THEN "ended"
                      ELSE IF Account[q.client] = w.callee THEN "declined" ELSE "cancelled"
  BY <1>1 DEF Plain
<1>4. Plain'
  BY <1>1, Leaves DEF Plain, Final
<1>5. History(k)'
  <2>1. notice'[k] \notin {"none", "ringing", "connected"}
        /\ (notice'[k] = "ended" <=> notice[k] = "connected")
    BY <1>2, <1>3
  <2> QED
    BY <1>2, <1>3, <2>1 DEF History, AtMostOne
<1>6. notice'[k] # "none"
  BY <1>2, <1>3
<1>7. \A j \in Calls \ {k} : /\ call'[j] = call[j] /\ notice'[j] = notice[j]
                              /\ answered'[j] = answered[j] /\ heard'[j] = heard[j]
  BY <1>1 DEF Plain
<1> QED
  BY <1>1, <1>3, <1>4, <1>5, <1>6, <1>7, CallStep
(* What a request that has its locks knows.                                *)
LEMMA HasLocks ==
  ASSUME NEW r \in Requests, NEW q \in req[r], IInv
  PROVE  /\ q \in Request /\ q.client \in Clients /\ q.chat \in Chats
         /\ q.now \in Nat /\ q.now <= clock /\ clock \in Nat /\ clock <= MaxTime
         /\ q.now \in Times /\ clock \in Times /\ q.now + TTL \in Times /\ TTL \in Nat
         /\ RequestInv(q)
<1>1. q \in Request /\ RequestInv(q) /\ clock \in 0..MaxTime
  BY DEF IInv, Plain
<1>2. q.now \in Nat /\ q.now <= clock
  BY <1>1 DEF Request, RequestInv, Times
<1> QED
  BY <1>1, <1>2 DEF Request, Times

LEMMA InviteKeeps == ASSUME NEW r \in Requests, NEW k \in Calls, IInv, Invite(r, k) PROVE IInv'
<1> USE DEF IInv
<1>1. PICK q \in req[r] : Invite(r, k)!(q)
  BY DEF Invite
<1> DEFINE v == NewCall(q)
<1>2. /\ q \in Request /\ q.client \in Clients /\ q.chat \in Chats
      /\ q.now \in Nat /\ q.now <= clock /\ clock \in Nat
      /\ q.now \in Times /\ clock \in Times /\ q.now + TTL \in Times /\ TTL \in Nat
      /\ RequestInv(q)
  BY HasLocks
<1>3. /\ Account[q.client] \in Accounts /\ Other(q) \in Accounts
      /\ q.chat = {Account[q.client], Other(q)}
  BY <1>2, TwoPeople DEF RequestInv
<1>4. /\ v.state = "ringing" /\ v.caller = Account[q.client] /\ v.callee = Other(q)
      /\ v.callerClient = q.client /\ v.calleeClient = NoClient
      /\ v.seen = [a \in Accounts |-> q.now] /\ v.expires = q.now + TTL
  BY DEF NewCall
<1>5. v \in Row
  BY <1>2, <1>3 DEF NewCall, Row
<1>6. call[k] = {} /\ answered[k] = {} /\ notice[k] = "none"
  BY <1>1 DEF History
<1>7. call'[k] = {v} /\ notice'[k] = "ringing" /\ answered'[k] = {}
      /\ heard'[k] = [a \in Accounts |-> clock]
  BY <1>1, <1>6 DEF Plain
<1>8. Plain'
  BY <1>1, <1>2, <1>5, Leaves DEF Plain
<1>9. History(k)'
  BY <1>7 DEF History, AtMostOne
<1>10. Sides(k, v)'
  BY <1>2, <1>3, <1>4, <1>7 DEF Sides
<1>11. Lasts(k, v)'
  <2>1. v.expires = q.now + TTL /\ q.now + TTL <= clock + TTL
    BY <1>2, <1>4
  <2>2. access[q.chat] # "open" => q.now + TTL <= barredAt[q.chat] + TTL
    <3>1. barredAt[q.chat] \in Nat
      BY <1>2 DEF Plain, Times
    <3> QED
      BY <1>2, <3>1 DEF RequestInv
  <2>3. \A a \in Accounts : v.seen[a] = q.now /\ heard'[k][a] = clock
    BY <1>4, <1>7
  <2> QED
    BY <1>1, <1>2, <1>3, <1>4, <2>1, <2>2, <2>3 DEF Lasts
<1>12. \A j \in Calls \ {k} : /\ call'[j] = call[j] /\ notice'[j] = notice[j]
                               /\ answered'[j] = answered[j] /\ heard'[j] = heard[j]
  BY <1>1 DEF Plain
<1>13. UNCHANGED worldVars /\ req' = [req EXCEPT ![r] = {}]
  BY <1>1
<1> HIDE DEF v
<1> QED
  BY <1>6, <1>7, <1>8, <1>9, <1>10, <1>11, <1>12, <1>13, CallStep

LEMMA AnswerKeeps == ASSUME NEW r \in Requests, NEW k \in Calls, IInv, Answer(r, k) PROVE IInv'
<1> USE DEF IInv
<1>1. PICK q \in req[r], w \in call[k] : Answer(r, k)!(q, w)
  BY DEF Answer
<1> DEFINE v == [w EXCEPT !.state = "active", !.calleeClient = q.client,
                          !.seen = [a \in Accounts |-> q.now], !.expires = q.now + TTL]
<1>2. /\ q \in Request /\ q.client \in Clients /\ q.chat \in Chats
      /\ q.now \in Nat /\ q.now <= clock /\ clock \in Nat
      /\ q.now \in Times /\ clock \in Times /\ q.now + TTL \in Times /\ TTL \in Nat
      /\ RequestInv(q)
  BY HasLocks
<1>3. w \in Row /\ Sides(k, w) /\ w.state = "ringing" /\ w.callee = Account[q.client]
  BY <1>1 DEF Plain, Answerable
<1>4. /\ v.state = "active" /\ v.caller = w.caller /\ v.callee = w.callee
      /\ v.callerClient = w.callerClient /\ v.calleeClient = q.client
      /\ v.seen = [a \in Accounts |-> q.now] /\ v.expires = q.now + TTL
  BY <1>3 DEF Row
<1>5. v \in Row
  BY <1>2, <1>3 DEF Row
<1>6. q.chat = {w.caller, w.callee}
  BY <1>1, <1>2 DEF RequestInv
<1>7. call'[k] = {v} /\ notice'[k] = "connected" /\ answered'[k] = {q.client}
      /\ heard'[k] = [a \in Accounts |-> clock]
  BY <1>1, <1>3 DEF Plain, Sides
<1>8. Plain'
  <2>1. req' \in [Requests -> SUBSET Request]
    BY <1>1, Leaves DEF Plain
  <2>2. call' \in [Calls -> SUBSET Row]
    BY <1>1, <1>5 DEF Plain
  <2> HIDE DEF v
  <2> QED
    BY <1>1, <1>2, <2>1, <2>2 DEF Plain
<1> HIDE DEF v
<1>9. History(k)'
  BY <1>7 DEF History, AtMostOne
<1>10. Sides(k, v)'
  BY <1>2, <1>3, <1>4, <1>7 DEF Sides
<1>11. Lasts(k, v)'
  <2>1. v.expires = q.now + TTL /\ q.now + TTL <= clock + TTL
    BY <1>2, <1>4
  <2>2. access[q.chat] # "open" => q.now + TTL <= barredAt[q.chat] + TTL
    <3>1. barredAt[q.chat] \in Nat
      BY <1>2 DEF Plain, Times
    <3> QED
      BY <1>2, <3>1 DEF RequestInv
  <2>3. \A a \in Accounts : v.seen[a] = q.now /\ heard'[k][a] = clock
    BY <1>4, <1>7
  <2>4. v.caller \in Accounts /\ v.callee \in Accounts
    BY <1>5 DEF Row
  <2>5. v.expires <= clock + TTL /\ \A a \in Accounts : v.seen[a] <= heard'[k][a]
    BY <1>2, <2>1, <2>3
  <2>6. v.expires <= heard'[k][v.caller] + TTL /\ v.expires <= heard'[k][v.callee] + TTL
    BY <2>1, <2>3, <2>4
  <2>7. UNCHANGED <<clock, access, barredAt>> /\ q.chat = {v.caller, v.callee}
    BY <1>1, <1>4, <1>6
  <2> HIDE DEF v
  <2> QED
    BY <2>1, <2>2, <2>5, <2>6, <2>7 DEF Lasts
<1>12. \A j \in Calls \ {k} : /\ call'[j] = call[j] /\ notice'[j] = notice[j]
                               /\ answered'[j] = answered[j] /\ heard'[j] = heard[j]
  BY <1>1 DEF Plain
<1>13. UNCHANGED worldVars /\ req' = [req EXCEPT ![r] = {}]
  BY <1>1
<1>14. \A p \in Request : (\A u \in call[k] : p.chat = {u.caller, u.callee})
                           => p.chat = {v.caller, v.callee}
  BY <1>1, <1>4
<1>15. /\ notice'[k] # "none"
       /\ \A u \in call'[k] : Sides(k, u)' /\ Lasts(k, u)'
       /\ \A p \in Request : \A z \in call'[k] :
            p.call = {k} /\ notice[k] # "none" /\ (\A u \in call[k] : p.chat = {u.caller, u.callee})
              => p.chat = {z.caller, z.callee}
  BY <1>7, <1>10, <1>11, <1>14
<1> HIDE DEF IInv
<1> QED
  BY <1>8, <1>9, <1>12, <1>13, <1>15, CallStep
(* A heartbeat makes a row last no longer than the other side's silence.   *)
LEMMA HeartbeatKeeps ==
  ASSUME NEW r \in Requests, NEW k \in Calls, IInv, Heartbeat(r, k) PROVE IInv'
<1> USE DEF IInv
<1>1. PICK q \in req[r], w \in call[k] : Heartbeat(r, k)!(q, w)
  BY DEF Heartbeat
<1> DEFINE me == Account[q.client]
           v  == Extended(w, me, q.now)
<1>2. /\ q \in Request /\ q.client \in Clients /\ q.chat \in Chats
      /\ q.now \in Nat /\ q.now <= clock /\ clock \in Nat
      /\ q.now \in Times /\ clock \in Times /\ q.now + TTL \in Times /\ TTL \in Nat
      /\ RequestInv(q) /\ me \in Accounts
  BY HasLocks
<1>3. w \in Row /\ Sides(k, w) /\ Lasts(k, w) /\ me \in {w.caller, w.callee}
  BY <1>1 DEF Plain, Owns
<1>4. w.seen \in [Accounts -> Times] /\ Peer(w, me) \in Accounts
      /\ w.caller \in Accounts /\ w.callee \in Accounts
      /\ {w.caller, w.callee} = {me, Peer(w, me)}
  BY <1>3 DEF Row, Peer
<1>5. PICK at \in Times : /\ at = Earlier(q.now, w.seen[Peer(w, me)]) /\ at + TTL \in Times
                          /\ at <= q.now /\ at <= w.seen[Peer(w, me)] /\ at \in Nat
  <2>1. w.seen[Peer(w, me)] \in Times
    BY <1>4
  <2> QED
    BY <1>2, <2>1 DEF Earlier, Times
<1>6. /\ v.state = w.state /\ v.caller = w.caller /\ v.callee = w.callee
      /\ v.callerClient = w.callerClient /\ v.calleeClient = w.calleeClient
      /\ v.seen = [w.seen EXCEPT ![me] = q.now] /\ v.expires = at + TTL
  BY <1>3, <1>5 DEF Row, Extended
<1>7. v \in Row
  <2>1. [w.seen EXCEPT ![me] = q.now] \in [Accounts -> Times]
    BY <1>2, <1>4
  <2> QED
    BY <1>2, <1>3, <1>5, <2>1 DEF Row, Extended
<1> HIDE DEF v
<1>8. /\ call'[k] = {v} /\ notice' = notice /\ answered' = answered
      /\ heard'[k] = [heard[k] EXCEPT ![me] = clock] /\ heard[k] \in [Accounts -> Times]
  BY <1>1 DEF Plain, v
<1>9. Plain'
  <2>1. req' \in [Requests -> SUBSET Request]
    BY <1>1, Leaves DEF Plain
  <2>2. call' \in [Calls -> SUBSET Row]
    BY <1>1, <1>7 DEF Plain, v
  <2>3. heard' \in [Calls -> [Accounts -> Times]]
    BY <1>1, <1>2 DEF Plain
  <2> QED
    BY <1>1, <2>1, <2>2, <2>3 DEF Plain
<1>10. History(k)'
  <2>1. History(k) /\ call[k] # {}
    BY <1>1
  <2> QED
    BY <1>8, <2>1 DEF History, AtMostOne
<1>11. Sides(k, v)'
  BY <1>3, <1>6, <1>8 DEF Sides
<1>12. Lasts(k, v)'
  <2>1. v.expires <= clock + TTL
    BY <1>2, <1>5, <1>6
  <2>2. \A a \in Accounts : v.seen[a] <= heard'[k][a]
    BY <1>2, <1>3, <1>4, <1>6, <1>8 DEF Lasts
  <2>3. v.expires <= heard'[k][me] + TTL
    BY <1>2, <1>5, <1>6, <1>8
  <2>4. v.expires <= heard'[k][Peer(w, me)] + TTL
    <3>1. w.seen[Peer(w, me)] <= heard[k][Peer(w, me)] /\ heard[k][Peer(w, me)] \in Nat
          /\ w.seen[Peer(w, me)] \in Nat
      BY <1>3, <1>4, <1>8 DEF Lasts, Times
    <3>2. CASE Peer(w, me) = me
      BY <2>3, <3>2
    <3>3. CASE Peer(w, me) # me
      <4>1. heard'[k][Peer(w, me)] = heard[k][Peer(w, me)]
        BY <1>4, <1>8, <3>3
      <4> HIDE DEF v
      <4> QED
        BY <1>2, <1>5, <1>6, <3>1, <4>1
    <3> QED
      BY <3>2, <3>3
  <2>5. access[q.chat] # "open" => v.expires <= barredAt[q.chat] + TTL
    <3>1. barredAt[q.chat] \in Nat
      BY <1>2 DEF Plain, Times
    <3> QED
      BY <1>2, <1>5, <1>6, <3>1 DEF RequestInv
  <2>6. q.chat = {v.caller, v.callee}
    BY <1>1, <1>2, <1>6 DEF RequestInv
  <2>7. v.expires <= heard'[k][v.caller] + TTL /\ v.expires <= heard'[k][v.callee] + TTL
    BY <1>4, <1>6, <2>3, <2>4
  <2> QED
    BY <1>1, <2>1, <2>2, <2>5, <2>6, <2>7 DEF Lasts
<1>13. \A j \in Calls \ {k} : /\ call'[j] = call[j] /\ notice'[j] = notice[j]
                               /\ answered'[j] = answered[j] /\ heard'[j] = heard[j]
  BY <1>1 DEF Plain
<1>14. UNCHANGED worldVars /\ req' = [req EXCEPT ![r] = {}] /\ notice'[k] # "none"
  BY <1>1 DEF History
<1>15. \A p \in Request : (\A u \in call[k] : p.chat = {u.caller, u.callee})
                           => p.chat = {v.caller, v.callee}
  BY <1>1, <1>6
<1>16. \A u \in call'[k] : Sides(k, u)' /\ Lasts(k, u)'
  BY <1>8, <1>11, <1>12
<1>17. \A p \in Request : \A u \in call'[k] :
         (\A x \in call[k] : p.chat = {x.caller, x.callee}) => p.chat = {u.caller, u.callee}
  BY <1>8, <1>15
<1> QED
  BY <1>9, <1>10, <1>13, <1>14, <1>16, <1>17, CallStep

-----------------------------------------------------------------------------
(* Maintenance                                                             *)

LEMMA CleanupKeeps == IInv /\ CleanupExpiredCalls => IInv'
<1> SUFFICES ASSUME IInv, CleanupExpiredCalls PROVE IInv'
  OBVIOUS
<1> USE DEF IInv, CleanupExpiredCalls
<1>1. \A k \in Calls : /\ call'[k] = IF k \in Expired THEN {} ELSE call[k]
                       /\ notice'[k] = IF k \in Expired THEN ExpiryOutcome(k) ELSE notice[k]
  OBVIOUS
<1>2. ASSUME NEW k \in Expired
      PROVE  /\ k \in Calls /\ ExpiryOutcome(k) \in {"missed", "ended"}
             /\ ExpiryOutcome(k) = "ended" <=> answered[k] # {}
  <2>1. PICK w \in call[k] : k \in Calls
    BY DEF Expired
  <2>2. call[k] = {w} /\ Sides(k, w) /\ w.state \in {"ringing", "active"}
    BY <2>1 DEF History, AtMostOne, Plain, Row
  <2> QED
    BY <2>1, <2>2 DEF ExpiryOutcome, Sides
<1>3. Plain'
  <2>1. \A k \in Calls : call'[k] \in SUBSET Row
                         /\ notice'[k] \in {"none", "ringing", "connected"} \cup Final
    BY <1>1, <1>2 DEF Plain, Final
  <2> QED
    BY <2>1 DEF Plain
<1>4. ASSUME NEW k \in Calls PROVE History(k)'
  <2>1. CASE k \in Expired
    BY <1>1, <1>2, <2>1 DEF History, AtMostOne
  <2>2. CASE k \notin Expired
    BY <1>1, <2>2 DEF History
  <2> QED
    BY <2>1, <2>2
<1>5. ASSUME NEW k \in Calls, NEW w \in call'[k] PROVE Sides(k, w)' /\ Lasts(k, w)'
  <2>1. w \in call[k] /\ notice'[k] = notice[k]
    BY <1>1
  <2>2. Sides(k, w) /\ Lasts(k, w)
    BY <2>1
  <2>3. Sides(k, w)'
    BY <2>1, <2>2 DEF Sides
  <2>4. Lasts(k, w)'
    BY <2>2 DEF Lasts
  <2> QED
    BY <2>3, <2>4
<1>6. ASSUME NEW s \in Requests, NEW p \in req'[s] PROVE RequestInv(p)'
  <2>1. RequestInv(p)
    BY <1>6
  <2>2. ASSUME NEW k \in Calls, p.call = {k}
        PROVE  notice'[k] # "none" /\ \A w \in call'[k] : p.chat = {w.caller, w.callee}
    BY <1>1, <1>2, <2>1, <2>2 DEF RequestInv
  <2> QED
    BY <2>1, <2>2 DEF RequestInv
<1> QED
  BY <1>3, <1>4, <1>5, <1>6
-----------------------------------------------------------------------------
(* The theorems                                                            *)

LEMMA StepInv == IInv /\ [Next]_vars => IInv'
<1> SUFFICES ASSUME IInv, [Next]_vars PROVE IInv'
  OBVIOUS
<1>1. CASE Tick
  BY <1>1, TickKeeps
<1>2. CASE CleanupExpiredCalls
  BY <1>2, CleanupKeeps
<1>3. ASSUME NEW c \in Contested, Bar(c) \/ Unbar(c) \/ DeleteConversation(c) PROVE IInv'
  BY <1>3, BarKeeps, DeleteKeeps
<1>4. ASSUME NEW r \in Requests,
             NEW q \in [kind : {"invite", "answer", "end", "heartbeat"}, client : Clients,
                        chat : Chats, call : {{}} \cup {{k} : k \in Calls}, now : {clock}],
             Authorize(r, q)
      PROVE  IInv'
  BY <1>4, AuthorizeKeeps
<1>5. ASSUME NEW r \in Requests, Rollback(r) PROVE IInv'
  BY <1>5, RollbackKeeps
<1>6. ASSUME NEW r \in Requests, NEW k \in Calls,
             Invite(r, k) \/ Answer(r, k) \/ Heartbeat(r, k) \/ End(r, k)
      PROVE  IInv'
  BY <1>6, InviteKeeps, AnswerKeeps, HeartbeatKeeps, EndKeeps
<1>7. CASE UNCHANGED vars
  <2>1. UNCHANGED <<clock, access, barredAt, call, notice, answered, heard, req>>
    BY <1>7
  <2>2. Plain' /\ (\A k \in Calls : History(k)') /\ \A r \in Requests : AtMostOne(req'[r])
    BY <2>1 DEF IInv, Plain, History
  <2>3. ASSUME NEW k \in Calls, NEW w \in call'[k] PROVE Sides(k, w)' /\ Lasts(k, w)'
    <3>1. Sides(k, w) /\ Lasts(k, w)
      BY <2>1, <2>3 DEF IInv
    <3>2. Sides(k, w)'
      BY <2>1, <3>1 DEF Sides
    <3>3. Lasts(k, w)'
      BY <2>1, <3>1 DEF Lasts
    <3> QED
      BY <3>2, <3>3
  <2>4. ASSUME NEW r \in Requests, NEW q \in req'[r] PROVE RequestInv(q)'
    BY <2>1, <2>4 DEF IInv, RequestInv
  <2> QED
    BY <2>2, <2>3, <2>4 DEF IInv
<1> QED
  BY <1>1, <1>2, <1>3, <1>4, <1>5, <1>6, <1>7 DEF Next

(* Every reachable state satisfies the inductive invariant.                *)
THEOREM Invariance == Spec => []IInv
<1>1. Init => IInv
  BY Initially
<1>2. IInv /\ [Next]_vars => IInv'
  BY StepInv
<1> QED
  BY <1>1, <1>2, PTL DEF Spec

(* Type correctness of calls, requests and their history.                  *)
THEOREM TypeCorrect == Spec => []TypeOK
<1>1. IInv => TypeOK
  BY TypeFollows
<1> QED
  BY <1>1, Invariance, PTL

(* POST answer: however many browsers of the callee answer, and whoever    *)
(* ends the call meanwhile, one of them has it and no other was told so.   *)
THEOREM AnsweredByOne == Spec => []AnsweredOnce
<1>1. IInv => AnsweredOnce
  <2> SUFFICES ASSUME IInv, NEW k \in Calls
               PROVE  /\ Cardinality(answered[k]) <= 1
                      /\ \A w \in call[k] : w.state = "active" <=> w.calleeClient \in answered[k]
    BY DEF AnsweredOnce
  <2>1. Cardinality(answered[k]) <= 1
    BY OneOfSet DEF IInv, History
  <2>2. ASSUME NEW w \in call[k] PROVE w.state = "active" <=> w.calleeClient \in answered[k]
    <3>1. Sides(k, w) /\ w.state \in {"ringing", "active"}
      BY <2>2 DEF IInv, Plain, Row
    <3> QED
      BY <3>1 DEF Sides
  <2> QED
    BY <2>1, <2>2
<1> QED
  BY <1>1, Invariance, PTL

(* The call history of both people tells what happened, whatever raced.    *)
THEOREM HistoryIsTrue == Spec => []OutcomeIsTrue
<1>1. IInv /\ AnsweredOnce => OutcomeIsTrue
  <2> SUFFICES ASSUME IInv, NEW k \in Calls
               PROVE  /\ notice[k] \in {"connected", "ended"} <=> answered[k] # {}
                      /\ \A w \in call[k] :
                           notice[k] = IF w.state = "ringing" THEN "ringing" ELSE "connected"
                      /\ notice[k] \in {"ringing", "connected"} /\ call[k] = {}
                           => \E c \in Chats : access[c] = "deleted"
    BY DEF OutcomeIsTrue
  <2>1. History(k)
    BY DEF IInv
  <2>2. ASSUME NEW w \in call[k]
        PROVE  notice[k] = IF w.state = "ringing" THEN "ringing" ELSE "connected"
    <3>1. Sides(k, w) /\ w.state \in {"ringing", "active"}
      BY <2>2 DEF IInv, Plain, Row
    <3> QED
      BY <3>1 DEF Sides
  <2> QED
    BY <2>1, <2>2 DEF History
<1> QED
  BY <1>1, Invariance, AnsweredByOne, PTL

(* Heartbeats of one side never keep a call alive for the other, however   *)
(* long requests wait for their locks.                                     *)
THEOREM SilenceEnds == Spec => []BothHeard
<1>1. IInv => BothHeard
  BY DEF IInv, Lasts, BothHeard, Earlier
<1> QED
  BY <1>1, Invariance, PTL

(* A block, or the conversation's end, ends its call within TTL.           *)
THEOREM BarsEnd == Spec => []BarredCallsEnd
<1>1. IInv => BarredCallsEnd
  BY DEF IInv, Lasts, BarredCallsEnd
<1> QED
  BY <1>1, Invariance, PTL

(* Both together, for any waiting time of the requests.                    *)
THEOREM CallsEnd == Spec => []CallsLapse
<1>1. BothHeard /\ BarredCallsEnd => CallsLapse
  BY DEF CallsLapse
<1> QED
  BY <1>1, SilenceEnds, BarsEnd, PTL

(* If no request waits across a tick of the clock, its now() is the time.  *)
Prompt == \A r \in Requests : \A q \in req[r] : q.now = clock

LEMMA PromptStep == ASSUME MaxWait = 0, IInv, Prompt, [Next]_vars PROVE Prompt'
<1>1. CASE Tick
  <2>1. \A r \in Requests : \A q \in req[r] : FALSE
    <3>1. clock \in Nat
      BY DEF IInv, Plain
    <3> QED
      BY <1>1, <3>1 DEF Tick, Prompt
  <2> QED
    BY <1>1, <2>1 DEF Tick, Prompt
<1>2. CASE UNCHANGED <<clock, req>>
  BY <1>2 DEF Prompt
<1>3. ASSUME NEW r \in Requests, clock' = clock,
             req' = [req EXCEPT ![r] = {}] \/ \E q : q.now = clock /\ req' = [req EXCEPT ![r] = {q}]
      PROVE  Prompt'
  <2>1. req \in [Requests -> SUBSET Request]
    BY DEF IInv, Plain
  <2> QED
    BY <1>3, <2>1 DEF Prompt
<1>4. ASSUME NEW c \in Contested, Bar(c) \/ Unbar(c) \/ DeleteConversation(c)
      PROVE  UNCHANGED <<clock, req>>
  BY <1>4 DEF Bar, Unbar, DeleteConversation
<1>5. ASSUME NEW r \in Requests, NEW k \in Calls,
             Invite(r, k) \/ Answer(r, k) \/ Heartbeat(r, k) \/ End(r, k)
      PROVE  clock' = clock /\ req' = [req EXCEPT ![r] = {}]
  BY <1>5 DEF Invite, Answer, Heartbeat, End
<1> QED
  BY <1>1, <1>2, <1>3, <1>4, <1>5
  DEF Next, CleanupExpiredCalls, Authorize, Rollback

(* Fewer rows, at the same time or later, ...                              *)
LEMMA Fewer ==
  ASSUME IInv, OneCall, clock' \in Nat, clock' >= clock,
         \A k \in Calls : call'[k] \subseteq call[k]
  PROVE  OneCall'
<1> SUFFICES ASSUME NEW j \in Calls, NEW k \in Calls, NEW v \in call'[j], NEW w \in call'[k],
                    j # k, Live(v)', Live(w)'
             PROVE  {v.caller, v.callee} \cap {w.caller, w.callee} = {}
  BY DEF OneCall
<1>1. v \in call[j] /\ w \in call[k] /\ v.expires \in Nat /\ w.expires \in Nat /\ clock \in Nat
  BY DEF IInv, Plain, Row, Times
<1>2. Live(v) /\ Live(w)
  BY <1>1 DEF Live
<1> QED
  BY <1>1, <1>2 DEF OneCall

(* ... or one that takes the place of a live row of the same people, or    *)
(* whose people were free, keep everybody in one call.                     *)
LEMMA Replaced ==
  ASSUME OneCall, clock' = clock, NEW k \in Calls, NEW v, call'[k] = {v},
         \A j \in Calls \ {k} : call'[j] = call[j],
         \/ \E w \in call[k] : Live(w) /\ w.caller = v.caller /\ w.callee = v.callee
         \/ \A j \in Calls : \A w \in call[j] :
              Live(w) => {w.caller, w.callee} \cap {v.caller, v.callee} = {}
  PROVE  OneCall'
<1>1. ASSUME NEW j \in Calls \ {k}, NEW w \in call[j], Live(w)
      PROVE  {w.caller, w.callee} \cap {v.caller, v.callee} = {}
  <2>1. CASE \E u \in call[k] : Live(u) /\ u.caller = v.caller /\ u.callee = v.callee
    BY <1>1, <2>1 DEF OneCall
  <2> QED
    BY <1>1, <2>1
<1> SUFFICES ASSUME NEW i \in Calls, NEW j \in Calls, NEW u \in call'[i], NEW w \in call'[j],
                    i # j, Live(u)', Live(w)'
             PROVE  {u.caller, u.callee} \cap {w.caller, w.callee} = {}
  BY DEF OneCall
<1>2. Live(u) /\ Live(w)
  BY DEF Live
<1>3. CASE i = k
  BY <1>1, <1>2, <1>3
<1>4. CASE j = k
  BY <1>1, <1>2, <1>4
<1>5. CASE i # k /\ j # k
  BY <1>2, <1>5 DEF OneCall
<1> QED
  BY <1>3, <1>4, <1>5

LEMMA OneCallStep == ASSUME IInv, Prompt, OneCall, [Next]_vars PROVE OneCall'
<1>1. clock \in Nat /\ call \in [Calls -> SUBSET Row]
  BY DEF IInv, Plain
<1>2. CASE Tick
  BY <1>1, <1>2, Fewer DEF Tick
<1>3. CASE CleanupExpiredCalls
  <2>1. \A k \in Calls : call'[k] \subseteq call[k]
    BY <1>3 DEF CleanupExpiredCalls
  <2> QED
    BY <1>1, <1>3, <2>1, Fewer DEF CleanupExpiredCalls
<1>4. CASE UNCHANGED <<clock, call>>
  BY <1>1, <1>4, Fewer
<1>5. ASSUME NEW c \in Contested, DeleteConversation(c) PROVE OneCall'
  <2>1. \A k \in Calls : call'[k] \subseteq call[k]
    BY <1>5 DEF DeleteConversation
  <2> QED
    BY <1>1, <1>5, <2>1, Fewer DEF DeleteConversation
<1>6. ASSUME NEW r \in Requests, NEW k \in Calls, Invite(r, k) PROVE OneCall'
  <2>1. PICK q \in req[r] : Invite(r, k)!(q)
    BY <1>6 DEF Invite
  <2>2. q.now = clock /\ q \in Request /\ Account[q.client] \in q.chat
    BY DEF Prompt, IInv, Plain, RequestInv
  <2>3. {NewCall(q).caller, NewCall(q).callee} = q.chat
    BY <2>2, TwoPeople DEF NewCall
  <2>4. \A j \in Calls : \A w \in call[j] :
          Live(w) => {w.caller, w.callee} \cap {NewCall(q).caller, NewCall(q).callee} = {}
    BY <2>1, <2>2, <2>3 DEF Busy, Live
  <2>5. clock' = clock /\ call'[k] = {NewCall(q)} /\ \A j \in Calls \ {k} : call'[j] = call[j]
    BY <1>1, <2>1
  <2> QED
    BY <2>4, <2>5, Replaced
<1>7. ASSUME NEW r \in Requests, NEW k \in Calls, Answer(r, k) PROVE OneCall'
  <2>1. PICK q \in req[r], w \in call[k] : Answer(r, k)!(q, w)
    BY <1>7 DEF Answer
  <2> DEFINE v == [w EXCEPT !.state = "active", !.calleeClient = q.client,
                            !.seen = [a \in Accounts |-> q.now], !.expires = q.now + TTL]
  <2>2. q.now = clock /\ w \in Row
    BY <1>1, <2>1 DEF Prompt
  <2>3. Live(w) /\ w.caller = v.caller /\ w.callee = v.callee
    BY <2>1, <2>2 DEF Answerable, Live, Row
  <2>4. clock' = clock /\ call'[k] = {v} /\ \A j \in Calls \ {k} : call'[j] = call[j]
    BY <1>1, <2>1
  <2> HIDE DEF v
  <2> QED
    BY <2>3, <2>4, Replaced
<1>8. ASSUME NEW r \in Requests, NEW k \in Calls, Heartbeat(r, k) PROVE OneCall'
  <2>1. PICK q \in req[r], w \in call[k] : Heartbeat(r, k)!(q, w)
    BY <1>8 DEF Heartbeat
  <2> DEFINE v == Extended(w, Account[q.client], q.now)
  <2>2. q.now = clock /\ w \in Row
    BY <1>1, <2>1 DEF Prompt
  <2>3. Live(w) /\ w.caller = v.caller /\ w.callee = v.callee
    BY <2>1, <2>2 DEF Extended, Live, Row
  <2>4. clock' = clock /\ call'[k] = {v} /\ \A j \in Calls \ {k} : call'[j] = call[j]
    BY <1>1, <2>1
  <2> HIDE DEF v
  <2> QED
    BY <2>3, <2>4, Replaced
<1>9. ASSUME NEW r \in Requests, NEW k \in Calls, End(r, k) PROVE OneCall'
  <2>1. clock' = clock /\ \A j \in Calls : call'[j] \subseteq call[j]
    BY <1>1, <1>9 DEF End
  <2> QED
    BY <1>1, <2>1, Fewer
<1>10. ASSUME NEW c \in Contested, Bar(c) \/ Unbar(c) PROVE UNCHANGED <<clock, call>>
  BY <1>10 DEF Bar, Unbar
<1> QED
  BY <1>2, <1>3, <1>4, <1>5, <1>6, <1>7, <1>8, <1>9, <1>10
  DEF Next, Authorize, Rollback

(* The account locks do their work: if no request waits across a tick of   *)
(* the clock, nobody is ever in two live calls.                            *)
THEOREM OneCallAtATime == ASSUME MaxWait = 0 PROVE Spec => []OneCall
<1>1. Init => IInv /\ Prompt /\ OneCall
  BY Initially DEF Init, Prompt, OneCall
<1>2. (IInv /\ Prompt /\ OneCall) /\ [Next]_vars => (IInv /\ Prompt /\ OneCall)'
  BY StepInv, PromptStep, OneCallStep
<1> QED
  BY <1>1, <1>2, PTL DEF Spec

-----------------------------------------------------------------------------
(* The inductive invariant of a room                                       *)

(* Of the calls nothing is needed here.                                    *)
HIDE CallAssumption DEF vars, worldVars, callVars

Readings == {R!Idle, R!Asked, R!Stale} \cup [state : {"served"}, page : Seq(R!Messages)]
TabRows ==
  [in : {"out", "in", "ended"}, view : {"current", "hidden", "broken", "connected"},
   again : BOOLEAN, checking : BOOLEAN, cursor : Nat, shown : Seq(R!Messages), read : Readings]
OpenRows ==
  [open : {TRUE}, age : 0..MaxLife, left : 0..MaxLife, guest : Joiners \cup {Nobody},
   ask : DOMAIN asked \cup {R!NoAsk}]
RoomPosts ==
  [kind : R!Kinds, by : R!People,
   what : {R!Plain} \cup [message : R!Messages] \cup [minutes : Extra] \cup [ask : 1..scene.asks],
   awaited : BOOLEAN]
Grants == [ask : 1..scene.asks, by : R!People, until : 0..MaxLife]

(* What a request of each kind is about.                                   *)
PostInv == \A q \in Requests :
  /\ posts[q].kind = "create" => posts[q].by = Host
  /\ posts[q].kind = "join" => posts[q].by \in Joiners
  /\ posts[q].kind = "message" => posts[q].what \in [message : R!Messages]
  /\ posts[q].kind = "extend" => posts[q].what \in [minutes : Extra]
  /\ posts[q].kind \in {"approve", "reject"} => posts[q].what \in [ask : 1..scene.asks]

(* Before there is a room, there is nothing but requests to create it.     *)
BeforeInv ==
  room = R!Absent =>
    /\ \A p \in R!People : tab[p] = R!NoTab
    /\ \A q \in Requests : posts[q].kind \in {"none", "create"}

(* What a tab shows, and what the page on its way will add to it, starts   *)
(* the messages l of the room; and if that is not all, the tab will look.  *)
Follows(t, l) ==
  R!IsPrefix(t.shown, l) /\ (t.read.state = "served" => R!IsPrefix(t.shown \o t.read.page, l))
Caught(t, l) ==
  LET c == R!Coming(t) IN
  c.in = "in" /\ c.view # "hidden" /\ (c.shown # l \/ c.checking) => R!WillLook(c)

SeatInv == \A p \in R!People :
  /\ tab[p].cursor = Len(tab[p].shown)
  /\ p \in scene.watched /\ tab[p].in = "in" => tab[p].view # "current"
  /\ p \in Joiners /\ tab[p].in = "in" /\ room.open => room.guest = p
FollowInv == \A p \in R!People :
  /\ room.open => Follows(tab[p], log)
  /\ p \in scene.watched /\ R!Open => Caught(tab[p], log)

(* An extension that was added is not the one that is asked for now.       *)
GrantInv ==
  /\ ~ room.open => granted = <<>>
  /\ \A i \in DOMAIN granted :
       granted[i].ask \in DOMAIN asked /\ (room.open => granted[i].ask # room.ask)

RoomInv ==
  R!TypeOK /\ PostInv /\ BeforeInv /\ SeatInv /\ FollowInv /\ R!SentOnce /\ R!LifeIsConsented /\ GrantInv

-----------------------------------------------------------------------------
(* Sequences and minima                                                    *)

(* What a prefix is, element by element.                                   *)
LEMMA StartByElement ==
  ASSUME NEW S, NEW s \in Seq(S), NEW l \in Seq(S)
  PROVE  R!IsPrefix(s, l) <=> Len(s) <= Len(l) /\ \A i \in 1..Len(s) : s[i] = l[i]
<1>1. /\ Len(s) \in Nat /\ Len(l) \in Nat /\ SubSeq(s, 1, Len(s)) = s
      /\ l \in [1..Len(l) -> S]
  BY LenProperties, SubSeqFull
<1>2. ASSUME Len(s) <= Len(l)
      PROVE  /\ SubSeq(l, 1, Len(s)) \in Seq(S) /\ Len(SubSeq(l, 1, Len(s))) = Len(s)
             /\ \A i \in 1..Len(s) : SubSeq(l, 1, Len(s))[i] = l[i]
  <2>1. (\A i \in 1..Len(s) : l[i] \in S) /\ 1 \in Int /\ Len(s) \in Int
    BY <1>1, <1>2
  <2>2. /\ SubSeq(l, 1, Len(s)) \in Seq(S)
        /\ Len(SubSeq(l, 1, Len(s))) = IF 1 <= Len(s) THEN Len(s) - 1 + 1 ELSE 0
        /\ \A i \in 1..(Len(s) - 1 + 1) : SubSeq(l, 1, Len(s))[i] = l[1 + i - 1]
    BY <2>1, SubSeqProperties
  <2> QED
    BY <1>1, <2>2
<1> QED
  BY <1>1, <1>2, SeqEqual DEF R!IsPrefix

LEMMA StartOfItself == ASSUME NEW S, NEW s \in Seq(S) PROVE R!IsPrefix(s, s) /\ R!IsPrefix(<<>>, s)
<1>1. R!IsPrefix(s, s)
  BY StartByElement, LenProperties
<1>2. ASSUME NEW e \in Seq(S), Len(e) = 0 PROVE R!IsPrefix(e, s)
  <2>1. Len(s) \in Nat
    BY LenProperties
  <2>2. Len(e) <= Len(s) /\ \A i \in 1..Len(e) : e[i] = s[i]
    BY <1>2, <2>1
  <2> QED
    BY <2>2, StartByElement
<1>3. <<>> \in Seq(S) /\ Len(<<>>) = 0
  BY EmptySeq
<1> QED
  BY <1>1, <1>2, <1>3

LEMMA StartOfLonger ==
  ASSUME NEW S, NEW s \in Seq(S), NEW l \in Seq(S), NEW x \in S, R!IsPrefix(s, l)
  PROVE  R!IsPrefix(s, Append(l, x))
<1>1. /\ Append(l, x) \in Seq(S) /\ Len(Append(l, x)) = Len(l) + 1
      /\ \A i \in 1..Len(l) : Append(l, x)[i] = l[i]
  BY AppendProperties
<1>2. Len(s) \in Nat /\ Len(l) \in Nat /\ Len(s) <= Len(l) /\ \A i \in 1..Len(s) : s[i] = l[i]
  BY LenProperties, StartByElement
<1>3. ASSUME NEW m \in Seq(S), Len(m) = Len(l) + 1, \A i \in 1..Len(l) : m[i] = l[i]
      PROVE  R!IsPrefix(s, m)
  BY <1>2, <1>3, StartByElement
<1> QED
  BY <1>1, <1>3

LEMMA MinOfTwo ==
  ASSUME NEW a \in Int, NEW b \in Int
  PROVE  R!Min({a, b}) = IF a <= b THEN a ELSE b
  BY DEF R!Min

(* The next page after a start of the messages makes a longer start, and   *)
(* all of them if it is not full.                                          *)
NextOf(s, l, n) == SubSeq(l, Len(s) + 1, R!Min({Len(l), Len(s) + n}))
LEMMA NextPage ==
  ASSUME NEW S, NEW s \in Seq(S), NEW l \in Seq(S), NEW n \in Nat, n # 0, R!IsPrefix(s, l)
  PROVE  /\ NextOf(s, l, n) \in Seq(S) /\ R!IsPrefix(s \o NextOf(s, l, n), l)
         /\ Len(NextOf(s, l, n)) # n => s \o NextOf(s, l, n) = l
<1> DEFINE upto == R!Min({Len(l), Len(s) + n})
           page == SubSeq(l, Len(s) + 1, upto)
<1>1. Len(s) \in Nat /\ Len(l) \in Nat /\ Len(s) <= Len(l)
  BY LenProperties, StartByElement
<1>2. \A i \in 1..Len(s) : s[i] = l[i]
  BY StartByElement
<1>0. upto = IF Len(l) <= Len(s) + n THEN Len(l) ELSE Len(s) + n
  <2>1. Len(l) \in Int /\ Len(s) + n \in Int
    BY <1>1
  <2> QED
    BY <2>1, MinOfTwo
<1> HIDE DEF upto
<1>3. upto \in Int /\ Len(s) + 1 \in Int /\ Len(s) <= upto /\ upto <= Len(l)
      /\ (upto - Len(s) # n => upto = Len(l))
  BY <1>0, <1>1
<1>4. \A i \in (Len(s) + 1)..upto : l[i] \in S
  <2>1. l \in [1..Len(l) -> S]
    BY LenProperties
  <2> QED
    BY <1>1, <1>3, <2>1
<1>5. /\ page \in Seq(S)
      /\ Len(page) = IF Len(s) + 1 <= upto THEN upto - (Len(s) + 1) + 1 ELSE 0
      /\ \A i \in 1..(upto - (Len(s) + 1) + 1) : page[i] = l[Len(s) + 1 + i - 1]
  <2> HIDE DEF page
  <2> QED
    BY <1>3, <1>4, SubSeqProperties DEF page
<1> HIDE DEF page
<1>6. Len(page) = upto - Len(s)
  BY <1>1, <1>3, <1>5
<1>7. /\ s \o page \in Seq(S) /\ Len(s \o page) = Len(s) + Len(page)
      /\ \A i \in 1..(Len(s) + Len(page)) :
           (s \o page)[i] = IF i <= Len(s) THEN s[i] ELSE page[i - Len(s)]
  BY <1>5, ConcatProperties
<1>8. ASSUME NEW i \in 1..Len(s \o page) PROVE (s \o page)[i] = l[i]
  <2>1. i \in 1..(Len(s) + Len(page)) /\ i \in Int
    BY <1>1, <1>6, <1>7
  <2>2. CASE i <= Len(s)
    <3>1. i \in 1..Len(s)
      BY <1>1, <2>1, <2>2
    <3> QED
      BY <1>2, <1>7, <2>1, <2>2, <3>1
  <2>3. CASE ~ i <= Len(s)
    <3>1. /\ i - Len(s) \in 1..(upto - (Len(s) + 1) + 1)
          /\ Len(s) + 1 + (i - Len(s)) - 1 = i
      BY <1>1, <1>3, <1>6, <2>1, <2>3
    <3>2. page[i - Len(s)] = l[i]
      BY <1>5, <3>1
    <3> QED
      BY <1>7, <2>1, <2>3, <3>2
  <2> QED
    BY <2>2, <2>3
<1>9. Len(s \o page) = upto /\ Len(s \o page) <= Len(l)
  BY <1>1, <1>3, <1>6, <1>7
<1>10. R!IsPrefix(s \o page, l)
  BY <1>7, <1>8, <1>9, StartByElement
<1>11. ASSUME Len(page) # n PROVE s \o page = l
  <2>1. Len(s \o page) = Len(l)
    BY <1>3, <1>6, <1>9, <1>11
  <2> QED
    BY <1>7, <1>8, <2>1, SeqEqual
<1> QED
  BY <1>5, <1>10, <1>11 DEF page, upto, NextOf

(* Adding a message that is not there yet.                                 *)
LEMMA OneMore ==
  ASSUME NEW S, NEW s \in Seq(S), NEW x \in S
  PROVE  /\ Append(s, x) \in Seq(S) /\ R!Range(Append(s, x)) = R!Range(s) \cup {x}
         /\ R!IsInjective(s) /\ x \notin R!Range(s) => R!IsInjective(Append(s, x))
<1>1. /\ Append(s, x) \in Seq(S) /\ Len(Append(s, x)) = Len(s) + 1
      /\ \A i \in 1..Len(s) : Append(s, x)[i] = s[i]
      /\ Append(s, x)[Len(s) + 1] = x
  BY AppendProperties
<1>2. Len(s) \in Nat /\ DOMAIN s = 1..Len(s) /\ DOMAIN Append(s, x) = 1..(Len(s) + 1)
  BY <1>1, LenProperties
<1>3. R!Range(Append(s, x)) = R!Range(s) \cup {x}
  BY <1>1, <1>2 DEF R!Range
<1>4. ASSUME R!IsInjective(s), x \notin R!Range(s) PROVE R!IsInjective(Append(s, x))
  <2>1. \A i \in 1..Len(s) : s[i] # x
    BY <1>2, <1>4 DEF R!Range
  <2> QED
    BY <1>1, <1>2, <1>4, <2>1 DEF R!IsInjective
<1> QED
  BY <1>1, <1>3, <1>4

-----------------------------------------------------------------------------
(* What the operations of a tab do to it                                   *)

LEMMA ReadingFacts ==
  /\ R!Idle \in Readings /\ R!Asked \in Readings /\ R!Stale \in Readings
  /\ R!Idle # R!Asked /\ R!Idle # R!Stale /\ R!Asked # R!Stale
  /\ \A r \in Readings : r.state = "served" <=> r \in [state : {"served"}, page : Seq(R!Messages)]
  /\ R!Idle.state # "served" /\ R!Asked.state # "served" /\ R!Stale.state # "served"
  /\ \A r \in Seq(R!Messages) : [state |-> "served", page |-> r] \in Readings
<1>1. R!Idle.state = "idle" /\ R!Asked.state = "asked" /\ R!Stale.state = "stale"
  BY DEF R!Idle, R!Asked, R!Stale
<1>2. \A r \in [state : {"served"}, page : Seq(R!Messages)] : r.state = "served"
  OBVIOUS
<1> QED
  BY <1>1, <1>2 DEF Readings

LEMMA ComingFacts ==
  ASSUME NEW t \in TabRows
  PROVE  /\ R!Coming(t) \in TabRows
         /\ R!Coming(t).in = t.in /\ R!Coming(t).view = t.view /\ R!Coming(t).again = t.again
         /\ R!Coming(t).read = t.read
         /\ t.read.state = "served" => R!Coming(t).shown = t.shown \o t.read.page /\ R!Coming(t).checking = FALSE
         /\ t.read.state # "served" => R!Coming(t).shown = t.shown /\ R!Coming(t).checking = t.checking
<1>1. CASE t.read.state # "served"
  BY <1>1 DEF R!Coming
<1>2. CASE t.read.state = "served"
  <2>1. t.read.page \in Seq(R!Messages) /\ t.shown \in Seq(R!Messages)
    BY <1>2, ReadingFacts DEF TabRows
  <2>2. t.shown \o t.read.page \in Seq(R!Messages)
    BY <2>1, ConcatProperties
  <2>3. R!Coming(t) = [t EXCEPT !.shown = t.shown \o t.read.page, !.checking = FALSE]
    BY <1>2 DEF R!Coming
  <2> QED
    BY <1>2, <2>2, <2>3 DEF TabRows
<1> QED
  BY <1>1, <1>2

(* Two tabs that show the same, and of which the second looks whenever the *)
(* first does.                                                             *)
LEMMA SameView ==
  ASSUME NEW t \in TabRows, NEW u \in TabRows, NEW l,
         u.shown = t.shown, u.read = t.read, u.checking = t.checking, u.in = t.in, u.view = t.view,
         t.again => u.again
  PROVE  (Follows(t, l) => Follows(u, l)) /\ (Caught(t, l) => Caught(u, l))
<1>1. Follows(t, l) => Follows(u, l)
  BY DEF Follows
<1>2. R!Coming(u).shown = R!Coming(t).shown /\ R!Coming(u).checking = R!Coming(t).checking
  <2>1. CASE t.read.state = "served"
    <3>1. R!Coming(t).shown = t.shown \o t.read.page /\ R!Coming(t).checking = FALSE
      BY <2>1, ComingFacts
    <3>2. R!Coming(u).shown = u.shown \o u.read.page /\ R!Coming(u).checking = FALSE
      BY <2>1, ComingFacts
    <3> QED
      BY <3>1, <3>2
  <2>2. CASE t.read.state # "served"
    BY <2>2, ComingFacts
  <2> QED
    BY <2>1, <2>2
<1>3. ASSUME R!WillLook(R!Coming(t)) PROVE R!WillLook(R!Coming(u))
  <2>1. /\ R!Coming(u).read = R!Coming(t).read /\ R!Coming(u).view = R!Coming(t).view
        /\ R!Coming(t).again => R!Coming(u).again
    BY ComingFacts
  <2> QED
    BY <1>3, <2>1 DEF R!WillLook
<1>4. R!Coming(u).in = R!Coming(t).in /\ R!Coming(u).view = R!Coming(t).view
  BY ComingFacts
<1> QED
  BY <1>1, <1>2, <1>3, <1>4 DEF Caught

(* A tab that will look has caught up, in this sense, with any messages.   *)
LEMMA Looking ==
  ASSUME NEW t \in TabRows, NEW l,
         t.again \/ t.read = R!Asked \/ t.view \in {"broken", "hidden"} \/ t.in # "in"
  PROVE  Caught(t, l)
  BY ComingFacts DEF Caught, R!WillLook

LEMMA RefreshFacts ==
  ASSUME NEW t \in TabRows, NEW l
  PROVE  LET u == R!Refresh(t) IN
         /\ u \in TabRows
         /\ u.in = t.in /\ u.view = t.view /\ u.cursor = t.cursor /\ u.shown = t.shown
         /\ (Follows(t, l) => Follows(u, l)) /\ (Caught(t, l) => Caught(u, l))
         /\ t.in = "in" /\ t.view # "current" => Caught(u, l)
<1>1. CASE t.in # "in" \/ t.view = "current"
  BY <1>1 DEF R!Refresh
<1>2. CASE t.in = "in" /\ t.view # "current" /\ R!Running(t)
  <2>1. R!Refresh(t) = [t EXCEPT !.again = TRUE] /\ R!Refresh(t) \in TabRows /\ R!Refresh(t).again
    BY <1>2 DEF R!Refresh, TabRows
  <2> QED
    BY <2>1, SameView, Looking DEF TabRows
<1>3. CASE t.in = "in" /\ t.view # "current" /\ ~ R!Running(t)
  <2>1. R!Refresh(t) = [t EXCEPT !.read = R!Asked]
    BY <1>3 DEF R!Refresh
  <2>2. R!Refresh(t) \in TabRows /\ R!Refresh(t).read = R!Asked /\ R!Refresh(t).shown = t.shown
    BY <2>1, ReadingFacts DEF TabRows
  <2>3. Follows(t, l) => Follows(R!Refresh(t), l)
    BY <2>2, ReadingFacts DEF Follows
  <2> QED
    BY <2>1, <2>2, <2>3, Looking DEF TabRows
<1> QED
  BY <1>1, <1>2, <1>3

LEMMA ToldFacts ==
  ASSUME NEW t \in TabRows, NEW l
  PROVE  LET u == R!Told(t) IN
         /\ u \in TabRows
         /\ u.in = t.in /\ u.view = t.view /\ u.cursor = t.cursor /\ u.shown = t.shown
         /\ (Follows(t, l) => Follows(u, l)) /\ (Caught(t, l) => Caught(u, l))
         /\ t.view # "current" => Caught(u, l)
<1>1. CASE t.view = "connected"
  <2>1. R!Told(t) = [t EXCEPT !.again = TRUE] /\ R!Told(t) \in TabRows /\ R!Told(t).again
    BY <1>1 DEF R!Told, TabRows
  <2> QED
    BY <2>1, SameView, Looking DEF TabRows
<1>2. CASE t.view # "connected"
  <2>1. R!Told(t) = t
    BY <1>2 DEF R!Told
  <2> QED
    BY <1>2, <2>1, Looking DEF TabRows
<1> QED
  BY <1>1, <1>2

LEMMA SuspendFacts ==
  ASSUME NEW t \in TabRows, NEW l \in Seq(R!Messages)
  PROVE  LET u == R!Suspend(t) IN
         /\ u \in TabRows
         /\ u.in = t.in /\ u.view = t.view /\ u.cursor = 0 /\ u.shown = <<>> /\ u.again = t.again
         /\ u.read.state # "served" /\ Follows(u, l)
<1>1. <<>> \in Seq(R!Messages)
  BY EmptySeq
<1>2. (IF R!Running(t) THEN R!Stale ELSE t.read) \in {R!Stale, R!Idle}
  BY DEF R!Running
<1>3. R!Suspend(t) = [t EXCEPT !.read = IF R!Running(t) THEN R!Stale ELSE t.read,
                             !.cursor = 0, !.shown = <<>>, !.checking = TRUE]
  BY DEF R!Suspend
<1>4. /\ R!Suspend(t) \in TabRows /\ R!Suspend(t).read \in {R!Stale, R!Idle}
      /\ R!Suspend(t).in = t.in /\ R!Suspend(t).view = t.view /\ R!Suspend(t).again = t.again
      /\ R!Suspend(t).cursor = 0 /\ R!Suspend(t).shown = <<>>
  <2> DEFINE r == IF R!Running(t) THEN R!Stale ELSE t.read
  <2>1. r \in Readings /\ r \in {R!Stale, R!Idle}
    BY <1>2, ReadingFacts
  <2>2. R!Suspend(t) = [t EXCEPT !.read = r, !.cursor = 0, !.shown = <<>>, !.checking = TRUE]
    BY <1>3
  <2> HIDE DEF r
  <2>3. [t EXCEPT !.read = r, !.cursor = 0, !.shown = <<>>, !.checking = TRUE] \in TabRows
    BY <1>1, <2>1 DEF TabRows
  <2>4. DOMAIN t = {"in", "view", "again", "checking", "cursor", "shown", "read"}
    BY DEF TabRows
  <2>5. /\ R!Suspend(t).read = r /\ R!Suspend(t).cursor = 0 /\ R!Suspend(t).shown = <<>>
        /\ R!Suspend(t).in = t.in /\ R!Suspend(t).view = t.view /\ R!Suspend(t).again = t.again
    BY <2>2, <2>4
  <2> QED
    BY <2>1, <2>2, <2>3, <2>5
<1> QED
  BY <1>4, ReadingFacts, StartOfItself DEF Follows

LEMMA FreshTabs ==
  ASSUME NEW p, NEW l \in Seq(R!Messages),
         NEW t \in {R!NoTab, R!Retired, R!Entered(p)}
  PROVE  /\ t \in TabRows /\ t.cursor = 0 /\ t.shown = <<>>
         /\ Follows(t, l)
         /\ t # R!Entered(p) => t.in # "in"
         /\ p \in scene.watched => Caught(t, l) /\ t.view # "current"
<1>1. <<>> \in Seq(R!Messages)
  BY EmptySeq
<1>2. /\ t \in TabRows /\ t.cursor = 0 /\ t.shown = <<>> /\ t.read \in {R!Idle, R!Asked}
      /\ t # R!Entered(p) => t.in # "in" /\ t.view = "hidden"
      /\ t = R!Entered(p) /\ p \in scene.watched => t.view = "broken"
  <2>1. CASE t = R!NoTab
    <3>1. t = [in |-> "out", view |-> "hidden", again |-> FALSE, checking |-> TRUE, cursor |-> 0,
               shown |-> <<>>, read |-> R!Idle]
      BY <2>1 DEF R!NoTab
    <3>2. R!NoTab # R!Entered(p)
      BY DEF R!NoTab, R!Entered
    <3>3. t \in TabRows
      BY <1>1, <3>1, ReadingFacts DEF TabRows
    <3> QED
      BY <2>1, <3>1, <3>2, <3>3
  <2>2. CASE t = R!Retired
    <3>1. t = [in |-> "ended", view |-> "hidden", again |-> FALSE, checking |-> TRUE, cursor |-> 0,
               shown |-> <<>>, read |-> R!Idle]
      BY <2>2 DEF R!NoTab, R!Retired
    <3>2. R!Retired # R!Entered(p)
      BY DEF R!NoTab, R!Entered, R!Retired
    <3>3. t \in TabRows
      BY <1>1, <3>1, ReadingFacts DEF TabRows
    <3> QED
      BY <2>2, <3>1, <3>2, <3>3
  <2>3. CASE t = R!Entered(p)
    BY <1>1, <2>3, ReadingFacts DEF R!NoTab, R!Entered, TabRows
  <2> QED
    BY <2>1, <2>2, <2>3
<1>3. Follows(t, l)
  BY <1>2, ReadingFacts, StartOfItself DEF Follows
<1>4. p \in scene.watched => Caught(t, l) /\ t.view # "current"
  BY <1>2, Looking
<1> QED
  BY <1>2, <1>3, <1>4

-----------------------------------------------------------------------------
(* The requests                                                            *)

LEMMA RoomTypes ==
  R!TypeOK <=> /\ scene \in Scenes
               /\ room \in {R!Absent, R!Gone} \cup OpenRows
               /\ log \in Seq(R!Messages) /\ (~ room.open => log = <<>>)
               /\ asked \in Seq([by : R!People, minutes : Extra]) /\ Len(asked) <= scene.asks
               /\ posts \in [Requests -> {R!Free} \cup RoomPosts]
               /\ tab \in [R!People -> TabRows]
               /\ acked \subseteq R!Messages /\ granted \in Seq(Grants)
  BY DEF R!TypeOK, OpenRows, RoomPosts, TabRows, Readings, Grants

LEMMA SceneFacts == ASSUME R!TypeOK PROVE scene.watched \subseteq R!People /\ scene.asks \in Nat
  BY RoomsAssumption DEF R!TypeOK

LEMMA RoomFacts ==
  ASSUME R!TypeOK
  PROVE  /\ room.open => room \in OpenRows
         /\ ~ room.open <=> room \in {R!Absent, R!Gone}
         /\ R!Absent # R!Gone /\ ~ R!Absent.open /\ ~ R!Gone.open
<1>1. \A r \in OpenRows : r.open
  BY DEF OpenRows
<1>2. ~ R!Absent.open /\ ~ R!Gone.open /\ R!Absent.gone # R!Gone.gone
  BY DEF R!Absent, R!Gone
<1> QED
  BY <1>1, <1>2, RoomTypes

LEMMA PostFacts ==
  ASSUME R!TypeOK, NEW q \in Requests
  PROVE  /\ posts[q] = R!Free <=> posts[q].kind = "none"
         /\ posts[q] # R!Free => posts[q] \in RoomPosts
         /\ ~ R!Free.awaited
<1>1. R!Free.kind = "none" /\ ~ R!Free.awaited
  BY DEF R!Free
<1>2. \A r \in RoomPosts : r.kind # "none"
  BY DEF RoomPosts, R!Kinds
<1> QED
  BY <1>1, <1>2, RoomTypes

(* How the requests change in one step.                                    *)
Posted == \E q \in Requests, kind \in R!Kinds, p \in R!People,
             what \in {R!Plain} \cup [message : R!Messages] \cup [minutes : Extra] \cup [ask : 1..scene.asks] :
  /\ R!Post(q, p, kind, what)
  /\ kind = "create" => p = Host
  /\ kind = "join" => p \in Joiners
  /\ kind = "message" => what \in [message : R!Messages]
  /\ kind = "extend" => what \in [minutes : Extra]
  /\ kind \in {"approve", "reject"} => what \in [ask : 1..scene.asks]
  /\ kind = "create" \/ tab[p].in = "in" \/ tab[Host].in # "out"
Ended(q) == posts' = [posts EXCEPT ![q] = R!Free]

LEMMA Posting ==
  ASSUME R!TypeOK,
         \E q \in Requests :
           \/ R!EnterCreate(q)
           \/ \E p \in R!People :
                \/ R!EnterJoin(q, p) \/ R!EndRoom(q, p)
                \/ \E i \in DOMAIN asked : R!ApproveTime(q, p, i) \/ R!DeclineTime(q, p, i)
                \/ \E m \in R!Messages : R!Send(q, p, m)
                \/ \E n \in Extra : R!AskForTime(q, p, n)
  PROVE  Posted
<1>1. PICK q \in Requests :
           \/ R!EnterCreate(q)
           \/ \E p \in R!People :
                \/ R!EnterJoin(q, p) \/ R!EndRoom(q, p)
                \/ \E i \in DOMAIN asked : R!ApproveTime(q, p, i) \/ R!DeclineTime(q, p, i)
                \/ \E m \in R!Messages : R!Send(q, p, m)
                \/ \E n \in Extra : R!AskForTime(q, p, n)
  OBVIOUS
<1>2. CASE R!EnterCreate(q)
  <2>1. Host \in R!People
    BY DEF R!People
  <2> QED
    BY <1>2, <2>1 DEF R!EnterCreate, Posted, R!Kinds
<1>3. ASSUME NEW p \in R!People, R!EnterJoin(q, p) PROVE Posted
  <2>1. p \in Joiners
    BY <1>3 DEF R!EnterJoin, R!People
  <2> QED
    BY <1>3, <2>1 DEF R!EnterJoin, Posted, R!Kinds
<1>4. ASSUME NEW p \in R!People, R!EndRoom(q, p) PROVE Posted
  BY <1>4 DEF R!EndRoom, Posted, R!Kinds
<1>5. ASSUME NEW p \in R!People, NEW i \in DOMAIN asked, R!ApproveTime(q, p, i) \/ R!DeclineTime(q, p, i)
      PROVE  Posted
  <2>1. i \in 1..scene.asks
    <3>1. DOMAIN asked = 1..Len(asked) /\ Len(asked) \in Nat /\ Len(asked) <= scene.asks
      BY RoomTypes, LenProperties
    <3> QED
      BY <3>1, SceneFacts
  <2>2. [ask |-> i] \in [ask : 1..scene.asks]
    BY <2>1
  <2> DEFINE what == [ask |-> i]
  <2>3. tab[p].in = "in" /\ (R!Post(q, p, "approve", what) \/ R!Post(q, p, "reject", what))
    BY <1>5 DEF R!ApproveTime, R!DeclineTime
  <2> HIDE DEF what
  <2> QED
    BY <2>2, <2>3 DEF Posted, R!Kinds, what
<1>6. ASSUME NEW p \in R!People, NEW m \in R!Messages, R!Send(q, p, m) PROVE Posted
  <2> DEFINE what == [message |-> m]
  <2>1. tab[p].in = "in" /\ R!Post(q, p, "message", what) /\ what \in [message : R!Messages]
    BY <1>6 DEF R!Send
  <2> HIDE DEF what
  <2> QED
    BY <2>1 DEF Posted, R!Kinds
<1>7. ASSUME NEW p \in R!People, NEW n \in Extra, R!AskForTime(q, p, n) PROVE Posted
  <2> DEFINE what == [minutes |-> n]
  <2>1. tab[p].in = "in" /\ R!Post(q, p, "extend", what) /\ what \in [minutes : Extra]
    BY <1>7 DEF R!AskForTime
  <2> HIDE DEF what
  <2> QED
    BY <2>1 DEF Posted, R!Kinds
<1> QED
  BY <1>1, <1>2, <1>3, <1>4, <1>5, <1>6, <1>7

(* What may have happened to the requests.                                 *)
PostMoves ==
  \/ Posted \/ UNCHANGED posts
  \/ \E q \in Requests : Ended(q) \/ R!GiveUp(q)

LEMMA PostMove ==
  ASSUME R!TypeOK, PostInv, PostMoves, scene' = scene
  PROVE  PostInv' /\ posts' \in [Requests -> {R!Free} \cup RoomPosts]
<1>1. posts \in [Requests -> {R!Free} \cup RoomPosts]
  BY RoomTypes
<1>2. CASE UNCHANGED posts
  BY <1>1, <1>2 DEF PostInv
<1>3. ASSUME NEW q \in Requests, Ended(q) PROVE PostInv' /\ posts' \in [Requests -> {R!Free} \cup RoomPosts]
  <2>1. R!Free.kind = "none"
    BY DEF R!Free
  <2> QED
    BY <1>1, <1>3, <2>1 DEF PostInv, Ended
<1>4. ASSUME NEW q \in Requests, R!GiveUp(q) PROVE PostInv' /\ posts' \in [Requests -> {R!Free} \cup RoomPosts]
  <2> DEFINE r == [posts[q] EXCEPT !.awaited = FALSE]
  <2>1. posts' = [posts EXCEPT ![q] = r] /\ posts[q] \in RoomPosts
    BY <1>4, PostFacts DEF R!GiveUp
  <2>2. r \in RoomPosts /\ r.kind = posts[q].kind /\ r.by = posts[q].by /\ r.what = posts[q].what
    BY <2>1 DEF RoomPosts
  <2> HIDE DEF r
  <2> QED
    BY <1>1, <1>4, <2>1, <2>2 DEF PostInv
<1>5. CASE Posted
  <2>1. PICK q \in Requests, kind \in R!Kinds, p \in R!People,
             what \in {R!Plain} \cup [message : R!Messages] \cup [minutes : Extra] \cup [ask : 1..scene.asks] :
          /\ R!Post(q, p, kind, what)
          /\ kind = "create" => p = Host
          /\ kind = "join" => p \in Joiners
          /\ kind = "message" => what \in [message : R!Messages]
          /\ kind = "extend" => what \in [minutes : Extra]
          /\ kind \in {"approve", "reject"} => what \in [ask : 1..scene.asks]
    BY <1>5 DEF Posted
  <2> DEFINE r == [kind |-> kind, by |-> p, what |-> what, awaited |-> TRUE]
  <2>2. r \in RoomPosts /\ r.kind = kind /\ r.by = p /\ r.what = what
    BY DEF RoomPosts
  <2>3. posts' = [posts EXCEPT ![q] = r]
    BY <2>1 DEF R!Post
  <2> HIDE DEF r
  <2> QED
    BY <1>1, <2>1, <2>2, <2>3 DEF PostInv
<1> QED
  BY <1>2, <1>3, <1>4, <1>5 DEF PostMoves

-----------------------------------------------------------------------------
(* The room, its messages, and what was added to its life                  *)

AskRows == [by : R!People, minutes : Extra]
Arranged ==
  /\ room \in {R!Absent, R!Gone} \cup OpenRows
  /\ log \in Seq(R!Messages) /\ (~ room.open => log = <<>>)
  /\ asked \in Seq(AskRows) /\ Len(asked) <= scene.asks
  /\ acked \subseteq R!Messages /\ granted \in Seq(Grants)
  /\ R!SentOnce /\ R!LifeIsConsented /\ GrantInv

LEMMA ArrangedFacts ==
  ASSUME Arranged
  PROVE  /\ DOMAIN asked = 1..Len(asked) /\ Len(asked) \in Nat
         /\ DOMAIN granted = 1..Len(granted) /\ Len(granted) \in Nat
         /\ \A i \in DOMAIN granted : granted[i] \in Grants
         /\ \A i \in DOMAIN asked : asked[i] \in AskRows
         /\ \A i \in 0..Len(granted) : R!Until(i) \in 0..MaxLife
         /\ room.open => /\ room \in OpenRows /\ room.age + room.left <= MaxLife
<1>1. /\ DOMAIN asked = 1..Len(asked) /\ Len(asked) \in Nat
      /\ DOMAIN granted = 1..Len(granted) /\ Len(granted) \in Nat
  BY LenProperties DEF Arranged
<1>2. /\ \A i \in DOMAIN granted : granted[i] \in Grants
      /\ \A i \in DOMAIN asked : asked[i] \in AskRows
  BY <1>1, ElementOfSeq DEF Arranged
<1>3. \A i \in 0..Len(granted) : R!Until(i) \in 0..MaxLife
  <2>1. Life \in 0..MaxLife
    BY RoomsAssumption
  <2>2. \A i \in 0..Len(granted) : i = 0 \/ i \in DOMAIN granted
    BY <1>1
  <2>3. \A g \in Grants : g.until \in 0..MaxLife
    BY DEF Grants
  <2> QED
    BY <1>2, <2>1, <2>2, <2>3 DEF R!Until
<1>4. room.open => room \in OpenRows
  <2>1. ~ R!Absent.open /\ ~ R!Gone.open
    BY DEF R!Absent, R!Gone
  <2> QED
    BY <2>1 DEF Arranged
<1>5. room.open => room.age + room.left <= MaxLife
  <2>1. R!Until(Len(granted)) \in 0..MaxLife
    BY <1>1, <1>3
  <2>2. room.open => room.age + room.left = R!Until(Len(granted))
    BY DEF Arranged, R!LifeIsConsented
  <2> QED
    BY <2>1, <2>2, RoomsAssumption
<1> QED
  BY <1>1, <1>2, <1>3, <1>4, <1>5

LEMMA ArrangedSame ==
  ASSUME Arranged, scene' = scene, UNCHANGED <<room, log, asked, acked, granted>>
  PROVE  Arranged'
  BY DEF Arranged, OpenRows, Grants, R!SentOnce, R!LifeIsConsented, R!Until, GrantInv

(* A room that is made, or that goes.                                      *)
LEMMA MadeOrGone ==
  ASSUME Arranged, scene' = scene, granted' = <<>>, log' = <<>>, acked' = {},
         asked' \in Seq(AskRows), Len(asked') <= scene.asks,
         room' \in {R!Gone, [open |-> TRUE, age |-> 0, left |-> Life, guest |-> Nobody, ask |-> R!NoAsk]}
  PROVE  Arranged'
<1>1. /\ granted' \in Seq(Grants) /\ Len(granted') = 0 /\ DOMAIN granted' = {}
      /\ log' \in Seq(R!Messages) /\ DOMAIN log' = {}
  <2>1. /\ <<>> \in Seq(Grants) /\ <<>> \in Seq(R!Messages) /\ Len(<<>>) = 0
    BY EmptySeq
  <2>2. DOMAIN <<>> = 1..0
    BY <2>1, LenProperties
  <2> QED
    BY <2>1, <2>2
<1>2. room' \in {R!Gone} \cup OpenRows' /\ (room'.open => room'.age + room'.left = Life)
  <2>1. 0 \in 0..MaxLife /\ Life \in 0..MaxLife /\ 0 + Life = Life
    BY RoomsAssumption
  <2>2. CASE room' = R!Gone
    BY <2>2 DEF R!Gone
  <2>3. CASE room' = [open |-> TRUE, age |-> 0, left |-> Life, guest |-> Nobody, ask |-> R!NoAsk]
    BY <2>1, <2>3 DEF OpenRows
  <2> QED
    BY <2>2, <2>3
<1>3. R!SentOnce'
  BY <1>1 DEF R!SentOnce, R!IsInjective
<1>4. R!LifeIsConsented' /\ GrantInv'
  BY <1>1, <1>2 DEF R!LifeIsConsented, R!Until, GrantInv
<1>5. Grants' = Grants /\ (Seq(Grants))' = Seq(Grants)
  BY DEF Grants
<1> QED
  BY <1>1, <1>2, <1>3, <1>4, <1>5 DEF Arranged

(* A row that changes without a word about its end.                        *)
LEMMA RowChanges ==
  ASSUME Arranged, scene' = scene, UNCHANGED <<asked, granted>>, room.open, room' \in OpenRows,
         room'.age + room'.left = room.age + room.left,
         room'.ask \in {room.ask, R!NoAsk}, log' \in Seq(R!Messages), acked' \subseteq R!Messages, R!SentOnce'
  PROVE  Arranged'
<1>1. room'.open /\ OpenRows' = OpenRows /\ Grants' = Grants
  BY DEF OpenRows, Grants
<1>2. R!LifeIsConsented'
  BY <1>1 DEF Arranged, R!LifeIsConsented, R!Until
<1>3. GrantInv'
  <2>1. ASSUME NEW i \in DOMAIN granted PROVE granted[i].ask \in DOMAIN asked /\ granted[i].ask # R!NoAsk
    BY <2>1, ArrangedFacts DEF Arranged, GrantInv, R!NoAsk
  <2> QED
    BY <1>1, <2>1 DEF Arranged, GrantInv
<1> QED
  BY <1>1, <1>2, <1>3 DEF Arranged

LEMMA ExtensionAsked ==
  ASSUME Arranged, scene' = scene, UNCHANGED <<granted, log, acked>>, room.open,
         scene.asks \in Nat, Len(asked) < scene.asks,
         NEW a \in AskRows, asked' = Append(asked, a), room' = [room EXCEPT !.ask = Len(asked')]
  PROVE  Arranged'
<1>1. /\ asked' \in Seq(AskRows) /\ Len(asked') = Len(asked) + 1 /\ DOMAIN asked' = 1..(Len(asked) + 1)
      /\ \A i \in DOMAIN asked : asked'[i] = asked[i] /\ i \in DOMAIN asked' /\ i # Len(asked')
  <2>1. /\ asked' \in Seq(AskRows) /\ Len(asked') = Len(asked) + 1
        /\ \A i \in 1..Len(asked) : asked'[i] = asked[i]
    BY AppendProperties DEF Arranged
  <2>2. DOMAIN asked' = 1..Len(asked')
    BY <2>1, LenProperties
  <2> QED
    BY <2>1, <2>2, ArrangedFacts
<1>2. /\ room' \in OpenRows' /\ room'.open /\ room'.age = room.age /\ room'.left = room.left
      /\ room'.ask = Len(asked')
  <2>1. room \in OpenRows /\ Len(asked') \in DOMAIN asked'
    BY <1>1, ArrangedFacts
  <2> QED
    BY <2>1 DEF OpenRows
<1>3. \A i \in DOMAIN granted : granted[i].ask \in DOMAIN asked
  BY DEF Arranged, GrantInv
<1>4. R!LifeIsConsented'
  <2>1. \A i \in DOMAIN granted : asked'[granted[i].ask] = asked[granted[i].ask]
    BY <1>1, <1>3
  <2>2. granted' = granted /\ (\A i : R!Until(i)' = R!Until(i)) /\ R!LifeIsConsented
    BY DEF R!Until, Arranged
  <2>3. ASSUME NEW i \in DOMAIN granted'
        PROVE  /\ granted'[i].by # asked'[granted'[i].ask].by
               /\ R!Until(i)' = R!Min({MaxLife, R!Until(i - 1)' + asked'[granted'[i].ask].minutes})
    <3>1. i \in DOMAIN granted /\ granted'[i] = granted[i]
      BY <2>2
    <3>2. asked'[granted'[i].ask] = asked[granted[i].ask]
      BY <2>1, <3>1
    <3>3. R!Until(i)' = R!Until(i) /\ R!Until(i - 1)' = R!Until(i - 1)
      BY <2>2
    <3> QED
      BY <2>2, <3>1, <3>2, <3>3 DEF R!LifeIsConsented
  <2>4. \A i, j \in DOMAIN granted' : granted'[i].ask = granted'[j].ask => i = j
    BY <2>2 DEF R!LifeIsConsented
  <2>5. room'.age + room'.left = R!Until(Len(granted))'
    BY <1>2, <2>2 DEF R!LifeIsConsented
  <2> QED
    BY <2>3, <2>4, <2>5 DEF R!LifeIsConsented
<1>5. GrantInv'
  BY <1>1, <1>2, <1>3 DEF GrantInv
<1>6. Len(asked') <= scene.asks
  BY <1>1, ArrangedFacts
<1>7. Grants' = Grants /\ R!SentOnce' /\ (~ room'.open => log' = <<>>)
  BY <1>2 DEF Arranged, Grants, R!SentOnce
<1> QED
  BY <1>1, <1>2, <1>4, <1>5, <1>6, <1>7 DEF Arranged

LEMMA ExtensionAdded ==
  ASSUME Arranged, scene' = scene, UNCHANGED <<asked, log, acked>>, room.open,
         NEW p \in R!People, room.ask \in DOMAIN asked, room.ask \in 1..scene.asks,
         asked[room.ask].by # p,
         room' = [room EXCEPT !.ask = R!NoAsk,
                              !.left = R!Min({@ + asked[room.ask].minutes, MaxLife - room.age})],
         granted' = Append(granted, [ask |-> room.ask, by |-> p, until |-> room'.age + room'.left])
  PROVE  Arranged'
<1> DEFINE minutes == asked[room.ask].minutes
           until == room'.age + room'.left
           g == [ask |-> room.ask, by |-> p, until |-> until]
           left == R!Min({room.left + minutes, MaxLife - room.age})
<1>1. /\ room \in OpenRows /\ room.age \in Nat /\ room.left \in Nat /\ room.age <= MaxLife
      /\ room.age + room.left <= MaxLife /\ MaxLife \in Nat /\ minutes \in Nat
      /\ asked[room.ask] \in AskRows
  <2>1. room \in OpenRows /\ asked[room.ask] \in AskRows /\ room.age + room.left <= MaxLife
    BY ArrangedFacts
  <2>2. minutes \in Nat
    BY <2>1, RoomsAssumption DEF AskRows
  <2>3. MaxLife \in Nat /\ room.age \in 0..MaxLife /\ room.left \in 0..MaxLife
    BY <2>1, RoomsAssumption DEF OpenRows
  <2> HIDE DEF minutes
  <2> QED
    BY <2>1, <2>2, <2>3
<1>2. left \in 0..MaxLife /\ room.age + left = R!Min({MaxLife, (room.age + room.left) + minutes})
  <2> DEFINE total == (room.age + room.left) + minutes
  <2>1. /\ room.age \in Int /\ room.left \in Int /\ minutes \in Int /\ MaxLife \in Int
        /\ 0 <= room.age /\ 0 <= room.left /\ 0 <= minutes /\ room.age + room.left <= MaxLife
    BY <1>1
  <2> HIDE DEF minutes
  <2>2. /\ room.left + minutes \in Int /\ MaxLife - room.age \in Int /\ total \in Int
    BY <2>1
  <2>3. left = IF room.left + minutes <= MaxLife - room.age
               THEN room.left + minutes ELSE MaxLife - room.age
    BY <2>2, MinOfTwo
  <2>4. R!Min({MaxLife, total}) = IF MaxLife <= total THEN MaxLife ELSE total
    BY <2>1, <2>2, MinOfTwo
  <2> HIDE DEF left
  <2>5. CASE room.left + minutes <= MaxLife - room.age
    <3>1. left = room.left + minutes /\ total <= MaxLife
      BY ONLY <2>1, <2>3, <2>5
    <3>2. R!Min({MaxLife, total}) = total
      BY ONLY <2>1, <2>2, <2>4, <3>1
    <3> QED
      BY ONLY <2>1, <3>1, <3>2
  <2>6. CASE ~ (room.left + minutes <= MaxLife - room.age)
    <3>1. left = MaxLife - room.age /\ MaxLife <= total
      BY ONLY <2>1, <2>3, <2>6
    <3>2. R!Min({MaxLife, total}) = MaxLife
      BY ONLY <2>4, <3>1
    <3> QED
      BY ONLY <2>1, <3>1, <3>2
  <2> QED
    BY <2>5, <2>6
<1>3. room' = [room EXCEPT !.ask = R!NoAsk, !.left = left]
  OBVIOUS
<1> HIDE DEF left
<1>4. /\ room' \in OpenRows /\ room'.open /\ room'.ask = R!NoAsk
      /\ room'.age = room.age /\ room'.left = left
  BY <1>1, <1>2, <1>3 DEF OpenRows
<1>5. until = R!Min({MaxLife, R!Until(Len(granted)) + minutes}) /\ until \in 0..MaxLife
  <2>1. room.age + room.left = R!Until(Len(granted))
    BY DEF Arranged, R!LifeIsConsented
  <2>2. until = R!Min({MaxLife, R!Until(Len(granted)) + minutes})
    BY <1>2, <1>4, <2>1
  <2>3. until \in 0..MaxLife
    <3> HIDE DEF minutes
    <3>1. room.age + room.left + minutes \in Int /\ MaxLife \in Int
      BY <1>1
    <3>2. R!Min({MaxLife, (room.age + room.left) + minutes}) =
            IF MaxLife <= (room.age + room.left) + minutes THEN MaxLife
            ELSE (room.age + room.left) + minutes
      BY <3>1, MinOfTwo
    <3> QED
      BY <1>1, <1>2, <1>4, <3>2
  <2> QED
    BY <2>2, <2>3
<1>6. g \in Grants /\ granted' = Append(granted, g)
  BY <1>5 DEF Grants
<1>7. g.by # asked[g.ask].by /\ g.until = until /\ g.ask = room.ask /\ g.ask \in DOMAIN asked
  OBVIOUS
<1> HIDE DEF g, until
<1>0. PICK n \in Nat : n = Len(granted)
  BY ArrangedFacts
<1>8. /\ granted' \in Seq(Grants) /\ Len(granted') = n + 1 /\ n \in Nat
      /\ \A i \in 1..n : granted'[i] = granted[i]
      /\ granted'[n + 1] = g
      /\ DOMAIN granted' = 1..(n + 1) /\ DOMAIN granted = 1..n
  <2>1. granted \in Seq(Grants)
    BY DEF Arranged
  <2>2. /\ granted' \in Seq(Grants) /\ Len(granted') = n + 1
        /\ \A i \in 1..n : granted'[i] = granted[i] 
        /\ granted'[n + 1] = g
    <3>1. /\ Append(granted, g) \in Seq(Grants) /\ Len(Append(granted, g)) = Len(granted) + 1
          /\ \A i \in 1..Len(granted) : Append(granted, g)[i] = granted[i]
          /\ Append(granted, g)[Len(granted) + 1] = g
      BY <1>6, <2>1, AppendProperties
    <3> QED
      BY <1>0, <1>6, <3>1
  <2> QED
    BY <1>0, <2>1, <2>2, LenProperties
<1>9. /\ \A i \in 0..n : R!Until(i)' = R!Until(i)
      /\ R!Until(n + 1)' = until
  <2>1. ASSUME NEW i \in 0..n PROVE R!Until(i)' = R!Until(i)
    <3>1. i = 0 \/ i \in 1..n
      BY <1>8
    <3> QED
      BY <1>8, <3>1 DEF R!Until
  <2>2. n + 1 # 0
    BY <1>8
  <2> QED
    BY <1>7, <1>8, <2>1, <2>2 DEF R!Until
<1>10. ASSUME NEW i \in 1..(n + 1)
       PROVE  /\ granted'[i].by # asked'[granted'[i].ask].by
              /\ R!Until(i)' = R!Min({MaxLife, R!Until(i - 1)' + asked'[granted'[i].ask].minutes})
              /\ granted'[i].ask \in DOMAIN asked /\ granted'[i].ask # R!NoAsk
  <2>1. CASE i \in 1..n
    <3>1. i \in DOMAIN granted /\ i \in 0..n /\ i - 1 \in 0..n
      BY <1>8, <2>1
    <3>2. /\ granted[i].by # asked[granted[i].ask].by
          /\ R!Until(i) = R!Min({MaxLife, R!Until(i - 1) + asked[granted[i].ask].minutes})
          /\ granted[i].ask \in DOMAIN asked
      BY <3>1 DEF Arranged, R!LifeIsConsented, GrantInv
    <3>3. granted[i].ask # R!NoAsk
      BY <3>2, ArrangedFacts DEF R!NoAsk
    <3> QED
      BY <1>8, <1>9, <2>1, <3>1, <3>2, <3>3
  <2>2. CASE i = n + 1
    <3>1. i - 1 = n /\ n \in 0..n
      BY <1>8, <2>2
    <3>2. g.ask # R!NoAsk
      BY <1>7, ArrangedFacts DEF R!NoAsk
    <3> QED
      BY <1>0, <1>5, <1>7, <1>8, <1>9, <2>2, <3>1, <3>2
  <2>3. i \in 1..n \/ i = n + 1
    BY <1>0
  <2> QED
    BY <2>1, <2>2, <2>3
<1>11. ASSUME NEW i \in 1..(n + 1), NEW j \in 1..(n + 1), granted'[i].ask = granted'[j].ask
       PROVE  i = j
  <2>1. \A k \in 1..n : granted[k].ask # g.ask
    BY <1>7, <1>8 DEF Arranged, GrantInv
  <2>2. \A k, m \in 1..n : granted[k].ask = granted[m].ask => k = m
    BY <1>8 DEF Arranged, R!LifeIsConsented
  <2>3. (i \in 1..n \/ i = n + 1) /\ (j \in 1..n \/ j = n + 1)
    BY <1>0
  <2>4. CASE i \in 1..n /\ j \in 1..n
    BY <1>8, <1>11, <2>2, <2>4
  <2>5. CASE i = n + 1 /\ j \in 1..n
    BY <1>8, <1>11, <2>1, <2>5
  <2>6. CASE i \in 1..n /\ j = n + 1
    BY <1>8, <1>11, <2>1, <2>6
  <2> QED
    BY <2>3, <2>4, <2>5, <2>6
<1>12. room'.age + room'.left = R!Until(Len(granted))'
  BY <1>8, <1>9 DEF until
<1>13. R!LifeIsConsented'
  <2>1. DOMAIN granted' = 1..(n + 1)
    BY <1>8
  <2>2. \A i \in DOMAIN granted' :
          /\ granted'[i].by # asked'[granted'[i].ask].by
          /\ R!Until(i)' = R!Min({MaxLife, R!Until(i - 1)' + asked'[granted'[i].ask].minutes})
    <3> HIDE DEF minutes
    <3> QED
      BY <1>10, <2>1
  <2>3. \A i, j \in DOMAIN granted' : granted'[i].ask = granted'[j].ask => i = j
    BY <1>11, <2>1
  <2> QED
    BY <1>12, <2>2, <2>3 DEF R!LifeIsConsented
<1>14. GrantInv'
  <2>1. DOMAIN granted' = 1..(n + 1) /\ asked' = asked /\ room'.ask = R!NoAsk /\ room'.open
    BY <1>4, <1>8
  <2>2. \A i \in 1..(n + 1) : granted'[i].ask \in DOMAIN asked /\ granted'[i].ask # R!NoAsk
    BY <1>10
  <2> QED
    BY <2>1, <2>2 DEF GrantInv
<1>15. OpenRows' = OpenRows /\ Grants' = Grants
  BY DEF OpenRows, Grants
<1> QED
  BY <1>4, <1>8, <1>13, <1>14, <1>15 DEF Arranged, R!SentOnce

-----------------------------------------------------------------------------
(* The steps, as they change the requests and the room                     *)

LEMMA ArrangedIs ==
  R!TypeOK /\ R!SentOnce /\ R!LifeIsConsented /\ GrantInv <=>
    /\ Arranged /\ scene \in Scenes
    /\ posts \in [Requests -> {R!Free} \cup RoomPosts] /\ tab \in [R!People -> TabRows]
  BY RoomTypes DEF Arranged, AskRows

Serves(q) ==
  \/ R!CreateTemporaryRoom(q) \/ R!RecreateTemporaryRoom(q) \/ R!JoinTemporaryRoom(q)
  \/ R!Message(q) \/ R!Extend(q) \/ R!Approve(q) \/ R!Reject(q) \/ R!End(q) \/ R!ToldGone(q)
Browses(p) ==
  \/ R!ReadTemporaryRoom(p) \/ R!ReadGone(p) \/ R!ReadFails(p) \/ R!Receive(p)
  \/ R!Connect(p) \/ R!Disconnect(p) \/ R!Look(p) \/ R!Fallback(p)
  \/ R!Hide(p) \/ R!Resume(p) \/ R!CountedDown(p)

LEMMA Cases ==
  ASSUME R!TypeOK, R!Step
  PROVE  \/ Posted
         \/ \E q \in Requests : Serves(q) \/ R!GiveUp(q) \/ R!Lost(q)
         \/ \E p \in R!People : Browses(p)
         \/ R!CleanupTemporaryRooms \/ R!Tick
<1> USE DEF Serves, Browses
<1>1. CASE \E q \in Requests :
           \/ R!EnterCreate(q)
           \/ \E p \in R!People :
                \/ R!EnterJoin(q, p) \/ R!EndRoom(q, p)
                \/ \E i \in DOMAIN asked : R!ApproveTime(q, p, i) \/ R!DeclineTime(q, p, i)
                \/ \E m \in R!Messages : R!Send(q, p, m)
                \/ \E n \in Extra : R!AskForTime(q, p, n)
  BY <1>1, Posting
<1> QED
  BY <1>1 DEF R!Step

LEMMA ServesEnds == ASSUME NEW q \in Requests, Serves(q) PROVE Ended(q) /\ posts[q].kind # "none"
  BY DEF Serves, R!CreateTemporaryRoom, R!RecreateTemporaryRoom, R!JoinTemporaryRoom, R!Message, R!Extend,
         R!Approve, R!Reject, R!End, R!ToldGone, R!Ok, R!Refused, R!RefusedAndRetired, R!Acts, Ended

LEMMA BrowsesLeaves ==
  ASSUME NEW p \in R!People, Browses(p)
  PROVE  UNCHANGED <<posts, room, log, asked, acked, granted>>
  BY DEF Browses, R!ReadTemporaryRoom, R!ReadGone, R!ReadFails, R!Receive, R!Connect, R!Disconnect, R!Look,
         R!Fallback, R!Hide, R!Resume, R!CountedDown, R!Steps, R!history

LEMMA AnyPostMove == ASSUME R!TypeOK, R!Step PROVE PostMoves
<1>1. ASSUME NEW q \in Requests, Serves(q) PROVE PostMoves
  BY <1>1, ServesEnds DEF PostMoves
<1>2. ASSUME NEW q \in Requests, R!Lost(q) PROVE PostMoves
  BY <1>2 DEF PostMoves, R!Lost, Ended
<1>3. ASSUME NEW q \in Requests, R!GiveUp(q) PROVE PostMoves
  BY <1>3 DEF PostMoves
<1>4. ASSUME NEW p \in R!People, Browses(p) PROVE PostMoves
  BY <1>4, BrowsesLeaves DEF PostMoves
<1>5. CASE R!CleanupTemporaryRooms \/ R!Tick
  BY <1>5 DEF R!CleanupTemporaryRooms, R!Tick, PostMoves
<1> QED
  BY <1>1, <1>2, <1>3, <1>4, <1>5, Cases DEF PostMoves

LEMMA ServerArranges ==
  ASSUME R!TypeOK, PostInv, Arranged, scene' = scene, NEW q \in Requests, Serves(q)
  PROVE  Arranged'
<1> DEFINE p == posts[q].by
<1>1. CASE R!CreateTemporaryRoom(q)
  <2>1. ~ room.open
    BY <1>1 DEF R!CreateTemporaryRoom, R!Absent
  <2>2. granted = <<>> /\ log = <<>>
    BY <2>1 DEF Arranged, GrantInv
  <2>3. acked = {}
    <3>1. <<>> \in Seq(R!Messages) /\ Len(<<>>) = 0
      BY EmptySeq
    <3>2. DOMAIN <<>> = 1..0
      BY <3>1, LenProperties
    <3>3. R!Range(log) = {}
      BY <2>2, <3>2 DEF R!Range
    <3> QED
      BY <3>3 DEF Arranged, R!SentOnce
  <2> QED
    BY <1>1, <2>2, <2>3, MadeOrGone DEF R!CreateTemporaryRoom, R!history, Arranged
<1>2. CASE R!RecreateTemporaryRoom(q) \/ R!ToldGone(q)
  BY <1>2, ArrangedSame DEF R!RecreateTemporaryRoom, R!ToldGone, R!history
<1>3. CASE R!JoinTemporaryRoom(q)
  <2>1. UNCHANGED <<log, asked, acked, granted>>
    BY <1>3 DEF R!JoinTemporaryRoom, R!history
  <2>2. CASE UNCHANGED room
    BY <2>1, <2>2, ArrangedSame
  <2>3. CASE ~ UNCHANGED room
    <3>1. room.open /\ room' = [room EXCEPT !.guest = p] /\ p \in Joiners
      BY <1>3, <2>3 DEF R!JoinTemporaryRoom, R!Open, PostInv
    <3>2. room \in OpenRows
      BY <3>1, ArrangedFacts
    <3>3. /\ room' \in OpenRows /\ room'.age = room.age /\ room'.left = room.left
          /\ room'.ask = room.ask
      BY <3>1, <3>2 DEF OpenRows
    <3> QED
      BY <2>1, <3>1, <3>3, RowChanges DEF Arranged, R!SentOnce
  <2> QED
    BY <2>2, <2>3
<1>4. CASE R!Message(q)
  <2> DEFINE m == posts[q].what.message
  <2>1. /\ room.open /\ m \in R!Messages /\ room \in OpenRows
    BY <1>4, ArrangedFacts DEF R!Message, R!Acts, R!Open, PostInv
  <2>2. CASE UNCHANGED <<log, acked>>
    BY <1>4, <2>2, ArrangedSame DEF R!Message
  <2>3. CASE ~ UNCHANGED <<log, acked>>
    <3>1. /\ log' = IF m \in R!Range(log) THEN log ELSE Append(log, m)
          /\ acked' \in {acked, acked \cup {m}}
          /\ UNCHANGED <<room, asked, granted>>
      BY <1>4, <2>3 DEF R!Message
    <3> HIDE DEF m
    <3>2. /\ log' \in Seq(R!Messages) /\ R!Range(log') = R!Range(log) \cup {m}
          /\ R!IsInjective(log')
      <4>1. log \in Seq(R!Messages) /\ R!IsInjective(log)
        BY DEF Arranged, R!SentOnce
      <4>2. CASE m \in R!Range(log)
        BY <3>1, <4>1, <4>2
      <4>3. CASE m \notin R!Range(log)
        BY <2>1, <3>1, <4>1, <4>3, OneMore
      <4> QED
        BY <4>2, <4>3
    <3>3. R!SentOnce' /\ acked' \subseteq R!Messages
      BY <2>1, <3>1, <3>2 DEF Arranged, R!SentOnce
    <3>4. room' = room
      BY <3>1
    <3> QED
      BY <2>1, <3>1, <3>2, <3>3, <3>4, RowChanges
  <2> QED
    BY <2>2, <2>3
<1>5. CASE R!Extend(q)
  <2> DEFINE a == [by |-> p, minutes |-> posts[q].what.minutes]
  <2>1. /\ room.open /\ Len(asked) < scene.asks /\ asked' = Append(asked, a)
        /\ room' = [room EXCEPT !.ask = Len(asked')] /\ UNCHANGED <<granted, log, acked>>
    BY <1>5 DEF R!Extend, R!Acts, R!Open, R!history
  <2>2. a \in AskRows
    <3>1. posts[q].what \in [minutes : Extra] /\ posts[q] \in RoomPosts
      BY <1>5, PostFacts DEF R!Extend, R!Acts, PostInv
    <3> QED
      BY <3>1 DEF AskRows, RoomPosts
  <2> HIDE DEF a
  <2> QED
    BY <2>1, <2>2, ExtensionAsked, SceneFacts
<1>6. CASE R!Approve(q)
  <2>1. CASE UNCHANGED <<room, granted>>
    BY <1>6, <2>1, ArrangedSame DEF R!Approve
  <2>2. CASE ~ UNCHANGED <<room, granted>>
    <3>1. posts[q].what \in [ask : 1..scene.asks] /\ posts[q] \in RoomPosts
      BY <1>6, PostFacts DEF R!Approve, R!Acts, PostInv
    <3>2. /\ room.open /\ room.ask = posts[q].what.ask /\ asked[room.ask].by # p
          /\ UNCHANGED <<asked, log, acked>>
          /\ room' = [room EXCEPT !.ask = R!NoAsk,
                                  !.left = R!Min({@ + asked[room.ask].minutes, MaxLife - room.age})]
          /\ granted' = Append(granted,
               [ask |-> room.ask, by |-> p, until |-> room'.age + room'.left])
      BY <1>6, <2>2 DEF R!Approve, R!Acts, R!Open, R!Matches
    <3>3. room.ask \in 1..scene.asks /\ p \in R!People
      BY <3>1, <3>2 DEF RoomPosts
    <3>4. room.ask \in DOMAIN asked
      <4>1. room.ask \in DOMAIN asked \cup {R!NoAsk}
        BY <3>2, ArrangedFacts DEF OpenRows
      <4> QED
        BY <3>3, <4>1 DEF R!NoAsk
    <3> HIDE DEF p
    <3> QED
      BY <3>2, <3>3, <3>4, ExtensionAdded
  <2> QED
    BY <2>1, <2>2
<1>7. CASE R!Reject(q)
  <2>1. UNCHANGED <<log, asked, acked, granted>>
    BY <1>7 DEF R!Reject, R!history
  <2>2. CASE UNCHANGED room
    BY <2>1, <2>2, ArrangedSame
  <2>3. CASE ~ UNCHANGED room
    <3>1. room.open /\ room' = [room EXCEPT !.ask = R!NoAsk]
      BY <1>7, <2>3 DEF R!Reject, R!Acts, R!Open
    <3>2. room \in OpenRows
      BY <3>1, ArrangedFacts
    <3>3. /\ room' \in OpenRows /\ room'.age = room.age /\ room'.left = room.left
          /\ room'.ask = R!NoAsk
      BY <3>1, <3>2 DEF OpenRows
    <3> QED
      BY <2>1, <3>1, <3>3, RowChanges DEF Arranged, R!SentOnce
  <2> QED
    BY <2>2, <2>3
<1>8. CASE R!End(q)
  <2>1. <<>> \in Seq(AskRows) /\ Len(<<>>) = 0
    BY EmptySeq
  <2>2. /\ room' = R!Gone /\ log' = <<>> /\ asked' = <<>> /\ acked' = {} /\ granted' = <<>>
    BY <1>8 DEF R!End, R!Delete
  <2>3. Len(asked') <= scene.asks
    BY <2>1, <2>2, SceneFacts
  <2> QED
    BY <2>1, <2>2, <2>3, MadeOrGone
<1> QED
  BY <1>1, <1>2, <1>3, <1>4, <1>5, <1>6, <1>7, <1>8 DEF Serves

LEMMA StepArranges ==
  ASSUME R!TypeOK, PostInv, Arranged, scene' = scene, R!Step
  PROVE  Arranged'
<1>1. CASE Posted
  BY <1>1, ArrangedSame DEF Posted, R!Post, R!history
<1>2. ASSUME NEW q \in Requests, R!GiveUp(q) \/ R!Lost(q) PROVE Arranged'
  BY <1>2, ArrangedSame DEF R!GiveUp, R!Lost, R!history
<1>3. ASSUME NEW p \in R!People, Browses(p) PROVE Arranged'
  BY <1>3, BrowsesLeaves, ArrangedSame
<1>4. CASE R!CleanupTemporaryRooms
  <2>1. <<>> \in Seq(AskRows) /\ Len(<<>>) = 0
    BY EmptySeq
  <2>2. /\ room' = R!Gone /\ log' = <<>> /\ asked' = <<>> /\ acked' = {} /\ granted' = <<>>
    BY <1>4 DEF R!CleanupTemporaryRooms, R!Delete
  <2>3. Len(asked') <= scene.asks
    BY <2>1, <2>2, SceneFacts
  <2> QED
    BY <2>1, <2>2, <2>3, MadeOrGone
<1>5. CASE R!Tick
  <2>1. PICK ask \in {room.ask, R!NoAsk} :
          room' = [room EXCEPT !.left = @ - 1, !.age = @ + 1, !.ask = ask]
    BY <1>5 DEF R!Tick
  <2>2. /\ room.open /\ room.left > 0 /\ room \in OpenRows /\ room.age + room.left <= MaxLife
        /\ UNCHANGED <<log, asked, acked, granted>>
    BY <1>5, ArrangedFacts DEF R!Tick, R!Open, R!history
  <2>3. /\ room.left \in 0..MaxLife /\ room.age \in 0..MaxLife /\ MaxLife \in Nat
        /\ ask \in DOMAIN asked \cup {R!NoAsk}
    BY <2>1, <2>2, RoomsAssumption DEF OpenRows
  <2>4. /\ room.left - 1 \in 0..MaxLife /\ room.age + 1 \in 0..MaxLife
        /\ (room.age + 1) + (room.left - 1) = room.age + room.left
    BY <2>2, <2>3
  <2>5. /\ room' \in OpenRows /\ room'.age = room.age + 1 /\ room'.left = room.left - 1
        /\ room'.ask = ask
    BY <2>1, <2>2, <2>3, <2>4 DEF OpenRows
  <2>6. R!SentOnce' /\ log' \in Seq(R!Messages) /\ acked' \subseteq R!Messages
    BY <2>2 DEF Arranged, R!SentOnce
  <2> QED
    BY <2>1, <2>2, <2>4, <2>5, <2>6, RowChanges
<1> QED
  BY <1>1, <1>2, <1>3, <1>4, <1>5, Cases, ServerArranges

-----------------------------------------------------------------------------
(* The steps, as they change the tabs                                      *)

Seated == tab \in [R!People -> TabRows] /\ SeatInv /\ FollowInv

(* What a good answer makes of the tabs, before it is known what the room  *)
(* has become.                                                             *)
LEMMA OkTabs ==
  ASSUME R!TypeOK, PostInv, SeatInv, NEW q \in Requests, posts[q].kind # "none",
         NEW told \in BOOLEAN, R!Ok(q, told), NEW l \in Seq(R!Messages)
  PROVE  /\ tab' \in [R!People -> TabRows]
         /\ \A p \in R!People :
              /\ tab'[p].cursor = Len(tab'[p].shown)
              /\ Follows(tab[p], l) => Follows(tab'[p], l)
              /\ p \in scene.watched =>
                   /\ tab'[p].in = "in" => tab'[p].view # "current"
                   /\ Caught(tab[p], l) \/ told => Caught(tab'[p], l)
              /\ tab'[p].in = "in" =>
                   tab[p].in = "in" \/ (posts[q].by = p /\ posts[q].kind \in {"create", "join"})
<1> DEFINE first(p) == IF told THEN R!Told(tab[p]) ELSE tab[p]
           next(p) == IF posts[q].awaited /\ posts[q].by = p THEN R!Answered(posts[q].kind, p, first(p))
                      ELSE first(p)
<1>1. tab' = [p \in R!People |-> next(p)]
  BY DEF R!Ok
<1>2. ASSUME NEW p \in R!People
      PROVE  /\ next(p) \in TabRows /\ next(p).cursor = Len(next(p).shown)
             /\ Follows(tab[p], l) => Follows(next(p), l)
             /\ p \in scene.watched =>
                  /\ next(p).in = "in" => next(p).view # "current"
                  /\ Caught(tab[p], l) \/ told => Caught(next(p), l)
             /\ next(p).in = "in" =>
                  tab[p].in = "in" \/ (posts[q].by = p /\ posts[q].kind \in {"create", "join"})
  <2>1. /\ tab[p] \in TabRows /\ tab[p].cursor = Len(tab[p].shown)
        /\ p \in scene.watched /\ tab[p].in = "in" => tab[p].view # "current"
    BY RoomTypes DEF SeatInv
  <2>2. /\ first(p) \in TabRows /\ first(p).cursor = Len(first(p).shown)
        /\ first(p).in = tab[p].in /\ first(p).view = tab[p].view
        /\ Follows(tab[p], l) => Follows(first(p), l)
        /\ Caught(tab[p], l) => Caught(first(p), l)
        /\ told /\ tab[p].view # "current" => Caught(first(p), l)
    <3>1. CASE told
      BY <2>1, <3>1, ToldFacts
    <3>2. CASE ~ told
      BY <2>1, <3>2
    <3> QED
      BY <3>1, <3>2
  <2> HIDE DEF first
  <2>3. told /\ p \in scene.watched => Caught(first(p), l)
    BY <2>1, <2>2, Looking
  <2>4. CASE ~ (posts[q].awaited /\ posts[q].by = p)
    BY <2>1, <2>2, <2>3, <2>4
  <2>5. CASE posts[q].awaited /\ posts[q].by = p
    <3>1. CASE posts[q].kind \in {"create", "join"}
      <4>1. next(p) = R!Entered(p)
        BY <2>5, <3>1 DEF R!Answered
      <4>2. Len(<<>>) = 0
        BY EmptySeq
      <4> QED
        BY <2>5, <3>1, <4>1, <4>2, FreshTabs
    <3>2. CASE posts[q].kind = "end"
      <4>1. next(p) = R!Retired
        BY <2>5, <3>2 DEF R!Answered
      <4>2. Len(<<>>) = 0
        BY EmptySeq
      <4>3. R!Retired # R!Entered(p)
        BY DEF R!Retired, R!NoTab, R!Entered
      <4> QED
        BY <2>5, <4>1, <4>2, <4>3, FreshTabs
    <3>3. CASE posts[q].kind \notin {"create", "join", "end"}
      <4>1. next(p) = R!Refresh(first(p))
        BY <2>5, <3>3 DEF R!Answered
      <4>2. /\ R!Refresh(first(p)) \in TabRows
            /\ R!Refresh(first(p)).cursor = Len(R!Refresh(first(p)).shown)
            /\ R!Refresh(first(p)).in = tab[p].in /\ R!Refresh(first(p)).view = tab[p].view
            /\ Follows(tab[p], l) => Follows(R!Refresh(first(p)), l)
            /\ Caught(first(p), l) => Caught(R!Refresh(first(p)), l)
        BY <2>2, RefreshFacts
      <4> QED
        BY <2>1, <2>2, <2>3, <4>1, <4>2
    <3> QED
      BY <3>1, <3>2, <3>3
  <2> QED
    BY <2>4, <2>5
<1> HIDE DEF next
<1> QED
  BY <1>1, <1>2

(* When all tabs stay, or one of them is left, or has something done to it *)
(* that is kept by SeatInv and FollowInv.                                  *)
LEMMA TabsStay ==
  ASSUME R!TypeOK, Seated, scene' = scene, UNCHANGED <<tab, log>>,
         room'.open => room.open /\ room'.guest = room.guest, R!Open' => R!Open
  PROVE  Seated'
  BY DEF Seated, SeatInv, FollowInv

LEMMA OneTab ==
  ASSUME R!TypeOK, Seated, scene' = scene, UNCHANGED <<room, log>>,
         NEW p \in R!People, NEW u \in TabRows, tab' = [tab EXCEPT ![p] = u],
         u.cursor = Len(u.shown), u.in = "in" => tab[p].in = "in",
         p \in scene.watched /\ u.in = "in" => u.view # "current",
         room.open => Follows(u, log),
         p \in scene.watched /\ R!Open => Caught(u, log)
  PROVE  Seated'
<1>1. tab' \in [R!People -> TabRows] /\ tab'[p] = u /\ \A o \in R!People : o # p => tab'[o] = tab[o]
  BY DEF Seated
<1>2. SeatInv'
  BY <1>1 DEF Seated, SeatInv
<1>3. room' = room /\ log' = log /\ R!Open' = R!Open
  BY DEF R!Open
<1>4. ASSUME NEW o \in R!People
      PROVE  /\ room.open => Follows(tab'[o], log)
             /\ o \in scene.watched /\ R!Open => Caught(tab'[o], log)
  <2>1. CASE o = p
    BY <1>1, <2>1
  <2>2. CASE o # p
    BY <1>1, <2>2 DEF Seated, FollowInv
  <2> QED
    BY <2>1, <2>2
<1>5. FollowInv'
  BY <1>3, <1>4 DEF FollowInv
<1> QED
  BY <1>1, <1>2, <1>5 DEF Seated

(* What a browser does by itself.                                          *)
LEMMA BrowserSeats ==
  ASSUME R!TypeOK, Seated, scene' = scene, NEW p \in R!People, Browses(p)
  PROVE  Seated'
<1> DEFINE t == tab[p]
<1>1. /\ t \in TabRows /\ t.cursor = Len(t.shown)
      /\ p \in scene.watched /\ t.in = "in" => t.view # "current"
      /\ room.open => Follows(t, log)
      /\ p \in scene.watched /\ R!Open => Caught(t, log)
      /\ log \in Seq(R!Messages) /\ <<>> \in Seq(R!Messages) /\ Len(<<>>) = 0
  BY RoomTypes, EmptySeq DEF Seated, SeatInv, FollowInv
<1>2. UNCHANGED <<room, log>>
  BY BrowsesLeaves
<1>3. ASSUME NEW u \in TabRows, R!Steps(p, u), u.cursor = Len(u.shown), u.in = "in" => t.in = "in",
             p \in scene.watched /\ u.in = "in" => u.view # "current",
             room.open => Follows(u, log), p \in scene.watched /\ R!Open => Caught(u, log)
      PROVE  Seated'
  BY <1>2, <1>3, OneTab DEF R!Steps
<1>4. /\ t.in \in {"out", "in", "ended"} /\ t.shown \in Seq(R!Messages) /\ t.read \in Readings
      /\ t.again \in BOOLEAN /\ t.cursor \in Nat
  BY <1>1 DEF TabRows
<1> HIDE DEF t
<1>5. CASE R!ReadTemporaryRoom(p)
  <2> DEFINE upto == R!Min({Len(log), t.cursor + Page})
             page == SubSeq(log, t.cursor + 1, upto)
             u == [t EXCEPT !.read = [state |-> "served", page |-> page]]
  <2>1. R!Steps(p, u) /\ t.read = R!Asked /\ R!Open /\ room.open
    BY <1>5 DEF R!ReadTemporaryRoom, R!Open, t
  <2>2. /\ Len(log) \in Nat /\ t.cursor = Len(t.shown) /\ Page \in Nat /\ Page # 0
    BY <1>1, LenProperties, RoomsAssumption
  <2>3. page = NextOf(t.shown, log, Page)
    BY <2>2 DEF NextOf
  <2>4. R!IsPrefix(t.shown, log)
    BY <1>1, <2>1 DEF Follows
  <2> HIDE DEF page
  <2>5. /\ page \in Seq(R!Messages) /\ R!IsPrefix(t.shown \o page, log)
        /\ Len(page) # Page => t.shown \o page = log
    <3>1. t.shown \in Seq(R!Messages) /\ log \in Seq(R!Messages) /\ Page \in Nat /\ Page # 0
      BY <1>1, <1>4, <2>2
    <3>2. /\ NextOf(t.shown, log, Page) \in Seq(R!Messages)
          /\ R!IsPrefix(t.shown \o NextOf(t.shown, log, Page), log)
          /\ Len(NextOf(t.shown, log, Page)) # Page => t.shown \o NextOf(t.shown, log, Page) = log
      BY <2>4, <3>1, NextPage
    <3> QED
      BY <2>3, <3>2
  <2>6. /\ u \in TabRows /\ u.read.state = "served" /\ u.read.page = page
        /\ u.shown = t.shown /\ u.cursor = t.cursor /\ u.in = t.in /\ u.view = t.view
    BY <1>1, <2>5, ReadingFacts DEF TabRows
  <2> HIDE DEF u
  <2>7. Follows(u, log)
    BY <2>4, <2>5, <2>6 DEF Follows
  <2>8. Caught(u, log)
    <3>1. /\ R!Coming(u).shown = t.shown \o page /\ R!Coming(u).checking = FALSE
          /\ R!Coming(u).read = u.read
      BY <2>6, ComingFacts
    <3> QED
      BY <2>5, <2>6, <3>1 DEF Caught, R!WillLook, R!More
  <2> QED
    BY <1>1, <1>3, <2>1, <2>6, <2>7, <2>8
<1>6. CASE R!ReadGone(p)
  <2>1. CASE t.read # R!Stale
    <3>1. R!Steps(p, R!Retired)
      BY <1>6, <2>1 DEF R!ReadGone, t
    <3>2. R!Retired # R!Entered(p)
      BY DEF R!Retired, R!NoTab, R!Entered
    <3> QED
      BY <1>1, <1>3, <3>1, <3>2, FreshTabs
  <2>2. CASE t.read = R!Stale
    <3>1. R!Steps(p, R!Finish(t))
      BY <1>6, <2>2 DEF R!ReadGone, t
    <3>2. /\ R!Finish(t) \in TabRows /\ R!Finish(t).in = t.in /\ R!Finish(t).view = t.view
          /\ R!Finish(t).shown = t.shown /\ R!Finish(t).cursor = t.cursor
          /\ R!Finish(t).read = R!Idle /\ R!Finish(t).again = t.again /\ R!Finish(t).checking = t.checking
      BY <1>1, ReadingFacts DEF R!Finish, TabRows
    <3>3. Follows(t, log) => Follows(R!Finish(t), log)
      BY <3>2, ReadingFacts DEF Follows
    <3>4. Caught(t, log) => Caught(R!Finish(t), log)
      <4>0. /\ R!Stale.state # "served" /\ R!Idle.state # "served" /\ R!Stale # R!Asked
            /\ R!Coming(t) = t /\ R!Coming(R!Finish(t)) = R!Finish(t)
        BY <2>2, <3>2, ReadingFacts DEF R!Coming
      <4>2. R!WillLook(R!Coming(t)) => R!WillLook(R!Coming(R!Finish(t)))
        BY <2>2, <3>2, <4>0 DEF R!WillLook
      <4> QED
        BY <3>2, <4>0, <4>2 DEF Caught
    <3> QED
      BY <1>1, <1>3, <3>1, <3>2, <3>3, <3>4
  <2> QED
    BY <2>1, <2>2
<1>7. CASE R!ReadFails(p)
  <2> DEFINE again == t.again \/ (t.read # R!Stale /\ t.view # "hidden")
             u == [t EXCEPT !.again = again, !.read = R!Idle]
  <2>1. R!Steps(p, u)
    BY <1>7 DEF R!ReadFails, R!Finish, t
  <2>2. again \in BOOLEAN
    BY <1>4
  <2> HIDE DEF again
  <2>3. /\ u \in TabRows /\ u.in = t.in /\ u.view = t.view /\ u.shown = t.shown
        /\ u.cursor = t.cursor /\ u.read = R!Idle /\ u.again = again /\ u.checking = t.checking
    BY <1>1, <2>2, ReadingFacts DEF TabRows
  <2> HIDE DEF u
  <2>4. Follows(t, log) => Follows(u, log)
    BY <2>3, ReadingFacts DEF Follows
  <2>5. Caught(t, log) => Caught(u, log)
    <3>1. CASE again \/ t.view = "hidden"
      BY <2>3, <3>1, Looking
    <3>2. CASE ~ again /\ t.view # "hidden"
      <4>1. t.read = R!Stale /\ ~ t.again
        BY <3>2 DEF again
      <4>0. /\ R!Stale.state # "served" /\ R!Idle.state # "served" /\ R!Stale # R!Asked
            /\ R!Coming(t) = t /\ R!Coming(u) = u
        BY <2>3, <4>1, ReadingFacts DEF R!Coming
      <4>2. R!Coming(u).shown = R!Coming(t).shown /\ R!Coming(u).checking = R!Coming(t).checking
        BY <2>3, <4>0
      <4>3. R!WillLook(R!Coming(t)) => R!WillLook(R!Coming(u))
        BY <2>3, <4>0, <4>1 DEF R!WillLook
      <4> QED
        BY <1>1, <2>3, <4>2, <4>3, ComingFacts DEF Caught
    <3> QED
      BY <3>1, <3>2
  <2> QED
    BY <1>1, <1>3, <2>1, <2>3, <2>4, <2>5
<1>8. CASE R!Receive(p)
  <2> DEFINE page == t.read.page
             longer == t.shown \o page
             shows == [t EXCEPT !.shown = longer, !.cursor = t.cursor + Len(page)]
  <2>1. t.read.state = "served" /\ page \in Seq(R!Messages)
    BY <1>4, <1>8, ReadingFacts DEF R!Receive, t
  <2>2. /\ longer \in Seq(R!Messages) /\ Len(longer) = Len(t.shown) + Len(page)
        /\ Len(page) \in Nat /\ Len(t.shown) \in Nat
    BY <1>4, <2>1, ConcatProperties, LenProperties
  <2> HIDE DEF longer, page
  <2>3. /\ t.cursor + Len(page) \in Nat /\ t.cursor + Len(page) = Len(longer)
    BY <1>1, <2>2
  <2>4. room.open => R!IsPrefix(longer, log)
    BY <1>1, <2>1 DEF Follows, longer, page
  <2>5. /\ shows \in TabRows /\ shows.in = t.in /\ shows.view = t.view /\ shows.again = t.again
        /\ shows.shown = longer /\ shows.cursor = Len(longer)
    BY <1>1, <2>2, <2>3 DEF TabRows
  <2>6. \/ R!Steps(p, R!Finish([R!Suspend(t) EXCEPT !.again = TRUE]))
        \/ R!More(t.read) /\ R!Steps(p, [shows EXCEPT !.read = R!Asked])
        \/ R!Steps(p, R!Finish([shows EXCEPT !.again = shows.again \/ R!More(t.read), !.checking = FALSE]))
    BY <1>8 DEF R!Receive, t, page, longer
  <2> HIDE DEF shows
  <2>7. CASE R!Steps(p, R!Finish([R!Suspend(t) EXCEPT !.again = TRUE]))
    <3> DEFINE s == R!Suspend(t)
               u == [s EXCEPT !.again = TRUE, !.read = R!Idle]
    <3>1. R!Steps(p, u)
      BY <2>7 DEF R!Finish
    <3>2. s \in TabRows /\ s.in = t.in /\ s.view = t.view /\ s.cursor = 0 /\ s.shown = <<>>
      BY <1>1, SuspendFacts
    <3> HIDE DEF s
    <3>3. /\ u \in TabRows /\ u.in = t.in /\ u.view = t.view /\ u.cursor = 0 /\ u.shown = <<>>
          /\ u.again = TRUE /\ u.read = R!Idle
      BY <3>2, ReadingFacts DEF TabRows
    <3> HIDE DEF u
    <3>4. Follows(u, log)
      BY <1>1, <3>3, ReadingFacts, StartOfItself DEF Follows
    <3> QED
      BY <1>1, <1>3, <3>1, <3>3, <3>4, Looking
  <2>8. CASE R!More(t.read) /\ R!Steps(p, [shows EXCEPT !.read = R!Asked])
    <3> DEFINE u == [shows EXCEPT !.read = R!Asked]
    <3>1. /\ u \in TabRows /\ u.in = t.in /\ u.view = t.view /\ u.shown = longer
          /\ u.cursor = Len(longer) /\ u.read = R!Asked
      BY <2>5, ReadingFacts DEF TabRows
    <3> HIDE DEF u
    <3>2. room.open => Follows(u, log)
      BY <2>4, <3>1, ReadingFacts DEF Follows
    <3> QED
      BY <1>1, <1>3, <2>8, <3>1, <3>2, Looking DEF u
  <2>9. CASE R!Steps(p, R!Finish([shows EXCEPT !.again = shows.again \/ R!More(t.read),
                                           !.checking = FALSE]))
    <3> DEFINE again == t.again \/ R!More(t.read)
               u == [shows EXCEPT !.again = again, !.checking = FALSE, !.read = R!Idle]
    <3>1. R!Steps(p, u)
      BY <2>5, <2>9 DEF R!Finish
    <3>2. again \in BOOLEAN
      BY <1>4 DEF R!More
    <3> HIDE DEF again
    <3>3. /\ u \in TabRows /\ u.in = t.in /\ u.view = t.view /\ u.shown = longer
          /\ u.cursor = Len(longer) /\ u.read = R!Idle /\ u.again = again /\ u.checking = FALSE
      BY <2>5, <3>2, ReadingFacts DEF TabRows
    <3> HIDE DEF u
    <3>4. room.open => Follows(u, log)
      BY <2>4, <3>3, ReadingFacts DEF Follows
    <3>5. Caught(t, log) => Caught(u, log)
      <4>1. CASE again
        BY <3>3, <4>1, Looking
      <4>2. CASE ~ again
        <5>1. ~ t.again /\ ~ R!More(t.read)
          BY <4>2 DEF again
        <5>2. R!Coming(u).shown = R!Coming(t).shown /\ R!Coming(u).checking = FALSE /\ R!Coming(t).checking = FALSE
          BY <1>1, <2>1, <3>3, ReadingFacts, ComingFacts DEF longer, page
        <5>3. ~ (t.read = R!Asked)
          BY <2>1, ReadingFacts
        <5>4. R!WillLook(R!Coming(t)) => t.view = "broken"
          BY <1>1, <5>1, <5>3, ComingFacts DEF R!WillLook
        <5>5. t.view = "broken" => R!WillLook(R!Coming(u))
          BY <3>3, ComingFacts DEF R!WillLook
        <5>6. /\ R!Coming(t).in = t.in /\ R!Coming(t).view = t.view
              /\ R!Coming(u).in = t.in /\ R!Coming(u).view = t.view
          BY <1>1, <3>3, ComingFacts
        <5> QED
          BY <5>2, <5>4, <5>5, <5>6 DEF Caught
      <4> QED
        BY <4>1, <4>2
    <3> QED
      BY <1>1, <1>3, <3>1, <3>3, <3>4, <3>5
  <2> QED
    BY <2>6, <2>7, <2>8, <2>9
<1>9. ASSUME NEW view \in {"broken", "connected"}, NEW again \in BOOLEAN,
             R!Steps(p, [t EXCEPT !.view = view, !.again = again]), view = "broken" \/ again
      PROVE  Seated'
  <2> DEFINE u == [t EXCEPT !.view = view, !.again = again]
  <2>1. /\ u \in TabRows /\ u.in = t.in /\ u.view = view /\ u.shown = t.shown
        /\ u.cursor = t.cursor /\ u.read = t.read /\ u.again = again
    BY <1>1 DEF TabRows
  <2> HIDE DEF u
  <2>2. Follows(t, log) => Follows(u, log)
    BY <2>1 DEF Follows
  <2>3. Caught(u, log)
    BY <1>9, <2>1, Looking
  <2> QED
    BY <1>1, <1>3, <1>9, <2>1, <2>2, <2>3 DEF u
<1>10. CASE R!Connect(p)
  BY <1>9, <1>10 DEF R!Connect, t
<1>11. CASE R!Disconnect(p)
  BY <1>4, <1>9, <1>11 DEF R!Disconnect, t
<1>12. ASSUME NEW s \in TabRows, s.in = t.in, s.cursor = Len(s.shown),
              room.open => Follows(s, log), s.in = "in" /\ p \in scene.watched => s.view # "current",
              R!Steps(p, R!Refresh(s)), (s.in = "in" /\ s.view # "current") \/ (R!Open => Caught(s, log))
       PROVE  Seated'
  <2>1. /\ R!Refresh(s) \in TabRows /\ R!Refresh(s).in = s.in /\ R!Refresh(s).view = s.view
        /\ R!Refresh(s).cursor = s.cursor /\ R!Refresh(s).shown = s.shown
        /\ Follows(s, log) => Follows(R!Refresh(s), log)
        /\ Caught(s, log) => Caught(R!Refresh(s), log)
        /\ s.in = "in" /\ s.view # "current" => Caught(R!Refresh(s), log)
    BY <1>12, RefreshFacts
  <2> QED
    BY <1>3, <1>12, <2>1
<1>13. CASE R!Look(p)
  <2> DEFINE s == [t EXCEPT !.again = FALSE]
  <2>1. /\ s \in TabRows /\ s.in = t.in /\ s.view = t.view /\ s.shown = t.shown
        /\ s.cursor = t.cursor /\ s.read = t.read
    BY <1>1 DEF TabRows
  <2>2. R!Steps(p, R!Refresh(s))
    BY <1>13 DEF R!Look, t
  <2> HIDE DEF s
  <2>3. Follows(t, log) => Follows(s, log)
    BY <2>1 DEF Follows
  <2>4. CASE s.in = "in" /\ s.view # "current"
    BY <1>1, <1>12, <2>1, <2>2, <2>3, <2>4
  <2>5. CASE ~ (s.in = "in" /\ s.view # "current")
    <3>1. R!Refresh(s) = s
      BY <2>5 DEF R!Refresh
    <3>2. p \in scene.watched => Caught(s, log)
      BY <1>1, <2>1, <2>5, Looking
    <3> QED
      BY <1>1, <1>3, <2>1, <2>2, <2>3, <3>1, <3>2
  <2> QED
    BY <2>4, <2>5
<1>14. CASE R!Fallback(p)
  BY <1>1, <1>12, <1>14 DEF R!Fallback, t
<1>15. CASE R!Resume(p)
  <2> DEFINE s == [t EXCEPT !.view = "broken"]
  <2>1. /\ s \in TabRows /\ s.in = t.in /\ s.view = "broken" /\ s.shown = t.shown
        /\ s.cursor = t.cursor /\ s.read = t.read
    BY <1>1 DEF TabRows
  <2>2. R!Steps(p, R!Refresh(s)) /\ t.in = "in"
    BY <1>15 DEF R!Resume, t
  <2> HIDE DEF s
  <2>3. Follows(t, log) => Follows(s, log)
    BY <2>1 DEF Follows
  <2> QED
    BY <1>1, <1>12, <2>1, <2>2, <2>3
<1>16. /\ R!Suspend(t) \in TabRows /\ R!Suspend(t).in = t.in /\ R!Suspend(t).view = t.view
       /\ R!Suspend(t).cursor = Len(R!Suspend(t).shown) /\ Follows(R!Suspend(t), log)
       /\ R!Suspend(t).cursor = 0 /\ R!Suspend(t).shown = <<>> /\ R!Suspend(t).read.state # "served"
  BY <1>1, SuspendFacts
<1>17. CASE R!CountedDown(p)
  <2>1. R!Steps(p, R!Refresh(R!Suspend(t))) /\ t.in = "in" /\ p \in scene.watched
    BY <1>17 DEF R!CountedDown, t
  <2> QED
    BY <1>1, <1>12, <1>16, <2>1
<1>18. CASE R!Hide(p)
  <2>1. PICK again \in {t.again, FALSE} :
          R!Steps(p, [R!Suspend(t) EXCEPT !.view = "hidden", !.again = again])
    BY <1>18 DEF R!Hide, t
  <2>2. again \in BOOLEAN
    BY <1>4, <2>1
  <2> DEFINE s == R!Suspend(t)
             u == [s EXCEPT !.view = "hidden", !.again = again]
  <2> HIDE DEF s
  <2>3. s \in TabRows /\ s.in = t.in /\ s.cursor = 0 /\ s.shown = <<>> /\ s.read.state # "served"
    BY <1>16 DEF s
  <2>4. /\ u \in TabRows /\ u.in = t.in /\ u.view = "hidden" /\ u.shown = <<>>
        /\ u.cursor = 0 /\ u.read.state # "served"
    BY <2>2, <2>3 DEF TabRows
  <2>5. R!Steps(p, u)
    BY <2>1 DEF s
  <2> HIDE DEF u
  <2>6. Follows(u, log)
    BY <1>1, <2>4, StartOfItself DEF Follows
  <2> QED
    BY <1>1, <1>3, <2>4, <2>5, <2>6, Looking
<1> QED
  BY <1>5, <1>6, <1>7, <1>8, <1>10, <1>11, <1>13, <1>14, <1>15, <1>17, <1>18 DEF Browses

(* What the server's answers do.                                           *)
LEMMA OkSeats ==
  ASSUME R!TypeOK, PostInv, Seated, scene' = scene, NEW q \in Requests, posts[q].kind # "none",
         NEW told \in BOOLEAN, R!Ok(q, told), log' \in Seq(R!Messages),
         \A p \in R!People : room'.open => Follows(tab[p], log'),
         \A p \in scene.watched : R!Open' => told \/ Caught(tab[p], log'),
         \A p \in Joiners : room'.open /\ (tab[p].in = "in" \/ (posts[q].by = p /\ posts[q].kind = "join"))
                              => room'.guest = p
  PROVE  Seated'
<1>1. /\ tab' \in [R!People -> TabRows]
      /\ \A p \in R!People :
           /\ tab'[p].cursor = Len(tab'[p].shown)
           /\ Follows(tab[p], log') => Follows(tab'[p], log')
           /\ p \in scene.watched =>
                /\ tab'[p].in = "in" => tab'[p].view # "current"
                /\ Caught(tab[p], log') \/ told => Caught(tab'[p], log')
           /\ tab'[p].in = "in" =>
                tab[p].in = "in" \/ (posts[q].by = p /\ posts[q].kind \in {"create", "join"})
  BY OkTabs DEF Seated
<1>2. ASSUME NEW p \in Joiners, tab'[p].in = "in", room'.open PROVE room'.guest = p
  <2>1. p \in R!People /\ p # Host
    BY RoomsAssumption DEF R!People
  <2>2. posts[q].by = p => posts[q].kind # "create"
    BY <2>1 DEF PostInv
  <2> QED
    BY <1>1, <1>2, <2>1, <2>2
<1>3. SeatInv'
  BY <1>1, <1>2 DEF SeatInv
<1>4. FollowInv'
  <2>1. ASSUME NEW p \in R!People
        PROVE  /\ room'.open => Follows(tab'[p], log')
               /\ p \in scene.watched /\ R!Open' => Caught(tab'[p], log')
    BY <1>1
  <2> QED
    BY <2>1 DEF FollowInv
<1> QED
  BY <1>1, <1>3, <1>4 DEF Seated

(* A refusal that retires the tab or leaves it alone.                      *)
LEMMA RefusedSeats ==
  ASSUME R!TypeOK, Seated, scene' = scene, UNCHANGED <<room, log>>, NEW q \in Requests, posts[q] # R!Free,
         R!Refused(q) \/ R!RefusedAndRetired(q)
  PROVE  Seated'
<1>1. CASE UNCHANGED tab
  BY <1>1, TabsStay DEF R!Open
<1>2. CASE ~ UNCHANGED tab
  <2> DEFINE p == posts[q].by
  <2>1. p \in R!People
    BY PostFacts DEF RoomPosts
  <2>2. tab' = [tab EXCEPT ![p] = R!Retired]
    BY <1>2, RoomTypes DEF R!Refused, R!RefusedAndRetired
  <2>3. log \in Seq(R!Messages) /\ Len(<<>>) = 0 /\ R!Retired # R!Entered(p)
    BY RoomTypes, EmptySeq DEF R!Retired, R!NoTab, R!Entered
  <2> HIDE DEF p
  <2>4. /\ R!Retired \in TabRows /\ R!Retired.cursor = Len(R!Retired.shown) /\ R!Retired.in # "in"
        /\ Follows(R!Retired, log) /\ (p \in scene.watched => Caught(R!Retired, log))
    BY <2>3, FreshTabs
  <2> QED
    BY <2>1, <2>2, <2>4, OneTab
<1> QED
  BY <1>1, <1>2

LEMMA ServerSeats ==
  ASSUME R!TypeOK, PostInv, BeforeInv, Arranged, Arranged', Seated, scene' = scene,
         NEW q \in Requests, Serves(q)
  PROVE  Seated'
<1>1. posts[q].kind # "none" /\ posts[q] # R!Free
  BY ServesEnds, PostFacts
<1>2. /\ log' \in Seq(R!Messages) /\ log \in Seq(R!Messages)
      /\ room.open => \A p \in R!People : Follows(tab[p], log)
      /\ R!Open => \A p \in scene.watched : Caught(tab[p], log)
      /\ room.open => \A p \in Joiners : tab[p].in = "in" => room.guest = p
      /\ scene.watched \subseteq R!People /\ Joiners \subseteq R!People
  BY SceneFacts DEF Arranged, Seated, FollowInv, SeatInv, R!People
<1>3. ASSUME NEW told \in BOOLEAN, R!Ok(q, told), R!Open, log' = log,
             room'.guest = room.guest, posts[q].kind # "join"
      PROVE  Seated'
  BY <1>1, <1>2, <1>3, OkSeats DEF R!Open
<1>4. CASE R!CreateTemporaryRoom(q)
  <2>1. room = R!Absent /\ log' = log /\ R!Ok(q, FALSE) /\ posts[q].kind = "create"
    BY <1>4 DEF R!CreateTemporaryRoom
  <2>2. \A p \in R!People : tab[p] = R!NoTab
    BY <2>1 DEF BeforeInv
  <2>3. ASSUME NEW p \in R!People
        PROVE  Follows(tab[p], log') /\ (p \in scene.watched => Caught(tab[p], log')) /\ tab[p].in # "in"
    <3>1. R!NoTab # R!Entered(p)
      BY DEF R!NoTab, R!Entered
    <3> QED
      BY <1>2, <2>2, <3>1, FreshTabs
  <2> QED
    BY <1>1, <1>2, <2>1, <2>3, OkSeats
<1>5. CASE R!RecreateTemporaryRoom(q)
  <2>1. UNCHANGED <<room, log>> /\ posts[q].kind = "create"
    BY <1>5 DEF R!RecreateTemporaryRoom
  <2>2. CASE R!Open
    BY <1>3, <1>5, <2>1, <2>2 DEF R!RecreateTemporaryRoom
  <2>3. CASE ~ R!Open
    BY <1>1, <1>5, <2>1, <2>3, RefusedSeats DEF R!RecreateTemporaryRoom
  <2> QED
    BY <2>2, <2>3
<1>6. CASE R!JoinTemporaryRoom(q)
  <2> DEFINE p == posts[q].by
  <2>1. log' = log /\ posts[q].kind = "join" /\ p \in Joiners
    BY <1>6 DEF R!JoinTemporaryRoom, PostInv
  <2>2. CASE R!Open /\ room.guest = Nobody /\ room' = [room EXCEPT !.guest = p] /\ R!Ok(q, TRUE)
    <3>1. room \in OpenRows
      BY <2>2, ArrangedFacts DEF R!Open
    <3>2. room'.guest = p
      BY <2>2, <3>1 DEF OpenRows
    <3>3. \A o \in Joiners : tab[o].in # "in"
      BY <1>2, <2>2, RoomsAssumption DEF R!Open, R!People
    <3> QED
      BY <1>1, <1>2, <2>1, <2>2, <3>2, <3>3, OkSeats DEF R!Open
  <2>3. CASE R!Open /\ room.guest = p /\ R!Ok(q, FALSE) /\ UNCHANGED room
    BY <1>1, <1>2, <2>1, <2>3, OkSeats DEF R!Open
  <2>4. CASE R!Refused(q) /\ UNCHANGED room
    BY <1>1, <2>1, <2>4, RefusedSeats
  <2> QED
    BY <1>6, <2>2, <2>3, <2>4 DEF R!JoinTemporaryRoom
<1>7. CASE R!Message(q)
  <2> DEFINE m == posts[q].what.message
  <2>1. R!Open /\ room' = room /\ posts[q].kind = "message" /\ m \in R!Messages
    BY <1>7 DEF R!Message, R!Acts, PostInv
  <2>2. CASE R!Refused(q) /\ UNCHANGED log
    BY <1>1, <2>1, <2>2, RefusedSeats
  <2>3. CASE R!Ok(q, FALSE) /\ log' = log
    BY <1>3, <2>1, <2>3
  <2>4. CASE R!Ok(q, TRUE) /\ log' = Append(log, m)
    <3>1. ASSUME NEW p \in R!People PROVE Follows(tab[p], log')
      <4>1. tab[p].shown \in Seq(R!Messages) /\ tab[p].read \in Readings /\ Follows(tab[p], log)
        BY <1>2, <2>1, RoomTypes DEF TabRows, R!Open
      <4>2. R!IsPrefix(tab[p].shown, log')
        BY <1>2, <2>1, <2>4, <4>1, StartOfLonger DEF Follows
      <4>3. ASSUME tab[p].read.state = "served" PROVE R!IsPrefix(tab[p].shown \o tab[p].read.page, log')
        <5>1. tab[p].read.page \in Seq(R!Messages)
          BY <4>1, <4>3, ReadingFacts
        <5>2. tab[p].shown \o tab[p].read.page \in Seq(R!Messages)
          BY <4>1, <5>1, ConcatProperties
        <5> QED
          BY <1>2, <2>1, <2>4, <4>1, <4>3, <5>2, StartOfLonger DEF Follows
      <4> QED
        BY <4>2, <4>3 DEF Follows
    <3> QED
      BY <1>1, <1>2, <2>1, <2>4, <3>1, OkSeats DEF R!Open
  <2> QED
    BY <1>7, <2>2, <2>3, <2>4 DEF R!Message
<1>8. CASE R!Extend(q)
  <2>1. room \in OpenRows
    BY <1>8, ArrangedFacts DEF R!Extend, R!Acts, R!Open
  <2> QED
    BY <1>3, <1>8, <2>1 DEF R!Extend, R!Acts, OpenRows
<1>9. CASE R!Approve(q)
  <2>1. R!Open /\ log' = log /\ posts[q].kind = "approve" /\ room \in OpenRows
    BY <1>9, ArrangedFacts DEF R!Approve, R!Acts, R!Open
  <2>2. CASE R!Refused(q) /\ UNCHANGED room
    BY <1>1, <2>1, <2>2, RefusedSeats
  <2>3. CASE R!Ok(q, TRUE) /\ room'.guest = room.guest
    BY <1>3, <2>1, <2>3
  <2> QED
    BY <1>9, <2>1, <2>2, <2>3 DEF R!Approve, OpenRows
<1>10. CASE R!Reject(q)
  <2>1. R!Open /\ log' = log /\ posts[q].kind = "reject" /\ room \in OpenRows
    BY <1>10, ArrangedFacts DEF R!Reject, R!Acts, R!Open
  <2>2. CASE R!Refused(q) /\ UNCHANGED room
    BY <1>1, <2>1, <2>2, RefusedSeats
  <2>3. CASE R!Ok(q, TRUE) /\ room'.guest = room.guest
    BY <1>3, <2>1, <2>3
  <2> QED
    BY <1>10, <2>1, <2>2, <2>3 DEF R!Reject, OpenRows
<1>11. CASE R!End(q)
  <2>1. R!Ok(q, TRUE) /\ ~ room'.open /\ ~ R!Open'
    BY <1>11 DEF R!End, R!Delete, R!Gone, R!Open
  <2> QED
    BY <1>1, <1>2, <2>1, OkSeats
<1>12. CASE R!ToldGone(q)
  BY <1>1, <1>12, RefusedSeats DEF R!ToldGone
<1> QED
  BY <1>4, <1>5, <1>6, <1>7, <1>8, <1>9, <1>10, <1>11, <1>12 DEF Serves

LEMMA StepSeats ==
  ASSUME R!TypeOK, PostInv, BeforeInv, Arranged, Arranged', Seated, scene' = scene, R!Step
  PROVE  Seated'
<1>1. CASE UNCHANGED <<room, log, tab>>
  BY <1>1, TabsStay DEF R!Open
<1>2. CASE Posted \/ \E q \in Requests : R!GiveUp(q) \/ R!Lost(q)
  BY <1>1, <1>2 DEF Posted, R!Post, R!GiveUp, R!Lost
<1>3. CASE R!CleanupTemporaryRooms
  <2>1. UNCHANGED tab /\ ~ room'.open /\ ~ R!Open'
    BY <1>3 DEF R!CleanupTemporaryRooms, R!Delete, R!Gone, R!Open
  <2> QED
    BY <2>1 DEF Seated, SeatInv, FollowInv
<1>4. CASE R!Tick
  <2>1. room \in OpenRows /\ R!Open /\ UNCHANGED <<tab, log>> /\ room.open
    BY <1>4, ArrangedFacts DEF R!Tick, R!Open
  <2>2. room'.guest = room.guest
    BY <1>4, <2>1 DEF R!Tick, OpenRows
  <2> QED
    BY <2>1, <2>2, TabsStay
<1> QED
  BY <1>2, <1>3, <1>4, Cases, ServerSeats, BrowserSeats

-----------------------------------------------------------------------------
(* The invariant                                                           *)

(* Before the room there is no tab in it, so nobody but its creator can do *)
(* anything; and once it is there it never is as if it had not been.       *)
LEMMA StepBefore == ASSUME R!TypeOK, BeforeInv, R!Step, scene' = scene PROVE BeforeInv'
<1>1. CASE room # R!Absent
  <2>1. (\A r : r.open => r # R!Absent) /\ R!Gone # R!Absent
    BY RoomFacts DEF R!Absent
  <2>2. ASSUME room.open
        PROVE  /\ \A g : [room EXCEPT !.guest = g].open
               /\ \A k : [room EXCEPT !.ask = k].open
               /\ \A l, k : [room EXCEPT !.ask = k, !.left = l].open
               /\ \A l, a, k : [room EXCEPT !.left = l, !.age = a, !.ask = k].open
    <3>1. room \in OpenRows
      BY <2>2, RoomFacts
    <3> QED
      BY <3>1 DEF OpenRows
  <2>3. ASSUME NEW q \in Requests, Serves(q) PROVE UNCHANGED room \/ room' = R!Gone \/ room'.open
    <3>1. CASE R!CreateTemporaryRoom(q)
      BY <3>1 DEF R!CreateTemporaryRoom
    <3>2. CASE R!JoinTemporaryRoom(q)
      BY <2>2, <3>2 DEF R!JoinTemporaryRoom, R!Open
    <3>3. CASE R!Extend(q)
      BY <2>2, <3>3 DEF R!Extend, R!Acts, R!Open
    <3>4. CASE R!Approve(q)
      BY <2>2, <3>4 DEF R!Approve, R!Acts, R!Open
    <3>5. CASE R!Reject(q)
      BY <2>2, <3>5 DEF R!Reject, R!Acts, R!Open
    <3>6. CASE R!RecreateTemporaryRoom(q) \/ R!Message(q) \/ R!End(q) \/ R!ToldGone(q)
      BY <3>6 DEF R!RecreateTemporaryRoom, R!Message, R!End, R!ToldGone, R!Delete
    <3> QED
      BY <2>3, <3>1, <3>2, <3>3, <3>4, <3>5, <3>6 DEF Serves
  <2>4. ASSUME Posted \/ \E q \in Requests : R!GiveUp(q) \/ R!Lost(q) PROVE UNCHANGED room
    BY <2>4 DEF Posted, R!Post, R!GiveUp, R!Lost
  <2>5. R!CleanupTemporaryRooms => room' = R!Gone
    BY DEF R!CleanupTemporaryRooms, R!Delete
  <2>6. R!Tick => room'.open
    BY <2>2 DEF R!Tick, R!Open
  <2>7. UNCHANGED room \/ room' = R!Gone \/ room'.open
    BY <2>3, <2>4, <2>5, <2>6, Cases, BrowsesLeaves
  <2> QED
    BY <1>1, <2>1, <2>7 DEF BeforeInv
<1>2. CASE room = R!Absent
  <2>1. /\ \A p \in R!People : tab[p] = R!NoTab
        /\ \A q \in Requests : posts[q].kind \in {"none", "create"}
        /\ ~ room.open /\ ~ R!Open
    BY <1>2, RoomFacts DEF BeforeInv, R!Open
  <2>2. /\ R!NoTab.in = "out" /\ R!NoTab.view = "hidden" /\ ~ R!NoTab.again /\ R!NoTab.read = R!Idle
        /\ ~ R!Running(R!NoTab) /\ R!NoTab.read # R!Asked /\ R!NoTab.read # R!Stale /\ R!NoTab.read.state # "served"
    BY ReadingFacts DEF R!NoTab, R!Running
  <2>3. ASSUME NEW p \in R!People, Browses(p) PROVE FALSE
    BY <2>1, <2>2, <2>3
       DEF Browses, R!ReadTemporaryRoom, R!ReadGone, R!ReadFails, R!Receive, R!Connect, R!Disconnect, R!Look,
           R!Fallback, R!Hide, R!Resume, R!CountedDown
  <2>4. ASSUME Posted PROVE BeforeInv'
    <3>1. PICK q \in Requests, kind \in R!Kinds, p \in R!People,
               what \in {R!Plain} \cup [message : R!Messages] \cup [minutes : Extra] \cup [ask : 1..scene.asks] :
            R!Post(q, p, kind, what) /\ (kind = "create" \/ tab[p].in = "in" \/ tab[Host].in # "out")
      BY <2>4 DEF Posted
    <3>2. Host \in R!People
      BY DEF R!People
    <3>3. kind = "create" /\ UNCHANGED tab
      BY <2>1, <2>2, <3>1, <3>2 DEF R!Post
    <3>4. posts' = [posts EXCEPT ![q] = [kind |-> "create", by |-> p, what |-> what, awaited |-> TRUE]]
      BY <3>1, <3>3 DEF R!Post
    <3>5. \A r \in Requests : posts'[r].kind \in {"none", "create"}
      <4>1. posts \in [Requests -> {R!Free} \cup RoomPosts]
        BY RoomTypes
      <4> QED
        BY <2>1, <3>4, <4>1
    <3> QED
      BY <2>1, <3>3, <3>5 DEF BeforeInv
  <2>5. ASSUME NEW q \in Requests, R!GiveUp(q) \/ R!Lost(q) PROVE BeforeInv'
    <3>1. UNCHANGED tab /\ posts[q] # R!Free
      BY <2>5, PostFacts DEF R!GiveUp, R!Lost
    <3>2. posts \in [Requests -> {R!Free} \cup RoomPosts] /\ posts[q] \in RoomPosts /\ R!Free.kind = "none"
      BY <3>1, PostFacts, RoomTypes DEF R!Free
    <3>3. [posts[q] EXCEPT !.awaited = FALSE].kind = posts[q].kind
      BY <3>2 DEF RoomPosts
    <3>4. posts' = [posts EXCEPT ![q] = R!Free] \/ posts' = [posts EXCEPT ![q] = [posts[q] EXCEPT !.awaited = FALSE]]
      BY <2>5 DEF R!GiveUp, R!Lost
    <3>5. \A r \in Requests : posts'[r].kind \in {"none", "create"}
      BY <2>1, <3>2, <3>3, <3>4
    <3> QED
      BY <2>1, <3>1, <3>5 DEF BeforeInv
  <2>6. ASSUME NEW q \in Requests, Serves(q) PROVE BeforeInv'
    <3>1. posts[q].kind = "create"
      BY <2>1, <2>6, ServesEnds
    <3>2. R!CreateTemporaryRoom(q)
      BY <1>2, <2>6, <3>1
         DEF Serves, R!RecreateTemporaryRoom, R!JoinTemporaryRoom, R!Message, R!Extend, R!Approve, R!Reject, R!End,
             R!ToldGone, R!Acts
    <3>3. room'.open
      BY <3>2 DEF R!CreateTemporaryRoom
    <3> QED
      BY <3>3 DEF BeforeInv, R!Absent
  <2>7. ~ R!CleanupTemporaryRooms /\ ~ R!Tick
    BY <2>1 DEF R!CleanupTemporaryRooms, R!Tick
  <2> QED
    BY <2>3, <2>4, <2>5, <2>6, <2>7, Cases
<1> QED
  BY <1>1, <1>2

LEMMA RoomInitially == R!Init => RoomInv
<1> SUFFICES ASSUME R!Init PROVE RoomInv
  OBVIOUS
<1>1. /\ <<>> \in Seq(R!Messages) /\ <<>> \in Seq(Grants) /\ <<>> \in Seq(AskRows)
      /\ Len(<<>>) = 0 /\ DOMAIN <<>> = {}
  <2>1. /\ <<>> \in Seq(R!Messages) /\ <<>> \in Seq(Grants) /\ <<>> \in Seq(AskRows) /\ Len(<<>>) = 0
    BY EmptySeq
  <2>2. DOMAIN <<>> = 1..0
    BY <2>1, LenProperties
  <2> QED
    BY <2>1, <2>2
<1>2. ~ room.open /\ ~ R!Open
  BY DEF R!Init, R!Absent, R!Open
<1>3. R!SentOnce
  BY <1>1 DEF R!Init, R!SentOnce, R!IsInjective
<1>4. R!LifeIsConsented /\ GrantInv
  BY <1>1, <1>2 DEF R!Init, R!LifeIsConsented, GrantInv
<1>5. scene \in Scenes /\ scene.asks \in Nat
  BY RoomsAssumption DEF R!Init
<1>6. Arranged
  BY <1>1, <1>2, <1>3, <1>4, <1>5 DEF Arranged, R!Init
<1>7. \A p \in R!People : tab[p] = R!NoTab
  BY DEF R!Init
<1>8. R!NoTab \in TabRows /\ R!NoTab.in = "out" /\ R!NoTab.cursor = 0 /\ R!NoTab.shown = <<>>
  BY <1>1, ReadingFacts DEF R!NoTab, TabRows
<1>9. tab \in [R!People -> TabRows]
  BY <1>8 DEF R!Init
<1>10. SeatInv
  BY <1>1, <1>7, <1>8 DEF SeatInv
<1>11. FollowInv
  BY <1>2 DEF FollowInv
<1>12. \A q \in Requests : posts[q] = R!Free
  BY DEF R!Init
<1>13. R!Free.kind = "none"
  BY DEF R!Free
<1>14. PostInv /\ BeforeInv
  BY <1>7, <1>12, <1>13 DEF PostInv, BeforeInv
<1>15. posts \in [Requests -> {R!Free} \cup RoomPosts]
  BY DEF R!Init
<1> QED
  BY <1>5, <1>6, <1>9, <1>10, <1>11, <1>14, <1>15, ArrangedIs DEF RoomInv

(* The parts of the invariant as they are stated, from what the lemmas     *)
(* keep: the same after a step.                                            *)
LEMMA StillArranged ==
  ASSUME Arranged', Seated', scene' \in Scenes, posts' \in [Requests -> {R!Free} \cup RoomPosts']
  PROVE  (R!TypeOK /\ R!SentOnce /\ R!LifeIsConsented /\ GrantInv)'
<1>1. tab' \in [R!People -> TabRows']
  BY DEF Seated
<1>2. (R!SentOnce /\ R!LifeIsConsented /\ GrantInv)'
  BY DEF Arranged
<1>3. R!TypeOK'
  BY <1>1 DEF Arranged, R!TypeOK, OpenRows, RoomPosts, TabRows, Readings, Grants, AskRows
<1> QED
  BY <1>2, <1>3

LEMMA RoomStep == ASSUME RoomInv, [R!Next]_(R!vars) PROVE RoomInv'
<1>1. CASE UNCHANGED R!vars
  <2> USE <1>1 DEF R!vars, R!history
  <2>1. Arranged'
    BY ArrangedIs, ArrangedSame DEF RoomInv
  <2>2. Seated'
    BY ArrangedIs, TabsStay DEF RoomInv, Seated, R!Open
  <2>3. PostInv' /\ BeforeInv' /\ scene' \in Scenes /\ posts' \in [Requests -> {R!Free} \cup RoomPosts']
    BY ArrangedIs DEF RoomInv, PostInv, BeforeInv, RoomPosts
  <2> QED
    BY <2>1, <2>2, <2>3, StillArranged DEF RoomInv, Seated
<1>2. CASE R!Next
  <2>1. R!Step /\ scene' = scene
    BY <1>2 DEF R!Next
  <2>2. R!TypeOK /\ PostInv /\ BeforeInv /\ Arranged /\ Seated /\ scene \in Scenes
    BY ArrangedIs DEF RoomInv, Seated
  <2>3. PostInv' /\ posts' \in [Requests -> {R!Free} \cup RoomPosts]
    BY <2>1, <2>2, AnyPostMove, PostMove
  <2>4. Arranged'
    BY <2>1, <2>2, StepArranges
  <2>5. Seated'
    BY <2>1, <2>2, <2>4, StepSeats
  <2>6. BeforeInv'
    BY <2>1, <2>2, StepBefore
  <2>7. RoomPosts' = RoomPosts /\ scene' \in Scenes
    BY <2>1, <2>2 DEF RoomPosts
  <2>8. (R!TypeOK /\ R!SentOnce /\ R!LifeIsConsented /\ GrantInv)'
    <3>1. posts' \in [Requests -> {R!Free} \cup RoomPosts']
      BY <2>3, <2>7
    <3> QED
      BY <2>4, <2>5, <2>7, <3>1, StillArranged
  <2> QED
    BY <2>3, <2>5, <2>6, <2>8 DEF RoomInv, Seated
<1> QED
  BY <1>1, <1>2

(* What the invariant says of the room.                                    *)
LEMMA Sound == ASSUME RoomInv PROVE R!RoomIsSound /\ R!LifeIsConsented /\ R!CaughtUp
<1>1. R!ShownInOrder
  BY DEF RoomInv, FollowInv, Follows, R!ShownInOrder
<1>2. R!OneGuest
  <2>1. Joiners \subseteq R!People
    BY DEF R!People
  <2> QED
    BY <2>1 DEF RoomInv, SeatInv, R!OneGuest
<1>3. R!CaughtUp
  <2>1. scene.watched \subseteq R!People
    BY SceneFacts DEF RoomInv
  <2> QED
    BY <2>1 DEF RoomInv, FollowInv, Caught, R!CaughtUp, R!Behind
<1> QED
  BY <1>1, <1>2, <1>3 DEF RoomInv, R!RoomIsSound

-----------------------------------------------------------------------------
(* The theorems                                                            *)

LEMMA PartsStep == ASSUME RoomInv, [PartsNext]_<<part, vars, roomVars>> PROVE RoomInv'
<1>1. CASE UNCHANGED roomVars
  <2>1. [R!Next]_(R!vars)
    BY <1>1 DEF roomVars, R!vars, R!history
  <2> QED
    BY <2>1, RoomStep
<1>2. CASE R!Next
  BY <1>2, RoomStep
<1> QED
  BY <1>1, <1>2 DEF PartsNext

(* What holds of a room throughout: the parts of the invariant above.      *)
THEOREM RoomInvariance == PartsSpec => []RoomInv
<1>1. PartsInit => RoomInv
  BY RoomInitially DEF PartsInit
<1>2. RoomInv /\ [PartsNext]_<<part, vars, roomVars>> => RoomInv'
  BY PartsStep
<1> QED
  BY <1>1, <1>2, PTL DEF PartsSpec

(* Both people in a temporary room see a gapless start of what was sent,   *)
(* what was reported as sent is there once, and nobody else is let in,     *)
(* however requests, retries, refreshes and suspensions overlap            *)
(* (temporary-room.tsx, temporary-rooms.ts).                               *)
THEOREM RoomStaysSound == PartsSpec => []RoomIsSound
<1>1. RoomInv => RoomIsSound
  BY Sound DEF RoomIsSound
<1> QED
  BY <1>1, RoomInvariance, PTL

(* No retried, late or crossing approval adds time that the other person   *)
(* did not agree to (actOnTemporaryRoom: extend, approve, reject).         *)
THEOREM LifeStaysConsented == PartsSpec => []LifeIsConsented
<1>1. RoomInv => LifeIsConsented
  BY Sound DEF LifeIsConsented
<1> QED
  BY <1>1, RoomInvariance, PTL

(* A visible tab that does not show the room as it is always has a reason  *)
(* to look again (temporary-room.tsx: refresh and its effects).            *)
THEOREM TabsCatchUp == PartsSpec => []CaughtUp
<1>1. RoomInv => CaughtUp
  BY Sound DEF CaughtUp
<1> QED
  BY <1>1, RoomInvariance, PTL
=============================================================================
