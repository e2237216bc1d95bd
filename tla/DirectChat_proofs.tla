------------------------- MODULE DirectChat_proofs -------------------------
(***************************************************************************)
(* Type correctness, the message request's promise (OneIntroduction), at   *)
(* most one row per client id (SentOnce), no acknowledgement without a row *)
(* (AckedIsStored), consent, notifications, and that sending implements    *)
(* MessageDelivery, for any number of messages and concurrent requests.    *)
(***************************************************************************)
EXTENDS DirectChat, FiniteSetTheorems, TLAPS

-----------------------------------------------------------------------------
(* The inductive invariant                                                 *)

(* What request r may rely on wherever it stands, although everything else *)
(* moves between its steps: its entry was composed for the conversation it *)
(* read; on the fast path acceptance cannot be lost; behind the gate the   *)
(* lock is its own and the gate's verdict still holds.                     *)
RequestInv(r) ==
  req[r].pc # "idle" =>
    /\ req[r].id \in Ids
    /\ req[r].conv \in 1..made
    /\ target[req[r].id] = req[r].conv
    /\ outbox[req[r].id] # "new"
    /\ req[r].pc = "checked" /\ ~req[r].pending /\ req[r].conv = conv
         => Users \subseteq accepted
    /\ req[r].pc = "gated"
         => /\ lock = r
            /\ (req[r].conv = conv /\ GatePending)
                 => Stored(req[r].id) \/ (Owner[req[r].id] = creator /\ log = <<>>)
    /\ req[r].pc \in {"answer", "after"} => published[req[r].id] = 1

(* Conversations are numbered in the order of their creation.              *)
Numbered ==
  /\ conv <= made
  /\ conv = 0 => log = <<>>
  /\ \A k \in Ids : target[k] <= made /\ (outbox[k] # "new" => target[k] # 0)

(* What was published is stored, while its conversation lives.             *)
Written ==
  \A k \in Ids :
    /\ published[k] = 0 \/ published[k] = 1
    /\ published[k] = 1 => outbox[k] # "new"
    /\ (published[k] = 1 /\ target[k] = conv) => Stored(k)
    /\ outbox[k] = "acked" => published[k] = 1

IInv ==
  /\ TypeOK
  /\ Numbered
  /\ Written
  /\ \A r \in Requests : RequestInv(r)
  /\ SentOnce
  /\ OneIntroduction

USE DEF convVars, sendVars, clientVars, slotVars, vars
USE OwnerAssumption, NoOneAssumption, MaxConvAssumption

-----------------------------------------------------------------------------
(* Notifications are counted by natural numbers.                           *)
LEMMA NotifiedType ==
  ASSUME TypeOK, NEW k \in Ids
  PROVE  Notified(k) \in [Ids -> Nat]
<1>1. IsFiniteSet(Notifiable(k))
  BY UsersAssumption, FS_Subset DEF Notifiable
<1>2. Cardinality(Notifiable(k)) \in Nat
  BY <1>1, FS_CardinalityType
<1>3. notes \in [Ids -> Nat]
  BY DEF TypeOK
<1> DEFINE n == Cardinality(Notifiable(k))
<1>4. n \in Nat
  BY <1>2
<1> HIDE DEF n
<1>5. [notes EXCEPT ![k] = @ + n] \in [Ids -> Nat]
  BY <1>3, <1>4
<1> QED
  BY <1>5 DEF Notified, n

(* A request that moves on without writing a message.                      *)
LEMMA RequestMoves ==
  ASSUME IInv, NEW r \in Requests, NEW n \in RequestStates,
         req' = [req EXCEPT ![r] = n],
         UNCHANGED <<convVars, blocked, published, target, slotVars>>,
         notes' \in [Ids -> Nat], lock' \in Requests \cup {NoOne},
         outbox' \in [Ids -> OutboxStates],
         \A k \in Ids : /\ outbox'[k] = "new" <=> outbox[k] = "new"
                        /\ outbox'[k] = "acked" => published[k] = 1,
         \A q \in Requests \ {r} : lock = q => lock' = q,
         RequestInv(r)'
  PROVE  IInv'
<1>1. TypeOK'
  BY DEF IInv, TypeOK
<1>2. Numbered' /\ Written'
  BY DEF IInv, Numbered, Written, Stored
<1>3. ASSUME NEW q \in Requests, q # r PROVE RequestInv(q)'
  <2>1. req'[q] = req[q]
    BY <1>3 DEF IInv, TypeOK
  <2> QED
    BY <2>1, <1>3 DEF IInv, RequestInv, Stored, GatePending
<1>4. SentOnce' /\ OneIntroduction'
  BY DEF IInv, SentOnce, OneIntroduction, Stored, GatePending
<1> QED
  BY <1>1, <1>2, <1>3, <1>4 DEF IInv

(* A conversation that goes takes its members and messages along.          *)
LEMMA RemovalKeeps ==
  ASSUME IInv, RemoveConversation,
         UNCHANGED <<blocked, sendVars, clientVars, creating>>,
         accepting' \in [Users -> 0..MaxConv], clearing' \in [Users -> 0..MaxConv]
  PROVE  IInv'
<1>1. TypeOK'
  BY DEF IInv, TypeOK, RemoveConversation
<1>2. Numbered' /\ Written'
  BY DEF IInv, TypeOK, Numbered, Written, RemoveConversation
<1>3. ASSUME NEW q \in Requests PROVE RequestInv(q)'
  BY <1>3 DEF IInv, RequestInv, RemoveConversation
<1>4. SentOnce' /\ OneIntroduction'
  BY DEF IInv, SentOnce, OneIntroduction, Stored, RemoveConversation
<1> QED
  BY <1>1, <1>2, <1>3, <1>4 DEF IInv

(* The insert statement.  While the request is pending only the holder of  *)
(* the lock writes, and the gate let it pass.                              *)
LEMMA WriteKeeps ==
  ASSUME IInv, NEW r \in Requests, WriteMessage(r),
         req[r].pc \in {"checked", "gated"},
         UNCHANGED <<blocked, clientVars, slotVars>>,
         notes' \in [Ids -> Nat],
         lock' \in Requests \cup {NoOne},
         \A q \in Requests \ {r} : lock = q => lock' = q,
         (Inserts(r) /\ GatePending) => req[r].pc = "gated"
  PROVE  IInv'
<1> DEFINE k == req[r].id
<1>1. k \in Ids /\ req[r].conv \in 1..made /\ target[k] = req[r].conv /\ outbox[k] # "new"
  BY DEF IInv, RequestInv
<1>2. /\ req \in [Requests -> RequestStates] /\ log \in Seq(Ids)
      /\ published \in [Ids -> Nat]
  BY DEF IInv, TypeOK
<1>3. req' \in [Requests -> RequestStates]
  <2>1. Idle \in RequestStates
    BY DEF Idle, RequestStates
  <2>2. [req[r] EXCEPT !.pc = "answer", !.fresh = Inserts(r)] \in RequestStates
    <3> DEFINE b == Inserts(r)
    <3>1. b \in BOOLEAN
      BY DEF Inserts
    <3>2. req[r] \in RequestStates
      BY <1>2
    <3> HIDE DEF b
    <3>3. [req[r] EXCEPT !.pc = "answer", !.fresh = b] \in RequestStates
      BY <3>1, <3>2 DEF RequestStates
    <3> QED
      BY <3>3 DEF b
  <2> QED
    BY <1>2, <2>1, <2>2 DEF WriteMessage
<1>4. CASE ~Inserts(r)
  <2>1. UNCHANGED <<convVars, published>>
    BY <1>4 DEF WriteMessage
  <2>2. Fails(r) \/ Stored(k)
    BY <1>4 DEF Inserts, Fails
  <2>3. RequestInv(r)'
    <3>1. CASE Fails(r)
      BY <1>2, <3>1 DEF WriteMessage, RequestInv, Idle
    <3>2. CASE ~Fails(r)
      <4>1. published[k] = 1
        BY <1>1, <2>2, <3>2 DEF IInv, SentOnce
      <4>2. req'[r] = [req[r] EXCEPT !.pc = "answer", !.fresh = Inserts(r)]
        BY <1>2, <3>2 DEF WriteMessage
      <4> QED
        BY <1>1, <1>2, <2>1, <4>1, <4>2 DEF RequestInv, RequestStates
    <3> QED
      BY <3>1, <3>2
  <2>4. PICK n \in RequestStates : req' = [req EXCEPT ![r] = n]
    BY <1>2, <1>3 DEF WriteMessage
  <2>5. outbox \in [Ids -> OutboxStates] /\ \A j \in Ids : outbox[j] = "acked" => published[j] = 1
    BY DEF IInv, TypeOK, Written
  <2> QED
    BY <2>1, <2>3, <2>4, <2>5, RequestMoves
<1>5. CASE Inserts(r)
  <2>1. /\ ~Stored(k) /\ conv = req[r].conv
        /\ log' = Append(log, k)
        /\ published' = [published EXCEPT ![k] = @ + 1]
        /\ UNCHANGED <<conv, made, creator, accepted, hidden, cleared, quiet>>
    BY <1>5 DEF WriteMessage, Inserts
  <2>2. published[k] = 0
    BY <1>1, <2>1 DEF IInv, Written
  <2>3. /\ log' \in Seq(Ids) /\ published' \in [Ids -> Nat]
        /\ Len(log') = Len(log) + 1 /\ log'[Len(log) + 1] = k
        /\ \A i \in 1..Len(log) : log'[i] = log[i]
    BY <1>1, <1>2, <2>1
  <2>4. \A j \in Ids : Stored(j)' <=> (Stored(j) \/ j = k)
    <3> SUFFICES ASSUME NEW j \in Ids PROVE Stored(j)' <=> (Stored(j) \/ j = k)
      OBVIOUS
    <3>1. Len(log) \in Nat
      BY <1>2
    <3>2. \A i \in 1..Len(log') : i \in 1..Len(log) \/ i = Len(log) + 1
      BY <2>3, <3>1
    <3>3. 1..Len(log) \subseteq 1..Len(log') /\ Len(log) + 1 \in 1..Len(log')
      BY <2>3, <3>1
    <3> QED
      BY <2>3, <3>2, <3>3 DEF Stored
  <2>5. TypeOK'
    BY <1>3, <2>1, <2>3 DEF IInv, TypeOK
  <2>6. Numbered' /\ Written'
    BY <1>1, <1>2, <2>1, <2>2, <2>3, <2>4 DEF IInv, Numbered, Written
  <2>7. SentOnce'
    <3>1. \A j \in Ids : published'[j] <= 1 /\ (Stored(j)' => published'[j] = 1)
      BY <1>1, <1>2, <2>1, <2>2, <2>4 DEF IInv, SentOnce
    <3>2. \A i, j \in 1..Len(log') : log'[i] = log'[j] => i = j
      BY <1>2, <2>1, <2>3 DEF IInv, SentOnce, Stored
    <3> QED
      BY <3>1, <3>2 DEF SentOnce
  <2>8. OneIntroduction'
    <3>1. GatePending => Owner[k] = creator /\ log = <<>>
      BY <1>5, <2>1 DEF IInv, RequestInv
    <3>2. log = <<>> => Len(log) = 0
      BY <1>2
    <3> QED
      BY <1>2, <2>1, <2>3, <3>1, <3>2 DEF OneIntroduction, GatePending
  <2>9. ASSUME NEW q \in Requests PROVE RequestInv(q)'
    <3>1. CASE q = r
      <4>1. req'[r] = [req[r] EXCEPT !.pc = "answer", !.fresh = Inserts(r)]
        BY <1>2, <1>5 DEF WriteMessage, Inserts, Fails
      <4> QED
        BY <1>1, <1>2, <2>1, <2>2, <3>1, <4>1 DEF RequestInv, RequestStates
    <3>2. CASE q # r
      <4>1. req'[q] = req[q] /\ RequestInv(q)
        BY <1>2, <3>2 DEF WriteMessage, IInv
      <4>2. req[q].pc = "gated" => (~GatePending /\ lock' = q)
        BY <1>5, <3>2, <4>1 DEF RequestInv, IInv
      <4>3. published'[req[q].id] = published[req[q].id] \/ published'[req[q].id] = 1
        BY <1>1, <1>2, <2>1, <2>2, <4>1 DEF RequestInv
      <4> QED
        BY <1>1, <1>2, <2>1, <2>2, <2>3, <4>1, <4>2, <4>3, <3>2 DEF RequestInv, GatePending
    <3> QED
      BY <3>1, <3>2
  <2> QED
    BY <2>5, <2>6, <2>7, <2>8, <2>9 DEF IInv
<1> QED
  BY <1>4, <1>5

-----------------------------------------------------------------------------
(* Initially, and step by step                                             *)

LEMMA InitIInv == Init => IInv
<1> SUFFICES ASSUME Init PROVE IInv
  OBVIOUS
<1>1. log = <<>> /\ Len(log) = 0
  BY DEF Init
<1>2. TypeOK
  BY <1>1 DEF Init, TypeOK, Idle, RequestStates, OutboxStates
<1>3. Numbered /\ Written /\ SentOnce /\ OneIntroduction
  BY <1>1 DEF Init, Numbered, Written, SentOnce, OneIntroduction, Stored
<1>4. \A r \in Requests : RequestInv(r)
  BY DEF Init, RequestInv, Idle
<1> QED
  BY <1>2, <1>3, <1>4 DEF IInv

(* The steps on the conversation and on blocks.                            *)
LEMMA ConversationStepIInv == IInv /\ ConversationStep => IInv'
<1> SUFFICES ASSUME IInv, ConversationStep PROVE IInv'
  OBVIOUS
<1>a. /\ accepting \in [Users -> 0..MaxConv] /\ clearing \in [Users -> 0..MaxConv]
      /\ conv \in 0..MaxConv
  BY DEF IInv, TypeOK
<1>1. CASE DeleteConversation
  BY <1>1, <1>a, RemovalKeeps DEF DeleteConversation
<1>2. ASSUME NEW u \in Users, CheckCreate(u) PROVE IInv'
  <2>1. TypeOK'
    BY <1>2 DEF CheckCreate, IInv, TypeOK
  <2> QED
    BY <1>2, <2>1 DEF CheckCreate, IInv, RequestInv, Numbered, Written, SentOnce,
                      OneIntroduction, Stored, GatePending
<1>3. ASSUME NEW u \in Users, CreateDirectConversation(u) PROVE IInv'
  <2>1. CASE conv = 0
    <3>1. /\ conv' = made + 1 /\ made' = made + 1 /\ made < MaxConv
          /\ creator' = u /\ accepted' = {u} /\ creating' = creating \ {u}
          /\ UNCHANGED <<log, hidden, cleared, quiet, blocked, sendVars, clientVars,
                         accepting, clearing>>
      BY <1>3, <2>1 DEF CreateDirectConversation
    <3>2. log = <<>> /\ Len(log) = 0
      BY <2>1 DEF IInv, Numbered
    <3>3. TypeOK'
      BY <3>1 DEF IInv, TypeOK
    <3>4. Numbered' /\ Written'
      BY <3>1, <3>2 DEF IInv, TypeOK, Numbered, Written
    <3>5. SentOnce' /\ OneIntroduction'
      BY <3>1, <3>2 DEF IInv, SentOnce, OneIntroduction, Stored
    <3>6. ASSUME NEW q \in Requests PROVE RequestInv(q)'
      <4>1. made \in Nat /\ RequestInv(q)
        BY DEF IInv, TypeOK
      <4>2. req[q].pc # "idle" => req[q].conv # conv' /\ req[q].conv \in 1..made'
        BY <3>1, <4>1 DEF RequestInv
      <4> QED
        BY <3>1, <4>1, <4>2 DEF RequestInv
    <3> QED
      BY <3>3, <3>4, <3>5, <3>6 DEF IInv
  <2>2. CASE conv # 0
    <3>1. /\ creating' = creating \ {u}
          /\ UNCHANGED <<convVars, blocked, sendVars, clientVars, accepting, clearing>>
      BY <1>3, <2>2 DEF CreateDirectConversation
    <3>2. TypeOK'
      BY <3>1 DEF IInv, TypeOK
    <3> QED
      BY <3>1, <3>2 DEF IInv, RequestInv, Numbered, Written, SentOnce,
                        OneIntroduction, Stored, GatePending
  <2> QED
    BY <2>1, <2>2
<1>4. ASSUME NEW u \in Users, CheckAccept(u) PROVE IInv'
  <2>1. TypeOK'
    BY <1>4, <1>a DEF CheckAccept, IInv, TypeOK
  <2> QED
    BY <1>4, <2>1 DEF CheckAccept, IInv, RequestInv, Numbered, Written, SentOnce,
                      OneIntroduction, Stored, GatePending
<1>5. ASSUME NEW u \in Users, AcceptDirectConversation(u) PROVE IInv'
  <2>1. /\ accepted \subseteq accepted' /\ accepted' \subseteq Users
        /\ accepting' = [accepting EXCEPT ![u] = 0]
        /\ UNCHANGED <<conv, made, creator, log, hidden, cleared, quiet>>
        /\ UNCHANGED <<blocked, sendVars, clientVars, creating, clearing>>
    BY <1>5 DEF AcceptDirectConversation, IInv, TypeOK
  <2>2. TypeOK'
    BY <2>1, <1>a DEF IInv, TypeOK
  <2>3. Numbered' /\ Written' /\ SentOnce'
    BY <2>1 DEF IInv, Numbered, Written, SentOnce, Stored
  <2>4. GatePending' => GatePending
    BY <2>1 DEF GatePending
  <2>5. OneIntroduction'
    BY <2>1, <2>4 DEF IInv, OneIntroduction
  <2>6. ASSUME NEW q \in Requests PROVE RequestInv(q)'
    BY <2>1, <2>4, <2>6 DEF IInv, RequestInv, Stored
  <2> QED
    BY <2>2, <2>3, <2>5, <2>6 DEF IInv
<1>6. ASSUME NEW u \in Users, ClearMark(u) PROVE IInv'
  <2>1. Len(log) \in Nat
    BY DEF IInv, TypeOK
  <2>2. TypeOK'
    BY <1>6, <1>a, <2>1 DEF ClearMark, IInv, TypeOK
  <2>3. /\ Numbered' /\ Written' /\ SentOnce' /\ OneIntroduction'
        /\ \A q \in Requests : RequestInv(q)'
    BY <1>6 DEF ClearMark, IInv, RequestInv, Numbered, Written, SentOnce,
                OneIntroduction, Stored, GatePending
  <2> QED
    BY <2>2, <2>3 DEF IInv
<1>7. ASSUME NEW u \in Users, ClearCheck(u) PROVE IInv'
  <2>1. clearing' \in [Users -> 0..MaxConv] /\ UNCHANGED accepting
    BY <1>7, <1>a DEF ClearCheck
  <2>2. CASE RemoveConversation
    BY <1>7, <1>a, <2>1, <2>2, RemovalKeeps DEF ClearCheck
  <2>3. CASE UNCHANGED convVars
    <3>1. TypeOK'
      BY <1>7, <2>1, <2>3 DEF ClearCheck, IInv, TypeOK
    <3> QED
      BY <1>7, <2>3, <3>1 DEF ClearCheck, IInv, RequestInv, Numbered, Written, SentOnce,
                              OneIntroduction, Stored, GatePending
  <2> QED
    BY <1>7, <2>2, <2>3 DEF ClearCheck
<1>8. ASSUME NEW u \in Users, SetQuiet(u) \/ BlockUser(u) \/ UnblockUser(u) PROVE IInv'
  <2>1. /\ UNCHANGED <<conv, made, creator, accepted, log, hidden, cleared>>
        /\ UNCHANGED <<sendVars, clientVars, slotVars>>
        /\ quiet' \subseteq Users /\ blocked' \subseteq Users
    BY <1>8 DEF SetQuiet, BlockUser, UnblockUser, IInv, TypeOK
  <2>2. TypeOK'
    BY <2>1 DEF IInv, TypeOK
  <2> QED
    BY <2>1, <2>2 DEF IInv, RequestInv, Numbered, Written, SentOnce,
                      OneIntroduction, Stored, GatePending
<1> QED
  BY <1>1, <1>2, <1>3, <1>4, <1>5, <1>6, <1>7, <1>8, ControlAssumption
  DEF ConversationStep

(* The client's own steps touch nothing but its queue.                     *)
LEMMA ClientStepIInv == IInv /\ ClientStep => IInv'
<1> SUFFICES ASSUME IInv, NEW k \in Ids,
                    Compose(k) \/ RefuseSend(k) \/ RetryFailed(k) \/ CancelQueued(k)
             PROVE  IInv'
  BY DEF ClientStep
<1>1. CASE Compose(k)
  <2>1. /\ conv \in 1..made /\ conv \in 0..MaxConv /\ outbox[k] = "new"
        /\ outbox' = [outbox EXCEPT ![k] = "queued"]
        /\ target' = [target EXCEPT ![k] = conv]
        /\ UNCHANGED <<convVars, blocked, sendVars, slotVars>>
    BY <1>1 DEF Compose, IInv, TypeOK, Numbered
  <2>2. TypeOK'
    BY <2>1 DEF IInv, TypeOK, OutboxStates
  <2>3. outbox \in [Ids -> OutboxStates] /\ target \in [Ids -> 0..MaxConv]
    BY DEF IInv, TypeOK
  <2>4. Numbered'
    BY <2>1, <2>3 DEF IInv, TypeOK, Numbered
  <2>a. published[k] = 0 /\ UNCHANGED published
    BY <2>1 DEF IInv, Written
  <2>b. \A j \in Ids : Stored(j)' <=> Stored(j)
    BY <2>1 DEF Stored
  <2>c. Written'
    BY <2>1, <2>3, <2>a, <2>b DEF IInv, Written
  <2>5. SentOnce' /\ OneIntroduction'
    BY <2>1 DEF IInv, SentOnce, OneIntroduction, Stored, GatePending
  <2>6. ASSUME NEW q \in Requests PROVE RequestInv(q)'
    BY <2>1, <2>3, <2>6 DEF IInv, RequestInv, Stored, GatePending
  <2> QED
    BY <2>2, <2>4, <2>c, <2>5, <2>6 DEF IInv
<1>2. CASE RefuseSend(k) \/ RetryFailed(k) \/ CancelQueued(k)
  <2>1. /\ outbox' \in [Ids -> OutboxStates]
        /\ \A j \in Ids : /\ outbox'[j] = "new" <=> outbox[j] = "new"
                          /\ outbox'[j] = "acked" <=> outbox[j] = "acked"
        /\ UNCHANGED <<convVars, blocked, sendVars, target, slotVars>>
    <3>1. outbox \in [Ids -> OutboxStates]
      BY DEF IInv, TypeOK
    <3>2. CASE RefuseSend(k)
      <4>1. outbox' = outbox \/ (outbox[k] = "queued" /\ outbox' = [outbox EXCEPT ![k] = "failed"])
        BY <3>2 DEF RefuseSend, AfterRefusal
      <4> QED
        BY <3>1, <3>2, <4>1 DEF RefuseSend, OutboxStates
    <3>3. CASE RetryFailed(k)
      BY <3>1, <3>3 DEF RetryFailed, OutboxStates
    <3>4. CASE CancelQueued(k)
      BY <3>1, <3>4 DEF CancelQueued, OutboxStates
    <3> QED
      BY <1>2, <3>2, <3>3, <3>4
  <2>2. TypeOK'
    BY <2>1 DEF IInv, TypeOK
  <2>3. Numbered' /\ Written' /\ SentOnce' /\ OneIntroduction'
    BY <2>1 DEF IInv, Numbered, Written, SentOnce, OneIntroduction, Stored, GatePending
  <2>4. ASSUME NEW q \in Requests PROVE RequestInv(q)'
    BY <2>1, <2>4 DEF IInv, RequestInv, Stored, GatePending
  <2> QED
    BY <2>2, <2>3, <2>4 DEF IInv
<1> QED
  BY <1>1, <1>2

(* The steps of a request.                                                 *)
LEMMA SendStepIInv == IInv /\ SendStep => IInv'
<1> SUFFICES ASSUME IInv, NEW r \in Requests,
                    \/ \E k \in Ids : ReadSendContext(r, k)
                    \/ CreateMessage(r) \/ MessageRequestGate(r) \/ CreateIntroduction(r)
                    \/ Acknowledge(r) \/ LoseAnswer(r) \/ NotifyNewMessage(r) \/ Crash(r)
             PROVE  IInv'
  BY DEF SendStep
<1>a. /\ req \in [Requests -> RequestStates] /\ notes \in [Ids -> Nat]
      /\ lock \in Requests \cup {NoOne} /\ outbox \in [Ids -> OutboxStates]
      /\ conv \in 0..MaxConv
  BY DEF IInv, TypeOK
<1>b. \A k \in Ids : outbox[k] = "acked" => published[k] = 1
  BY DEF IInv, Written
<1>c. Idle \in RequestStates
  BY DEF Idle, RequestStates
<1>d. req[r].pc # "idle" => req[r].id \in Ids
  BY DEF IInv, RequestInv
<1>1. ASSUME NEW k \in Ids, ReadSendContext(r, k) PROVE IInv'
  <2> DEFINE n == [pc |-> "checked", id |-> k, conv |-> conv,
                   pending |-> RequestPending, fresh |-> FALSE]
  <2>1. n \in RequestStates
    BY <1>a DEF RequestStates, RequestPending
  <2>2. /\ req' = [req EXCEPT ![r] = n]
        /\ conv \in 1..made /\ target[k] = conv /\ outbox[k] # "new"
        /\ UNCHANGED <<convVars, blocked, published, notes, lock, clientVars, slotVars>>
    BY <1>1 DEF ReadSendContext, IInv, TypeOK, Numbered
  <2>3. RequestInv(r)'
    BY <1>a, <2>2 DEF RequestInv, RequestPending
  <2> HIDE DEF n
  <2> QED
    BY <1>a, <1>b, <2>1, <2>2, <2>3, RequestMoves
<1>2. ASSUME CreateMessage(r) PROVE IInv'
  <2>1. Inserts(r) => ~GatePending
    BY <1>2 DEF CreateMessage, Inserts, IInv, RequestInv, GatePending
  <2> QED
    BY <1>2, <1>a, <2>1, WriteKeeps DEF CreateMessage
<1>3. ASSUME MessageRequestGate(r) PROVE IInv'
  <2> DEFINE k == req[r].id
             refused == /\ conv = req[r].conv /\ GatePending /\ ~Stored(k)
                        /\ (creator # Owner[k] \/ log # <<>>)
  <2>1. k \in Ids /\ RequestInv(r) /\ req[r].pc = "checked"
    BY <1>3, <1>d DEF MessageRequestGate, IInv
  <2>2. CASE refused
    <3>1. /\ req' = [req EXCEPT ![r] = Idle]
          /\ outbox' = outbox \/ (outbox[k] = "queued" /\ outbox' = [outbox EXCEPT ![k] = "failed"])
          /\ UNCHANGED <<convVars, blocked, published, notes, target, slotVars, lock>>
      BY <1>3, <2>2 DEF MessageRequestGate, AfterRefusal
    <3>2. /\ outbox' \in [Ids -> OutboxStates]
          /\ \A j \in Ids : /\ outbox'[j] = "new" <=> outbox[j] = "new"
                            /\ outbox'[j] = "acked" => outbox[j] = "acked"
      BY <1>a, <2>1, <3>1 DEF OutboxStates
    <3>3. RequestInv(r)'
      BY <1>a, <3>1 DEF RequestInv, Idle
    <3> QED
      BY <1>a, <1>b, <1>c, <3>1, <3>2, <3>3, RequestMoves
  <2>3. CASE ~refused
    <3>1. /\ req' = [req EXCEPT ![r].pc = "gated"] /\ lock = NoOne /\ lock' = r
          /\ UNCHANGED <<convVars, blocked, published, notes, target, slotVars, outbox>>
      BY <1>3, <2>3 DEF MessageRequestGate
    <3>0. [req[r] EXCEPT !.pc = "gated"] \in RequestStates
      BY <1>a DEF RequestStates
    <3>2. PICK n \in RequestStates : /\ n = [req[r] EXCEPT !.pc = "gated"]
                                     /\ req' = [req EXCEPT ![r] = n]
      BY <3>0, <3>1
    <3>3. /\ req'[r].pc = "gated" /\ req'[r].id = k /\ req'[r].conv = req[r].conv
      BY <1>a, <3>2 DEF RequestStates
    <3>4. RequestInv(r)'
      BY <2>1, <2>3, <3>1, <3>3 DEF RequestInv, Stored, GatePending
    <3> HIDE DEF k, refused
    <3> QED
      BY <1>a, <1>b, <3>1, <3>2, <3>4, RequestMoves
  <2> QED
    BY <2>2, <2>3
<1>4. ASSUME CreateIntroduction(r) PROVE IInv'
  <2>1. lock = r
    BY <1>4 DEF CreateIntroduction, IInv, RequestInv
  <2>2. notes' \in [Ids -> Nat]
    BY <1>4, <1>a, <1>d, NotifiedType DEF CreateIntroduction, IInv
  <2> QED
    BY <1>4, <1>a, <2>1, <2>2, WriteKeeps DEF CreateIntroduction
<1>5. ASSUME Acknowledge(r) \/ LoseAnswer(r) PROVE IInv'
  <2> DEFINE k == req[r].id
  <2>1. /\ req[r].pc = "answer" /\ RequestInv(r) /\ k \in Ids /\ published[k] = 1
    BY <1>5, <1>d DEF Acknowledge, LoseAnswer, IInv, RequestInv
  <2>2. PICK n \in RequestStates : /\ n = Answered(r)
                                   /\ req' = [req EXCEPT ![r] = n]
    BY <1>5, <1>a, <1>c DEF Acknowledge, LoseAnswer, Answered, RequestStates
  <2>3. /\ UNCHANGED <<convVars, blocked, published, notes, lock, target, slotVars>>
        /\ outbox' = outbox \/ (outbox[k] = "queued" /\ outbox' = [outbox EXCEPT ![k] = "acked"])
    BY <1>5 DEF Acknowledge, LoseAnswer
  <2>4. /\ outbox' \in [Ids -> OutboxStates]
        /\ \A j \in Ids : /\ outbox'[j] = "new" <=> outbox[j] = "new"
                          /\ outbox'[j] = "acked" => published[j] = 1
    BY <1>a, <1>b, <2>1, <2>3 DEF OutboxStates
  <2>5. /\ req'[r].pc = "idle" \/ (req'[r].pc = "after" /\ req'[r].id = k
                                    /\ req'[r].conv = req[r].conv)
    BY <1>a, <2>2 DEF Answered, Idle, RequestStates
  <2>6. RequestInv(r)'
    BY <2>1, <2>3, <2>4, <2>5 DEF RequestInv
  <2> HIDE DEF k
  <2> QED
    BY <1>a, <2>2, <2>3, <2>4, <2>6, RequestMoves
<1>6. ASSUME NotifyNewMessage(r) PROVE IInv'
  <2>1. notes' \in [Ids -> Nat]
    BY <1>6, <1>a, <1>d, NotifiedType DEF NotifyNewMessage, IInv
  <2>2. RequestInv(r)'
    BY <1>6, <1>a DEF NotifyNewMessage, RequestInv, Idle
  <2> QED
    BY <1>6, <1>a, <1>b, <1>c, <2>1, <2>2, RequestMoves DEF NotifyNewMessage
<1>7. ASSUME Crash(r) PROVE IInv'
  <2>1. RequestInv(r)'
    BY <1>7, <1>a DEF Crash, RequestInv, Idle
  <2> QED
    BY <1>7, <1>a, <1>b, <1>c, <2>1, RequestMoves DEF Crash
<1> QED
  BY <1>1, <1>2, <1>3, <1>4, <1>5, <1>6, <1>7

-----------------------------------------------------------------------------
(* Theorems                                                                *)

THEOREM Invariance == Spec => []IInv
<1>1. IInv /\ [Next]_vars => IInv'
  <2>1. ASSUME IInv, UNCHANGED vars PROVE IInv'
    <3>1. TypeOK'
      BY <2>1 DEF IInv, TypeOK
    <3>2. Numbered' /\ Written' /\ SentOnce' /\ OneIntroduction'
      BY <2>1 DEF IInv, Numbered, Written, SentOnce, OneIntroduction, Stored, GatePending
    <3>3. ASSUME NEW q \in Requests PROVE RequestInv(q)'
      BY <2>1, <3>3 DEF IInv, RequestInv, Stored, GatePending
    <3> QED
      BY <3>1, <3>2, <3>3 DEF IInv
  <2> QED
    BY <2>1, ConversationStepIInv, ClientStepIInv, SendStepIInv DEF Next
<1> QED
  BY <1>1, InitIInv, PTL DEF Spec

(* Every reachable state is of the declared types.                         *)
THEOREM TypeCorrect == Spec => []TypeOK
<1>1. IInv => TypeOK
  BY DEF IInv
<1> QED
  BY <1>1, Invariance, PTL

(* The promise of the message request: until the recipient accepts, a      *)
(* conversation holds at most one message and it is the creator's, however *)
(* many requests createMessage serves at the same time.                    *)
THEOREM MessageRequestSafety == Spec => []OneIntroduction
<1>1. IInv => OneIntroduction
  BY DEF IInv
<1> QED
  BY <1>1, Invariance, PTL

(* The unique client id: however often and however concurrently a client   *)
(* retries, createMessage stores one row and writes its events once.       *)
THEOREM RetriesAreIdempotent == Spec => []SentOnce
<1>1. IInv => SentOnce
  BY DEF IInv
<1> QED
  BY <1>1, Invariance, PTL

(* What the client dropped from its outbox was committed by createMessage  *)
(* and stays as long as its conversation does.                             *)
THEOREM AcknowledgedIsStored == Spec => []AckedIsStored
<1>1. IInv => AckedIsStored
  BY DEF IInv, Written, AckedIsStored
<1> QED
  BY <1>1, Invariance, PTL

-----------------------------------------------------------------------------
(* Consent, notifications and the abstract delivery.  One lemma about the  *)
(* log serves all three.                                                   *)

(* A step leaves the log, empties it, or inserts the row of one request.   *)
Leaves  == UNCHANGED <<log, published>>
Empties == RemoveConversation /\ UNCHANGED <<published, notes, outbox, req>>
Adds(r) == /\ req[r].pc \in {"checked", "gated"} /\ Inserts(r) /\ WriteMessage(r)
           /\ GatePending => req[r].pc = "gated"
           /\ IF req[r].pc = "gated" THEN notes' = Notified(req[r].id) ELSE UNCHANGED notes
           /\ UNCHANGED <<outbox, target>>

LEMMA LogSteps ==
  ASSUME IInv, [Next]_vars
  PROVE  Leaves \/ Empties \/ \E r \in Requests : Adds(r)
<1>1. CASE ConversationStep
  BY <1>1 DEF ConversationStep, DeleteConversation, CheckCreate, CreateDirectConversation,
     CheckAccept, AcceptDirectConversation, ClearMark, ClearCheck, SetQuiet, BlockUser,
     UnblockUser, Leaves, Empties
<1>2. CASE ClientStep
  BY <1>2 DEF ClientStep, Compose, RefuseSend, RetryFailed, CancelQueued, Leaves
<1>3. ASSUME NEW r \in Requests, CreateMessage(r) PROVE Leaves \/ Adds(r)
  <2>1. Inserts(r) => ~GatePending
    BY <1>3 DEF CreateMessage, Inserts, IInv, RequestInv, GatePending
  <2>2. ~Inserts(r) => Leaves
    BY <1>3 DEF CreateMessage, WriteMessage, Leaves
  <2> QED
    BY <1>3, <2>1, <2>2 DEF CreateMessage, Adds
<1>4. ASSUME NEW r \in Requests, CreateIntroduction(r) PROVE Leaves \/ Adds(r)
  <2>1. ~Inserts(r) => Leaves
    BY <1>4 DEF CreateIntroduction, WriteMessage, Leaves
  <2> QED
    BY <1>4, <2>1 DEF CreateIntroduction, Adds
<1>5. CASE SendStep
  BY <1>3, <1>4, <1>5 DEF SendStep, ReadSendContext, MessageRequestGate, Acknowledge,
     LoseAnswer, NotifyNewMessage, Crash, Leaves
<1>6. CASE UNCHANGED vars
  BY <1>6 DEF Leaves
<1> QED
  BY <1>1, <1>2, <1>5, <1>6 DEF Next

(* What an insert does to the rows.                                        *)
LEMMA RowAdded ==
  ASSUME IInv, NEW r \in Requests, Adds(r)
  PROVE  /\ req[r].id \in Ids /\ log' = Append(log, req[r].id)
         /\ ~Stored(req[r].id) /\ published[req[r].id] = 0
         /\ published' = [published EXCEPT ![req[r].id] = 1]
         /\ outbox[req[r].id] \in {"queued", "failed", "cancelled"}
         /\ req' = [req EXCEPT ![r] = [@ EXCEPT !.pc = "answer", !.fresh = TRUE]]
         /\ \A k \in Ids : Stored(k)' <=> (Stored(k) \/ k = req[r].id)
<1> DEFINE k == req[r].id
<1>1. /\ k \in Ids /\ target[k] = req[r].conv /\ outbox[k] # "new"
      /\ ~Stored(k) /\ conv = req[r].conv
      /\ log' = Append(log, k) /\ published' = [published EXCEPT ![k] = @ + 1]
  BY DEF IInv, RequestInv, Adds, Inserts, WriteMessage
<1>2. published[k] = 0
  BY <1>1 DEF IInv, Written
<1>3. outbox[k] \in {"queued", "failed", "cancelled"}
  BY <1>1, <1>2 DEF IInv, TypeOK, OutboxStates, Written
<1>4. published' = [published EXCEPT ![k] = 1]
  BY <1>1, <1>2 DEF IInv, TypeOK
<1>5. req' = [req EXCEPT ![r] = [@ EXCEPT !.pc = "answer", !.fresh = TRUE]]
  BY DEF Adds, WriteMessage, Inserts, Fails
<1>6. log \in Seq(Ids)
  BY DEF IInv, TypeOK
<1>7. \A j \in Ids : Stored(j)' <=> (Stored(j) \/ j = k)
  <2> SUFFICES ASSUME NEW j \in Ids PROVE Stored(j)' <=> (Stored(j) \/ j = k)
    OBVIOUS
  <2>1. /\ Len(log') = Len(log) + 1 /\ log'[Len(log) + 1] = k
        /\ \A i \in 1..Len(log) : log'[i] = log[i]
        /\ Len(log) \in Nat
    BY <1>1, <1>6
  <2>2. \A i \in 1..Len(log') : i \in 1..Len(log) \/ i = Len(log) + 1
    BY <2>1
  <2>3. 1..Len(log) \subseteq 1..Len(log') /\ Len(log) + 1 \in 1..Len(log')
    BY <2>1
  <2> QED
    BY <2>1, <2>2, <2>3 DEF Stored
<1> QED
  BY <1>1, <1>2, <1>3, <1>4, <1>5, <1>7

-----------------------------------------------------------------------------
(* Consent                                                                 *)

(* Whoever is about to accept did not create that conversation.            *)
AcceptInv ==
  \A u \in Users : /\ accepting[u] <= made
                   /\ accepting[u] # 0 /\ accepting[u] = conv => u # creator

(* Consent is not withdrawn or handed on (acceptDirectConversation).       *)
THEOREM ConsentStaysOwn == Spec => ConsentIsOwn
<1> DEFINE Step == conv # 0 /\ conv' = conv =>
                     /\ accepted \subseteq accepted'
                     /\ \A u \in accepted' \ accepted : u # creator /\ accepting[u] = conv
<1>1. Init => AcceptInv
  BY DEF Init, AcceptInv
<1>2. ASSUME IInv, AcceptInv, [Next]_vars PROVE AcceptInv' /\ Step
  <2>1. /\ accepting \in [Users -> 0..MaxConv] /\ conv \in 0..MaxConv /\ made \in 0..MaxConv
        /\ conv <= made
    BY <1>2 DEF IInv, TypeOK, Numbered
  <2>2. ASSUME UNCHANGED <<conv, made, creator, accepted, accepting>> PROVE AcceptInv' /\ Step
    BY <1>2, <2>2 DEF AcceptInv
  <2>3. ASSUME RemoveConversation, UNCHANGED accepting PROVE AcceptInv' /\ Step
    BY <1>2, <2>3 DEF AcceptInv, RemoveConversation
  <2>4. ASSUME NEW u \in Users, CreateDirectConversation(u) PROVE AcceptInv' /\ Step
    <3>1. CASE conv = 0
      <4>1. /\ conv' = made + 1 /\ made' = made + 1 /\ UNCHANGED accepting
        BY <2>4, <3>1 DEF CreateDirectConversation
      <4> QED
        BY <1>2, <2>1, <3>1, <4>1 DEF AcceptInv
    <3> QED
      BY <2>2, <2>4, <3>1 DEF CreateDirectConversation
  <2>5. ASSUME NEW u \in Users, CheckAccept(u) PROVE AcceptInv' /\ Step
    BY <1>2, <2>1, <2>5 DEF AcceptInv, CheckAccept
  <2>6. ASSUME NEW u \in Users, AcceptDirectConversation(u) PROVE AcceptInv' /\ Step
    BY <1>2, <2>1, <2>6 DEF AcceptInv, AcceptDirectConversation
  <2>7. CASE ConversationStep
    BY <2>2, <2>3, <2>4, <2>5, <2>6, <2>7, ControlAssumption
    DEF ConversationStep, DeleteConversation, CheckCreate, ClearMark, ClearCheck, SetQuiet,
        BlockUser, UnblockUser
  <2>8. CASE ClientStep
    BY <2>2, <2>8 DEF ClientStep, Compose, RefuseSend, RetryFailed, CancelQueued
  <2>9. CASE SendStep
    BY <2>2, <2>9 DEF SendStep, ReadSendContext, CreateMessage, MessageRequestGate,
       CreateIntroduction, WriteMessage, Acknowledge, LoseAnswer, NotifyNewMessage, Crash
  <2>10. CASE UNCHANGED vars
    BY <2>2, <2>10
  <2> QED
    BY <1>2, <2>7, <2>8, <2>9, <2>10 DEF Next
<1>3. Step => [Step]_vars
  OBVIOUS
<1> HIDE DEF Step
<1>4. Spec => [][Step]_vars
  BY <1>1, <1>2, <1>3, Invariance, PTL DEF Spec
<1> QED
  BY <1>4 DEF ConsentIsOwn, Step

-----------------------------------------------------------------------------
(* Notifications                                                           *)

(* The one request that inserted a message off the gate's path, and is not *)
(* done with it, still owes its notification.                              *)
Owes(r) == req[r].pc \in {"answer", "after"} /\ req[r].fresh

NoteInv ==
  /\ NotifiedOnce
  /\ \A r \in Requests :
       /\ req[r].pc = "gated" => req[r].pending
       /\ req[r].pc = "after" => req[r].fresh
       /\ Owes(r) /\ ~req[r].pending => notes[req[r].id] = 0
  /\ \A r, s \in Requests : Owes(r) /\ Owes(s) /\ req[r].id = req[s].id => r = s

(* One participant at most is notified of a message.                       *)
LEMMA OneRecipient ==
  ASSUME NEW k \in Ids
  PROVE  Cardinality(Notifiable(k)) \in Nat /\ Cardinality(Notifiable(k)) <= 1
<1>1. Owner[k] \in Users /\ IsFiniteSet(Users) /\ Cardinality(Users) = 2
  BY UsersAssumption, PairAssumption
<1>2. IsFiniteSet(Users \ {Owner[k]}) /\ Cardinality(Users \ {Owner[k]}) = 1
  BY <1>1, FS_RemoveElement
<1>3. Notifiable(k) \subseteq Users \ {Owner[k]}
  BY DEF Notifiable
<1> QED
  BY <1>2, <1>3, FS_Subset, FS_CardinalityType

(* What a notification does to the count.                                  *)
LEMMA OneMore ==
  ASSUME TypeOK, NEW k \in Ids, notes[k] = 0
  PROVE  /\ Notified(k) \in [Ids -> Nat] /\ Notified(k)[k] <= 1
         /\ \A j \in Ids : j # k => Notified(k)[j] = notes[j]
<1> DEFINE n == Cardinality(Notifiable(k))
<1>1. n \in Nat /\ n <= 1
  BY OneRecipient
<1>2. notes \in [Ids -> Nat]
  BY DEF TypeOK
<1> HIDE DEF n
<1>3. /\ [notes EXCEPT ![k] = @ + n] \in [Ids -> Nat]
      /\ [notes EXCEPT ![k] = @ + n][k] <= 1
      /\ \A j \in Ids : j # k => [notes EXCEPT ![k] = @ + n][j] = notes[j]
  BY <1>1, <1>2
<1> QED
  BY <1>3 DEF Notified, n

(* A request that moves on, and neither inserts nor notifies.              *)
LEMMA NotesStay ==
  ASSUME IInv, NoteInv, NEW r \in Requests, NEW n \in RequestStates,
         req' = [req EXCEPT ![r] = n], UNCHANGED <<published, notes>>,
         n.pc = "gated" => n.pending,
         n.pc \in {"answer", "after"} =>
           /\ n.pc = "after" => n.fresh
           /\ n.fresh => Owes(r) /\ n.id = req[r].id /\ n.pending = req[r].pending
  PROVE  NoteInv'
<1>1. req \in [Requests -> RequestStates]
  BY DEF IInv, TypeOK
<1>2. \A s \in Requests : req'[s] = IF s = r THEN n ELSE req[s]
  BY <1>1
<1>3. \A s \in Requests : Owes(s)' => Owes(s) /\ req'[s].id = req[s].id
  BY <1>2 DEF Owes
<1>4. NotifiedOnce'
  BY DEF NoteInv, NotifiedOnce
<1>5. \A s \in Requests : /\ req'[s].pc = "gated" => req'[s].pending
                          /\ req'[s].pc = "after" => req'[s].fresh
  BY <1>2 DEF NoteInv
<1>6. \A s \in Requests : Owes(s)' /\ ~req'[s].pending => notes'[req'[s].id] = 0
  BY <1>2, <1>3 DEF NoteInv, Owes
<1> QED
  BY <1>3, <1>4, <1>5, <1>6 DEF NoteInv

LEMMA AddsNotes ==
  ASSUME IInv, NoteInv, NEW r \in Requests, Adds(r)
  PROVE  NoteInv'
<1> DEFINE k == req[r].id
<1>1. /\ k \in Ids /\ published[k] = 0
      /\ published' = [published EXCEPT ![k] = 1]
      /\ req' = [req EXCEPT ![r] = [@ EXCEPT !.pc = "answer", !.fresh = TRUE]]
  BY RowAdded
<1>2. /\ req \in [Requests -> RequestStates] /\ notes \in [Ids -> Nat]
      /\ published \in [Ids -> Nat] /\ TypeOK
  BY DEF IInv, TypeOK
<1>3. notes[k] = 0
  BY <1>1, <1>2 DEF NoteInv, NotifiedOnce
<1>4. IF req[r].pc = "gated" THEN notes' = Notified(k) ELSE notes' = notes
  BY DEF Adds
<1>5. /\ \A j \in Ids : j # k => notes'[j] = notes[j]
      /\ notes'[k] <= 1 /\ (req[r].pc # "gated" => notes'[k] = 0)
  BY <1>1, <1>2, <1>3, <1>4, OneMore
<1>6. NotifiedOnce'
  BY <1>1, <1>2, <1>5 DEF NoteInv, NotifiedOnce
<1>7. /\ req'[r].pc = "answer" /\ req'[r].fresh /\ req'[r].id = k
      /\ req'[r].pending = req[r].pending
      /\ \A s \in Requests : s # r => req'[s] = req[s]
  BY <1>1, <1>2 DEF RequestStates
<1>8. \A s \in Requests : s # r /\ Owes(s) => req[s].id \in Ids /\ req[s].id # k
  BY <1>1 DEF Owes, IInv, RequestInv
<1>9. \A s \in Requests : Owes(s)' /\ ~req'[s].pending => notes'[req'[s].id] = 0
  <2> SUFFICES ASSUME NEW s \in Requests, Owes(s)', ~req'[s].pending
               PROVE  notes'[req'[s].id] = 0
    OBVIOUS
  <2>1. CASE s = r
    BY <1>5, <1>7, <2>1 DEF NoteInv
  <2>2. CASE s # r
    BY <1>5, <1>7, <1>8, <2>2 DEF NoteInv, Owes
  <2> QED
    BY <2>1, <2>2
<1>10. \A s, t \in Requests : Owes(s)' /\ Owes(t)' /\ req'[s].id = req'[t].id => s = t
  <2>1. \A s \in Requests : s # r /\ Owes(s)' => Owes(s) /\ req'[s].id = req[s].id /\ req[s].id # k
    BY <1>7, <1>8 DEF Owes
  <2> QED
    BY <1>7, <2>1 DEF NoteInv
<1> QED
  BY <1>6, <1>7, <1>9, <1>10 DEF NoteInv

LEMMA NoteStep ==
  ASSUME IInv, NoteInv, [Next]_vars
  PROVE  NoteInv'
<1>a. /\ req \in [Requests -> RequestStates] /\ notes \in [Ids -> Nat]
      /\ published \in [Ids -> Nat] /\ TypeOK
  BY DEF IInv, TypeOK
<1>b. Idle \in RequestStates /\ Idle.pc = "idle"
  BY DEF Idle, RequestStates
<1>1. ASSUME UNCHANGED <<published, notes, req>> PROVE NoteInv'
  BY <1>1 DEF NoteInv, NotifiedOnce, Owes
<1>2. CASE ConversationStep
  BY <1>1, <1>2 DEF ConversationStep, DeleteConversation, CheckCreate,
     CreateDirectConversation, CheckAccept, AcceptDirectConversation, ClearMark, ClearCheck,
     SetQuiet, BlockUser, UnblockUser, RemoveConversation
<1>3. CASE ClientStep \/ UNCHANGED vars
  BY <1>1, <1>3 DEF ClientStep, Compose, RefuseSend, RetryFailed, CancelQueued
<1>4. ASSUME NEW r \in Requests, NEW k \in Ids, ReadSendContext(r, k) PROVE NoteInv'
  <2> DEFINE n == [pc |-> "checked", id |-> k, conv |-> conv,
                   pending |-> RequestPending, fresh |-> FALSE]
  <2>1. n \in RequestStates /\ n.pc = "checked"
    BY <1>a DEF RequestStates, RequestPending, TypeOK
  <2>2. req' = [req EXCEPT ![r] = n] /\ UNCHANGED <<published, notes>>
    BY <1>4 DEF ReadSendContext
  <2> HIDE DEF n
  <2> QED
    BY <2>1, <2>2, NotesStay
<1>5. ASSUME NEW r \in Requests, MessageRequestGate(r) PROVE NoteInv'
  <2>1. PICK n \in RequestStates : /\ req' = [req EXCEPT ![r] = n]
                                   /\ n.pc = "idle" \/ (n.pc = "gated" /\ n.pending)
    <3>1. [req[r] EXCEPT !.pc = "gated"] \in RequestStates
      BY <1>a DEF RequestStates
    <3>2. [req[r] EXCEPT !.pc = "gated"].pc = "gated" /\ [req[r] EXCEPT !.pc = "gated"].pending
      BY <1>5, <1>a DEF MessageRequestGate, RequestStates
    <3>3. \/ req' = [req EXCEPT ![r] = Idle]
          \/ req' = [req EXCEPT ![r] = [req[r] EXCEPT !.pc = "gated"]]
      BY <1>5 DEF MessageRequestGate
    <3> QED
      BY <1>b, <3>1, <3>2, <3>3
  <2>2. UNCHANGED <<published, notes>>
    BY <1>5 DEF MessageRequestGate
  <2> QED
    BY <2>1, <2>2, NotesStay
<1>6. ASSUME NEW r \in Requests, CreateMessage(r) \/ CreateIntroduction(r) PROVE NoteInv'
  <2>1. CASE Inserts(r)
    <3>1. Inserts(r) /\ CreateMessage(r) => ~GatePending
      BY DEF CreateMessage, Inserts, IInv, RequestInv, GatePending
    <3>2. Adds(r)
      BY <1>6, <2>1, <3>1 DEF CreateMessage, CreateIntroduction, Adds
    <3> QED
      BY <3>2, AddsNotes
  <2>2. CASE ~Inserts(r)
    <3>1. UNCHANGED <<published, notes>> /\ WriteMessage(r)
      BY <1>6, <2>2 DEF CreateMessage, CreateIntroduction, WriteMessage
    <3> DEFINE m == [req[r] EXCEPT !.pc = "answer", !.fresh = FALSE]
    <3>2. m \in RequestStates /\ m.pc = "answer" /\ ~m.fresh
      BY <1>a DEF RequestStates
    <3>3. Inserts(r) = FALSE
      BY <2>2 DEF Inserts
    <3>4. req' = [req EXCEPT ![r] = Idle] \/ req' = [req EXCEPT ![r] = m]
      BY <3>1, <3>3 DEF WriteMessage
    <3> HIDE DEF m
    <3> QED
      BY <1>b, <3>1, <3>2, <3>4, NotesStay
  <2> QED
    BY <2>1, <2>2
<1>7. ASSUME NEW r \in Requests, Acknowledge(r) \/ LoseAnswer(r) PROVE NoteInv'
  <2> DEFINE m == [req[r] EXCEPT !.pc = "after"]
  <2>1. /\ m \in RequestStates /\ m.pc = "after" /\ m.fresh = req[r].fresh
        /\ m.id = req[r].id /\ m.pending = req[r].pending
    BY <1>a DEF RequestStates
  <2>2. \/ req' = [req EXCEPT ![r] = Idle]
        \/ req' = [req EXCEPT ![r] = m] /\ Owes(r)
    BY <1>7 DEF Acknowledge, LoseAnswer, Answered, Owes
  <2>3. UNCHANGED <<published, notes>>
    BY <1>7 DEF Acknowledge, LoseAnswer
  <2> HIDE DEF m
  <2> QED
    BY <1>b, <2>1, <2>2, <2>3, NotesStay DEF Owes
<1>8. ASSUME NEW r \in Requests, NotifyNewMessage(r) PROVE NoteInv'
  <2> DEFINE k == req[r].id
  <2>1. CASE notes' = notes
    BY <1>8, <1>b, <2>1, NotesStay DEF NotifyNewMessage
  <2>2. CASE notes' # notes
    <3>1. /\ req[r].pc = "after" /\ req[r].fresh /\ ~req[r].pending
          /\ notes' = Notified(k) /\ req' = [req EXCEPT ![r] = Idle] /\ UNCHANGED published
      BY <1>8, <2>2 DEF NotifyNewMessage, NoteInv
    <3>2. k \in Ids /\ published[k] = 1 /\ notes[k] = 0 /\ Owes(r)
      BY <3>1 DEF IInv, RequestInv, NoteInv, Owes
    <3>3. \A j \in Ids : IF j = k THEN notes'[j] <= 1 ELSE notes'[j] = notes[j]
      BY <1>a, <3>1, <3>2, OneMore
    <3>4. NotifiedOnce'
      BY <3>1, <3>2, <3>3 DEF NoteInv, NotifiedOnce
    <3>5. \A s \in Requests : req'[s] = IF s = r THEN Idle ELSE req[s]
      BY <1>a, <3>1
    <3>6. \A s \in Requests : Owes(s)' => s # r /\ Owes(s) /\ req'[s] = req[s] /\ req[s].id # k
      BY <1>b, <3>2, <3>5 DEF Owes, NoteInv
    <3>7. \A s \in Requests : Owes(s) => req[s].id \in Ids
      BY DEF IInv, RequestInv, Owes
    <3> QED
      BY <1>b, <3>3, <3>4, <3>5, <3>6, <3>7 DEF NoteInv
  <2> QED
    BY <2>1, <2>2
<1>9. ASSUME NEW r \in Requests, Crash(r) PROVE NoteInv'
  BY <1>9, <1>b, NotesStay DEF Crash
<1> QED
  BY <1>2, <1>3, <1>4, <1>5, <1>6, <1>7, <1>8, <1>9 DEF Next, SendStep

(* A message is notified once at most, and an introduction with its insert *)
(* (createMessage's transaction and the after() callback).                 *)
THEOREM NotificationsStayExact == Spec => NotificationsAreExact
<1> DEFINE Step == \A k \in Ids :
                     /\ log' = Append(log, k)
                     /\ GatePending
                     => notes'[k] = notes[k] + Cardinality(Notifiable(k))
<1>1. Init => NoteInv
  BY DEF Init, NoteInv, NotifiedOnce, Owes, Idle
<1>2. ASSUME IInv, [Next]_vars PROVE Step
  <2>1. /\ log \in Seq(Ids) /\ notes \in [Ids -> Nat]
    BY <1>2 DEF IInv, TypeOK
  <2>2. ASSUME NEW k \in Ids, log' = Append(log, k) PROVE log' # log /\ log' # <<>>
    <3>1. Len(log) \in Nat /\ Len(log') = Len(log) + 1
      BY <2>1, <2>2
    <3> QED
      BY <3>1
  <2> SUFFICES ASSUME NEW k \in Ids, log' = Append(log, k), GatePending
               PROVE  notes'[k] = notes[k] + Cardinality(Notifiable(k))
    OBVIOUS
  <2>3. PICK r \in Requests : Adds(r)
    BY <1>2, <2>2, LogSteps DEF Leaves, Empties, RemoveConversation
  <2>4. req[r].id \in Ids /\ log' = Append(log, req[r].id)
    BY <1>2, <2>3, RowAdded
  <2>5. req[r].id = k
    <3>1. \A j \in Ids : Append(log, j)[Len(log) + 1] = j
      BY <2>1
    <3> QED
      BY <2>4, <3>1
  <2>6. notes' = Notified(k)
    BY <2>3, <2>5 DEF Adds
  <2> QED
    BY <2>1, <2>6 DEF Notified
<1>3. NoteInv => NotifiedOnce
  BY DEF NoteInv
<1>4. Step => [Step]_vars
  OBVIOUS
<1> HIDE DEF Step
<1>5. Spec => []NotifiedOnce /\ [][Step]_vars
  BY <1>1, <1>2, <1>3, <1>4, NoteStep, Invariance, PTL DEF Spec
<1> QED
  BY <1>5 DEF NotificationsAreExact, Step

-----------------------------------------------------------------------------
(* Sending implements MessageDelivery: every step maps to a step of it, or *)
(* to none.                                                                *)

entry == [k \in Ids |-> Held(k)]
row == [k \in Ids |-> Row(k)]

(* The rows do not move while the log does not.                            *)
LEMMA RowsStay ==
  ASSUME Leaves
  PROVE  row' = row
<1>1. \A k \in Ids : Stored(k)' <=> Stored(k)
  BY DEF Leaves, Stored
<1> QED
  BY <1>1 DEF Leaves, row, Row

(* One entry moves in the queue.                                           *)
LEMMA EntryMoves ==
  ASSUME TypeOK, NEW k \in Ids, NEW o \in OutboxStates,
         outbox' = [outbox EXCEPT ![k] = o]
  PROVE  entry' = [entry EXCEPT ![k] = IF o = "failed" THEN "queued" ELSE o]
<1>1. outbox \in [Ids -> OutboxStates]
  BY DEF TypeOK
<1> QED
  BY <1>1 DEF entry, Held

(* How the client's queue moves: an entry is composed, cancelled, or       *)
(* acknowledged after its row was written; the rest only retries.          *)
EntryStep ==
  \/ entry' = entry
  \/ \E k \in Ids : entry[k] = "new" /\ entry' = [entry EXCEPT ![k] = "queued"]
  \/ \E k \in Ids : entry[k] = "queued" /\ entry' = [entry EXCEPT ![k] = "cancelled"]
  \/ \E k \in Ids : /\ entry[k] = "queued" /\ row[k] # "none"
                    /\ entry' = [entry EXCEPT ![k] = "acked"]

LEMMA EntrySteps ==
  ASSUME IInv, [Next]_vars
  PROVE  EntryStep /\ (entry' = entry \/ Leaves)
<1>a. TypeOK /\ outbox \in [Ids -> OutboxStates]
  BY DEF IInv, TypeOK
<1>b. \A k \in Ids : entry[k] = IF outbox[k] = "failed" THEN "queued" ELSE outbox[k]
  BY DEF entry, Held
<1>c. \A k \in Ids : [entry EXCEPT ![k] = entry[k]] = entry
  BY DEF entry
<1>1. ASSUME UNCHANGED outbox PROVE EntryStep /\ (entry' = entry \/ Leaves)
  BY <1>1 DEF EntryStep, entry, Held
<1>2. CASE ConversationStep
  BY <1>1, <1>2 DEF ConversationStep, DeleteConversation, CheckCreate,
     CreateDirectConversation, CheckAccept, AcceptDirectConversation, ClearMark, ClearCheck,
     SetQuiet, BlockUser, UnblockUser, RemoveConversation
<1>3. ASSUME NEW k \in Ids, outbox[k] \in {"queued", "failed"},
             outbox' = [outbox EXCEPT ![k] = "failed"] \/ outbox' = [outbox EXCEPT ![k] = "queued"]
      PROVE  entry' = entry
  BY <1>3, <1>a, <1>b, <1>c, EntryMoves DEF OutboxStates
<1>4. ASSUME NEW k \in Ids, Compose(k) \/ RefuseSend(k) \/ RetryFailed(k) \/ CancelQueued(k)
      PROVE  EntryStep /\ Leaves
  <2>1. Leaves
    BY <1>4 DEF Compose, RefuseSend, RetryFailed, CancelQueued, Leaves
  <2>2. CASE Compose(k)
    BY <2>1, <2>2, <1>a, <1>b, EntryMoves DEF Compose, EntryStep, OutboxStates
  <2>3. CASE RefuseSend(k)
    <3>1. outbox' = outbox \/ outbox' = [outbox EXCEPT ![k] = "failed"]
      BY <2>3 DEF RefuseSend, AfterRefusal
    <3> QED
      BY <1>1, <1>3, <2>1, <2>3, <3>1 DEF RefuseSend, EntryStep
  <2>4. CASE RetryFailed(k)
    BY <1>3, <2>1, <2>4 DEF RetryFailed, EntryStep
  <2>5. CASE CancelQueued(k)
    BY <2>1, <2>5, <1>a, <1>b, EntryMoves DEF CancelQueued, EntryStep, OutboxStates
  <2> QED
    BY <1>4, <2>1, <2>2, <2>3, <2>4, <2>5
<1>5. ASSUME NEW r \in Requests, MessageRequestGate(r) PROVE EntryStep /\ Leaves
  <2>1. Leaves
    BY <1>5 DEF MessageRequestGate, Leaves
  <2>2. req[r].id \in Ids
    BY <1>5 DEF MessageRequestGate, IInv, RequestInv
  <2>3. \/ outbox' = outbox
        \/ outbox[req[r].id] = "queued" /\ outbox' = [outbox EXCEPT ![req[r].id] = "failed"]
    BY <1>5 DEF MessageRequestGate, AfterRefusal
  <2> QED
    BY <1>1, <1>3, <2>1, <2>2, <2>3 DEF EntryStep
<1>6. ASSUME NEW r \in Requests, Acknowledge(r) PROVE EntryStep /\ Leaves
  <2> DEFINE k == req[r].id
  <2>1. k \in Ids /\ published[k] = 1
    BY <1>6 DEF Acknowledge, IInv, RequestInv
  <2>2. row[k] # "none"
    BY <2>1 DEF row, Row
  <2>3. \/ outbox' = outbox
        \/ outbox[k] = "queued" /\ outbox' = [outbox EXCEPT ![k] = "acked"]
    BY <1>6 DEF Acknowledge
  <2>4. Leaves
    BY <1>6 DEF Acknowledge, Leaves
  <2> QED
    BY <1>1, <1>a, <1>b, <2>1, <2>2, <2>3, <2>4, EntryMoves DEF EntryStep, OutboxStates
<1>7. CASE SendStep
  BY <1>1, <1>5, <1>6, <1>7 DEF SendStep, ReadSendContext, CreateMessage,
     CreateIntroduction, WriteMessage, LoseAnswer, NotifyNewMessage, Crash
<1> QED
  BY <1>1, <1>2, <1>4, <1>7 DEF Next, ClientStep

(* How the rows move: one is written for an entry that may be, or all of a *)
(* conversation's rows go; the queue waits meanwhile.                      *)
RowStep ==
  \/ row' = row
  \/ /\ entry' = entry
     /\ \/ \E k \in Ids : /\ entry[k] \in {"queued", "cancelled"} /\ row[k] = "none"
                          /\ row' = [row EXCEPT ![k] = "stored"]
        \/ row' = [k \in Ids |-> IF row[k] = "stored" THEN "gone" ELSE row[k]]

LEMMA RowSteps ==
  ASSUME IInv, [Next]_vars
  PROVE  RowStep
<1>a. \A k \in Ids : Stored(k) => published[k] = 1
  BY DEF IInv, SentOnce
<1>1. CASE Leaves
  BY <1>1, RowsStay DEF RowStep
<1>2. CASE Empties
  <2>1. \A k \in Ids : ~Stored(k)'
    <3>1. Len(log') = 0
      BY <1>2 DEF Empties, RemoveConversation
    <3> QED
      BY <3>1 DEF Stored
  <2>2. entry' = entry
    BY <1>2 DEF Empties, entry, Held
  <2>3. \A k \in Ids : Row(k)' = IF Row(k) = "stored" THEN "gone" ELSE Row(k)
    BY <1>2, <1>a, <2>1 DEF Empties, Row
  <2> QED
    BY <2>2, <2>3 DEF RowStep, row
<1>3. ASSUME NEW r \in Requests, Adds(r) PROVE RowStep
  <2> DEFINE k == req[r].id
  <2>1. /\ k \in Ids /\ ~Stored(k) /\ published[k] = 0
        /\ published' = [published EXCEPT ![k] = 1]
        /\ outbox[k] \in {"queued", "failed", "cancelled"}
        /\ \A j \in Ids : Stored(j)' <=> (Stored(j) \/ j = k)
    BY <1>3, RowAdded
  <2>2. entry' = entry /\ entry[k] \in {"queued", "cancelled"}
    BY <1>3, <2>1 DEF Adds, entry, Held
  <2>3. \A j \in Ids : Row(j)' = IF j = k THEN "stored" ELSE Row(j)
    <3>1. \A j \in Ids : j # k => published'[j] = published[j]
      BY <2>1 DEF IInv, TypeOK
    <3> QED
      BY <2>1, <3>1 DEF Row
  <2>4. row[k] = "none" /\ row' = [row EXCEPT ![k] = "stored"]
    BY <2>1, <2>3 DEF row, Row
  <2> QED
    BY <2>1, <2>2, <2>4 DEF RowStep
<1> QED
  BY <1>1, <1>2, <1>3, LogSteps

(* Through concurrent retries, lost answers, crashes, cancellation and     *)
(* removal, each entry is written at most once ever and dropped as         *)
(* delivered only after it was (the outbox and createMessage).             *)
THEOREM SendingImplementsDelivery == Spec => ImplementsDelivery
<1>1. Init => Delivery!Init
  <2> SUFFICES ASSUME Init PROVE Delivery!Init
    OBVIOUS
  <2>1. Len(log) = 0
    BY DEF Init
  <2>2. \A k \in Ids : Held(k) = "new" /\ Row(k) = "none"
    BY <2>1 DEF Init, Held, Row, Stored
  <2> QED
    BY <2>2 DEF Delivery!Init
<1>2. ASSUME IInv, [Next]_vars PROVE [Delivery!Next]_(Delivery!vars)
  <2>1. EntryStep /\ RowStep /\ (entry' = entry \/ row' = row)
    BY <1>2, EntrySteps, RowSteps, RowsStay
  <2>2. /\ entry = [k \in Ids |-> Held(k)] /\ entry' = [k \in Ids |-> Held(k)]'
        /\ row = [k \in Ids |-> Row(k)] /\ row' = [k \in Ids |-> Row(k)]'
    BY DEF entry, row
  <2>3. CASE entry' = entry
    BY <2>1, <2>2, <2>3 DEF RowStep, Delivery!Next, Delivery!Store,
       Delivery!RemoveConversation, Delivery!vars
  <2>4. CASE row' = row
    BY <2>1, <2>2, <2>4 DEF EntryStep, Delivery!Next, Delivery!Compose, Delivery!Cancel,
       Delivery!Acknowledge, Delivery!vars
  <2> QED
    BY <2>1, <2>3, <2>4
<1> QED
  BY <1>1, <1>2, Invariance, PTL DEF Spec, ImplementsDelivery, Delivery!Spec
=============================================================================
