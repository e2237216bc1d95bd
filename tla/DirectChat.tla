----------------------------- MODULE DirectChat -----------------------------
(***************************************************************************)
(* A direct conversation between two users: first contact as a message     *)
(* request, sending with a client-generated id over a network that loses   *)
(* answers, acceptance, blocking, muting, clearing and deletion.           *)
(*                                                                         *)
(* A send is handled in the steps the code takes between two reads or      *)
(* writes of the database: the route reads its context in one statement    *)
(* and decides, and only later does createMessage write.  Everything else  *)
(* may happen in between.                                                  *)
(*                                                                         *)
(* A definition named Bug... is a variant of the one after it with a       *)
(* plausible defect; no specification uses it.  It shows which property    *)
(* would notice that defect.                                               *)
(***************************************************************************)
EXTENDS Naturals, Sequences, FiniteSets

CONSTANTS
  Users,      \* the two participants
  Ids,        \* client message ids, each composed at most once
  Owner,      \* Owner[k]: the user whose outbox holds id k
  Requests,   \* POST requests the server runs at the same time
  MaxConv,    \* how often the conversation may be (re)created
  Muters,     \* users who mute and archive      \
  Blockers,   \* users who block and unblock      > bound the state space
  Clearers,   \* users who clear the chat        /
  NoOne       \* not a user and not a request

ASSUME UsersAssumption   == IsFiniteSet(Users)
ASSUME PairAssumption    == Cardinality(Users) = 2
ASSUME OwnerAssumption   == Owner \in [Ids -> Users]
ASSUME NoOneAssumption   == NoOne \notin Users /\ NoOne \notin Requests
ASSUME MaxConvAssumption == MaxConv \in Nat
ASSUME ControlAssumption ==
  Muters \subseteq Users /\ Blockers \subseteq Users /\ Clearers \subseteq Users

VARIABLES
  conv,       \* id of the live conversation row, 0 when there is none
  made,       \* how many conversations were created so far
  creator,    \* conversations.created_by_id
  accepted,   \* members whose accepted_at is set
  log,        \* message rows of the live conversation, in commit order
  hidden,     \* hidden[u]: how many of them u's cleared_at covers
  cleared,    \* members whose cleared_at is set
  quiet,      \* members who muted or archived the conversation
  blocked,    \* blocked: users who block the other one
  published,  \* published[k]: message:new event batches written for id k
  notes,      \* notes[k]: notification rows written for id k
  lock,       \* holder of the message-request advisory lock
  req,        \* req[r]: what request r has read and where it stands
  outbox,     \* outbox[k]: state of entry k in the client's local queue
  target,     \* target[k]: the conversation entry k was composed for
  creating,   \* users whose "start conversation" passed its block check
  accepting,  \* accepting[u]: conversation u is about to accept, or 0
  clearing    \* clearing[u]: conversation u has just cleared, or 0

convVars   == <<conv, made, creator, accepted, log, hidden, cleared, quiet>>
sendVars   == <<published, notes, lock, req>>
clientVars == <<outbox, target>>
slotVars   == <<creating, accepting, clearing>>
vars == <<convVars, blocked, sendVars, clientVars, slotVars>>

-----------------------------------------------------------------------------
(* Types *)

OutboxStates == {"new", "queued", "failed", "acked", "cancelled"}

(* pc: "checked" once the route's checks have passed, "gated" inside the   *)
(* message-request transaction, "answer" when the response is on its way,  *)
(* "after" while Next's after() callback is outstanding.  pending is the   *)
(* request_pending flag the route read; fresh says this request inserted.  *)
RequestStates ==
  [pc : {"idle", "checked", "gated", "answer", "after"},
   id : Ids \cup {NoOne}, conv : 0..MaxConv, pending : BOOLEAN, fresh : BOOLEAN]

Idle == [pc |-> "idle", id |-> NoOne, conv |-> 0, pending |-> FALSE, fresh |-> FALSE]

TypeOK ==
  /\ conv \in 0..MaxConv /\ made \in 0..MaxConv
  /\ creator \in Users \cup {NoOne}
  /\ accepted \subseteq Users /\ cleared \subseteq Users /\ quiet \subseteq Users
  /\ blocked \subseteq Users /\ creating \subseteq Users
  /\ log \in Seq(Ids)
  /\ hidden \in [Users -> Nat]
  /\ published \in [Ids -> Nat] /\ notes \in [Ids -> Nat]
  /\ lock \in Requests \cup {NoOne}
  /\ req \in [Requests -> RequestStates]
  /\ outbox \in [Ids -> OutboxStates]
  /\ target \in [Ids -> 0..MaxConv]
  /\ accepting \in [Users -> 0..MaxConv] /\ clearing \in [Users -> 0..MaxConv]

Init ==
  /\ conv = 0 /\ made = 0 /\ creator = NoOne
  /\ accepted = {} /\ cleared = {} /\ quiet = {} /\ blocked = {}
  /\ log = <<>> /\ hidden = [u \in Users |-> 0]
  /\ published = [k \in Ids |-> 0] /\ notes = [k \in Ids |-> 0]
  /\ lock = NoOne /\ req = [r \in Requests |-> Idle]
  /\ outbox = [k \in Ids |-> "new"] /\ target = [k \in Ids |-> 0]
  /\ creating = {}
  /\ accepting = [u \in Users |-> 0] /\ clearing = [u \in Users |-> 0]

(* A message row of the live conversation carries client id k. *)
Stored(k) == \E i \in 1..Len(log) : log[i] = k

(* Some member has not accepted yet: the route's request_pending. *)
RequestPending == Users \ accepted # {}

(* The gate's pending: a member other than the creator has not accepted.   *)
GatePending == Users \ (accepted \cup {creator}) # {}

-----------------------------------------------------------------------------
(* Starting, accepting and deleting the conversation                       *)

(* POST /api/conversations: the block check is a statement of its own.     *)
CheckCreate(u) ==
  /\ u \notin creating /\ made < MaxConv
  /\ blocked = {}
  /\ creating' = creating \cup {u}
  /\ UNCHANGED <<convVars, blocked, sendVars, clientVars, accepting, clearing>>

(* createDirectConversation: the unique dm_key leaves one winner; the      *)
(* other caller gets the existing conversation.                            *)
CreateDirectConversation(u) ==
  /\ u \in creating
  /\ creating' = creating \ {u}
  /\ IF conv = 0
       THEN /\ made < MaxConv
            /\ made' = made + 1 /\ conv' = made + 1
            /\ creator' = u /\ accepted' = {u}
            /\ UNCHANGED <<log, hidden, cleared, quiet>>
       ELSE UNCHANGED convVars
  /\ UNCHANGED <<blocked, sendVars, clientVars, accepting, clearing>>

(* The conversation row goes, and with it its members and its messages.    *)
RemoveConversation ==
  /\ conv' = 0 /\ creator' = NoOne
  /\ accepted' = {} /\ cleared' = {} /\ quiet' = {}
  /\ log' = <<>> /\ hidden' = [u \in Users |-> 0]
  /\ UNCHANGED made

DeleteConversation ==
  /\ conv # 0
  /\ RemoveConversation
  /\ UNCHANGED <<blocked, sendVars, clientVars, slotVars>>

(* acceptDirectConversation reads membership and conversation first ...    *)
CheckAccept(u) ==
  /\ conv # 0 /\ u # creator /\ u \notin accepted
  /\ accepting[u] = 0
  /\ accepting' = [accepting EXCEPT ![u] = conv]
  /\ UNCHANGED <<convVars, blocked, sendVars, clientVars, creating, clearing>>

(* The update is by user, not by the membership row that was read.         *)
BugAcceptAny(u) ==
  /\ accepting[u] # 0
  /\ accepted' = IF conv # 0 THEN accepted \cup {u} ELSE accepted
  /\ accepting' = [accepting EXCEPT ![u] = 0]
  /\ UNCHANGED <<conv, made, creator, log, hidden, cleared, quiet>>
  /\ UNCHANGED <<blocked, sendVars, clientVars, creating, clearing>>

(* ... and then updates the membership row it read, if that still exists.  *)
AcceptDirectConversation(u) ==
  /\ accepting[u] # 0
  /\ accepted' = IF accepting[u] = conv THEN accepted \cup {u} ELSE accepted
  /\ accepting' = [accepting EXCEPT ![u] = 0]
  /\ UNCHANGED <<conv, made, creator, log, hidden, cleared, quiet>>
  /\ UNCHANGED <<blocked, sendVars, clientVars, creating, clearing>>

(* clearConversationForUser marks the caller's row first ...               *)
ClearMark(u) ==
  /\ conv # 0 /\ clearing[u] = 0
  /\ cleared' = cleared \cup {u}
  /\ hidden' = [hidden EXCEPT ![u] = Len(log)]
  /\ quiet' = quiet \cup {u}
  /\ clearing' = [clearing EXCEPT ![u] = conv]
  /\ UNCHANGED <<conv, made, creator, accepted, log>>
  /\ UNCHANGED <<blocked, sendVars, clientVars, creating, accepting>>

(* ... and removes the conversation when every row carries cleared_at.     *)
ClearCheck(u) ==
  /\ clearing[u] # 0
  /\ clearing' = [clearing EXCEPT ![u] = 0]
  /\ IF clearing[u] = conv /\ cleared = Users
       THEN RemoveConversation
       ELSE UNCHANGED convVars
  /\ UNCHANGED <<blocked, sendVars, clientVars, creating, accepting>>

(* applyConversationControl: mute, archive and their inverses.             *)
SetQuiet(u) ==
  /\ conv # 0
  /\ quiet' = IF u \in quiet THEN quiet \ {u} ELSE quiet \cup {u}
  /\ UNCHANGED <<conv, made, creator, accepted, log, hidden, cleared>>
  /\ UNCHANGED <<blocked, sendVars, clientVars, slotVars>>

BlockUser(u) ==
  /\ u \notin blocked
  /\ blocked' = blocked \cup {u}
  /\ UNCHANGED <<convVars, sendVars, clientVars, slotVars>>

UnblockUser(u) ==
  /\ u \in blocked
  /\ blocked' = blocked \ {u}
  /\ UNCHANGED <<convVars, sendVars, clientVars, slotVars>>

-----------------------------------------------------------------------------
(* The client's outbox                                                     *)

(* A message typed for the open conversation enters the local queue.       *)
Compose(k) ==
  /\ outbox[k] = "new" /\ conv # 0
  /\ outbox' = [outbox EXCEPT ![k] = "queued"]
  /\ target' = [target EXCEPT ![k] = conv]
  /\ UNCHANGED <<convVars, blocked, sendVars, slotVars>>

(* The user retries a message shown as failed.                             *)
RetryFailed(k) ==
  /\ outbox[k] = "failed"
  /\ outbox' = [outbox EXCEPT ![k] = "queued"]
  /\ UNCHANGED <<convVars, blocked, sendVars, target, slotVars>>

(* The user cancels a message that waits or failed; a request for it may   *)
(* be under way all the same.                                              *)
CancelQueued(k) ==
  /\ outbox[k] \in {"queued", "failed"}
  /\ outbox' = [outbox EXCEPT ![k] = "cancelled"]
  /\ UNCHANGED <<convVars, blocked, sendVars, target, slotVars>>

-----------------------------------------------------------------------------
(* POST /api/conversations/[id]/messages                                   *)

(* A refusal: the open chat shows the entry as failed, the app-wide outbox *)
(* keeps it queued.                                                        *)
AfterRefusal(k) ==
  IF outbox[k] = "queued"
    THEN {outbox, [outbox EXCEPT ![k] = "failed"]} ELSE {outbox}

(* The route answers 404 or 403 from the context it reads.                 *)
RefuseSend(k) ==
  /\ outbox[k] = "queued"
  /\ conv # target[k] \/ blocked # {}
  /\ outbox' \in AfterRefusal(k)
  /\ UNCHANGED <<convVars, blocked, sendVars, target, slotVars>>

(* The client posts a queued entry; the route reads its context in one     *)
(* statement and finds nothing against it.                                 *)
ReadSendContext(r, k) ==
  /\ req[r].pc = "idle"
  /\ outbox[k] = "queued"
  /\ conv # 0 /\ target[k] = conv
  /\ blocked = {}
  /\ req' = [req EXCEPT ![r] = [pc |-> "checked", id |-> k, conv |-> conv,
                                pending |-> RequestPending, fresh |-> FALSE]]
  /\ UNCHANGED <<convVars, blocked, published, notes, lock, clientVars, slotVars>>

(* No unique constraint on sender and client id.                           *)
BugNoConflict(r) == conv = req[r].conv

(* The insert no longer joins the conversation row.                        *)
BugNoConversation(r) == ~Stored(req[r].id)

(* The insert statement of createMessage finds the row of an earlier try   *)
(* (the conflict on sender and client id), or inserts the message with its *)
(* realtime events, or finds no conversation and fails.                    *)
Inserts(r) == ~Stored(req[r].id) /\ conv = req[r].conv
Fails(r)   == ~Stored(req[r].id) /\ conv # req[r].conv

WriteMessage(r) ==
  /\ req' = [req EXCEPT ![r] = IF Fails(r) THEN Idle
                               ELSE [@ EXCEPT !.pc = "answer", !.fresh = Inserts(r)]]
  /\ log' = IF Inserts(r) THEN Append(log, req[r].id) ELSE log
  /\ published' = IF Inserts(r) THEN [published EXCEPT ![req[r].id] = @ + 1]
                                ELSE published
  /\ UNCHANGED <<conv, made, creator, accepted, hidden, cleared, quiet>>

(* Members other than the sender who take notifications.                   *)
Notifiable(k) == Users \ (quiet \cup {Owner[k]})

Notified(k) == [notes EXCEPT ![k] = @ + Cardinality(Notifiable(k))]

(* An established chat: one statement, no transaction.                     *)
CreateMessage(r) ==
  /\ req[r].pc = "checked" /\ ~req[r].pending
  /\ WriteMessage(r)
  /\ UNCHANGED <<blocked, notes, lock, clientVars, slotVars>>

(* The gate is read without the advisory lock.                             *)
BugNoLock(r) ==
  LET k == req[r].id IN
  /\ req[r].pc = "checked" /\ req[r].pending
  /\ req' = [req EXCEPT ![r] =
               IF /\ conv = req[r].conv /\ GatePending /\ ~Stored(k)
                  /\ (creator # Owner[k] \/ log # <<>>)
                 THEN Idle ELSE [@ EXCEPT !.pc = "gated"]]
  /\ UNCHANGED <<convVars, blocked, published, notes, lock, clientVars, slotVars>>

(* A pending request: the transaction takes the conversation's advisory    *)
(* lock and reads the gate, which refuses all but the introduction.        *)
MessageRequestGate(r) ==
  LET k == req[r].id
      refused == /\ conv = req[r].conv /\ GatePending /\ ~Stored(k)
                 /\ (creator # Owner[k] \/ log # <<>>)
  IN
  /\ req[r].pc = "checked" /\ req[r].pending
  /\ lock = NoOne
  /\ IF refused
       THEN /\ req' = [req EXCEPT ![r] = Idle] /\ UNCHANGED lock
            /\ outbox' \in AfterRefusal(k)
       ELSE /\ req' = [req EXCEPT ![r].pc = "gated"] /\ lock' = r
            /\ UNCHANGED outbox
  /\ UNCHANGED <<convVars, blocked, published, notes, target, slotVars>>

(* The notification is left to the after() callback.                       *)
BugNotifyLater(r) ==
  /\ req[r].pc = "gated"
  /\ WriteMessage(r)
  /\ lock' = NoOne
  /\ UNCHANGED <<blocked, notes, clientVars, slotVars>>

(* The rest of that transaction: the message, its events and the           *)
(* recipient's notification commit together and the lock is released.      *)
CreateIntroduction(r) ==
  /\ req[r].pc = "gated"
  /\ WriteMessage(r)
  /\ notes' = IF Inserts(r) THEN Notified(req[r].id) ELSE notes
  /\ lock' = NoOne
  /\ UNCHANGED <<blocked, clientVars, slotVars>>

(* The work still due once a request is answered: after(notify) for a      *)
(* message this request inserted, nothing otherwise.                       *)
Answered(r) == IF req[r].fresh THEN [req[r] EXCEPT !.pc = "after"] ELSE Idle

(* The answer reaches the client, which drops the entry from its queue.    *)
Acknowledge(r) ==
  /\ req[r].pc = "answer"
  /\ outbox' = IF outbox[req[r].id] = "queued"
                 THEN [outbox EXCEPT ![req[r].id] = "acked"] ELSE outbox
  /\ req' = [req EXCEPT ![r] = Answered(r)]
  /\ UNCHANGED <<convVars, blocked, published, notes, lock, target, slotVars>>

(* The answer is lost or comes after the client's timeout: it will retry.  *)
LoseAnswer(r) ==
  /\ req[r].pc = "answer"
  /\ req' = [req EXCEPT ![r] = Answered(r)]
  /\ UNCHANGED <<convVars, blocked, published, notes, lock, clientVars, slotVars>>

(* notifyNewMessage after the answer.  An introduction already has its     *)
(* notification; any other message gets one now, if the chat is still here.*)
NotifyNewMessage(r) ==
  /\ req[r].pc = "after"
  /\ notes' = IF ~req[r].pending /\ conv = req[r].conv
                THEN Notified(req[r].id) ELSE notes
  /\ req' = [req EXCEPT ![r] = Idle]
  /\ UNCHANGED <<convVars, blocked, published, lock, clientVars, slotVars>>

(* The lock is tied to the session, not to the transaction.                *)
BugLockSurvives(r) ==
  /\ req[r].pc # "idle"
  /\ req' = [req EXCEPT ![r] = Idle]
  /\ UNCHANGED <<convVars, blocked, published, notes, lock, clientVars, slotVars>>

(* The process dies or the database connection breaks before the next      *)
(* statement commits: an open transaction rolls back and its lock goes.    *)
Crash(r) ==
  /\ req[r].pc # "idle"
  /\ req' = [req EXCEPT ![r] = Idle]
  /\ lock' = IF lock = r THEN NoOne ELSE lock
  /\ UNCHANGED <<convVars, blocked, published, notes, clientVars, slotVars>>

-----------------------------------------------------------------------------

ConversationStep ==
  \/ DeleteConversation
  \/ \E u \in Users : \/ CheckCreate(u) \/ CreateDirectConversation(u)
                      \/ CheckAccept(u) \/ AcceptDirectConversation(u)
  \/ \E u \in Clearers : ClearMark(u) \/ ClearCheck(u)
  \/ \E u \in Muters : SetQuiet(u)
  \/ \E u \in Blockers : BlockUser(u) \/ UnblockUser(u)

ClientStep ==
  \E k \in Ids : Compose(k) \/ RefuseSend(k) \/ RetryFailed(k) \/ CancelQueued(k)

SendStep ==
  \E r \in Requests :
    \/ \E k \in Ids : ReadSendContext(r, k)
    \/ CreateMessage(r) \/ MessageRequestGate(r) \/ CreateIntroduction(r)
    \/ Acknowledge(r) \/ LoseAnswer(r) \/ NotifyNewMessage(r) \/ Crash(r)

Next == ConversationStep \/ ClientStep \/ SendStep

Spec == Init /\ [][Next]_vars

(* What may be relied on: the outbox retries on a timer and on reconnect,  *)
(* a request left alone runs on, and neither crashes nor lost answers hit  *)
(* every single try of an entry that is tried for ever.                    *)
TryOf(k, r) == req[r].id = k

Fairness ==
  /\ \A r \in Requests : WF_vars(CreateIntroduction(r)) /\ WF_vars(NotifyNewMessage(r))
  /\ \A k \in Ids :
       /\ SF_vars(\E r \in Requests : ReadSendContext(r, k))
       /\ SF_vars(\E r \in Requests : TryOf(k, r) /\ CreateMessage(r))
       /\ SF_vars(\E r \in Requests : TryOf(k, r) /\ MessageRequestGate(r))
       /\ SF_vars(\E r \in Requests : TryOf(k, r) /\ Acknowledge(r))

FairSpec == Spec /\ Fairness

-----------------------------------------------------------------------------
(* Properties *)

(* Until the recipient accepts, a new conversation holds at most one       *)
(* message and it is the creator's: the promise of the message request,    *)
(* however many sends, retries and acceptances overlap.                    *)
OneIntroduction ==
  conv # 0 /\ GatePending => /\ Len(log) <= 1
                             /\ \A i \in 1..Len(log) : Owner[log[i]] = creator

(* A client id names at most one row, and its realtime events were written *)
(* exactly when that row was: a retry that races the first try, or comes   *)
(* after its answer was lost, neither duplicates nor re-announces it.      *)
SentOnce ==
  /\ \A i, j \in 1..Len(log) : log[i] = log[j] => i = j
  /\ \A k \in Ids : published[k] <= 1 /\ (Stored(k) => published[k] = 1)

(* An entry the client dropped as delivered was committed: the             *)
(* conversation still has it unless the conversation itself was removed.   *)
AckedIsStored ==
  \A k \in Ids : outbox[k] = "acked" =>
    published[k] = 1 /\ (target[k] = conv => Stored(k))

(* An introduction never becomes visible without the recipient's           *)
(* notification, unless the recipient muted or archived the chat, and no   *)
(* message is notified twice, whichever of the introduction's transaction  *)
(* and the after() callback is to write the notification.                  *)
NotifiedOnce == \A k \in Ids : notes[k] <= published[k]
NotificationsAreExact ==
  /\ []NotifiedOnce
  /\ [][\A k \in Ids :
         /\ log' = Append(log, k)
         /\ GatePending
         => notes'[k] = notes[k] + Cardinality(Notifiable(k))]_vars

(* Consent is not withdrawn or handed on: while a conversation lives,      *)
(* accepted members stay accepted, and only a non-creator's own acceptance *)
(* ends the request.                                                       *)
ConsentIsOwn ==
  [][conv # 0 /\ conv' = conv =>
       /\ accepted \subseteq accepted'
       /\ \A u \in accepted' \ accepted : u # creator /\ accepting[u] = conv]_vars

(* A queued entry does not wait for ever once its conversation is open to  *)
(* it: accepted by both, nobody blocking.                                  *)
OpenFor(k) == conv # 0 /\ conv = target[k] /\ accepted = Users /\ blocked = {}
QueuedIsDelivered ==
  \A k \in Ids : <>[]OpenFor(k) => []<>(outbox[k] # "queued")

(* Sending implements MessageDelivery: through concurrent retries, lost    *)
(* answers, crashes, cancellation and removal, each entry is written at    *)
(* most once ever and dropped as delivered only after it was.              *)
Held(k) == IF outbox[k] = "failed" THEN "queued" ELSE outbox[k]
Row(k) == IF Stored(k) THEN "stored" ELSE IF published[k] > 0 THEN "gone" ELSE "none"
Delivery == INSTANCE MessageDelivery
              WITH entry <- [k \in Ids |-> Held(k)], row <- [k \in Ids |-> Row(k)]
ImplementsDelivery == Delivery!Spec
=============================================================================
