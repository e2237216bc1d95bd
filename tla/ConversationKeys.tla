-------------------------- MODULE ConversationKeys --------------------------
(* The keys of one encrypted chat.  Before it sends, a device prepares: it *)
(* reads who takes part and with which trusted devices, sees whether its   *)
(* user knows these devices, and makes sure that each of them has a copy   *)
(* of the sending key.  In a direct chat that is the key of the chat; in a *)
(* group each device has its own, and a new one for every roster.  Every   *)
(* request may meet a server that has changed since the last.  A           *)
(* definition named Bug... is a plausible defect of one below it, for the  *)
(* mutants.                                                                *)
EXTENDS Naturals, Sequences

CONSTANTS
  Users, Devices,
  Creator,     \* the user who started the direct chat
  UserOf,      \* the owner of each device
  Tasks,       \* preparations that may run at the same time
  DeviceOf,    \* the device each of them runs on
  Scenes,      \* the chats looked at: their kind, the devices trusted at
               \* first, the preparations that may run, the members and
               \* devices that change, and the bound on these changes
  MaxKeys,     \* bound: chat keys at one time
  Nobody       \* nothing seen, nothing stored

VARIABLES
  scene,      \* the chat that is looked at
  member,     \* conversation_members: the row's number, 0 for none
  trusted,    \* devices that are signed in and trusted
  changes,    \* changes of these two so far
  share,      \* e2ee_conversation_keys: of device d for device e, 0 for none
  archive,    \* e2ee_key_history: for device e
  memory,     \* conversationKeysRef of each device, 0 for none
  stored,     \* e2ee_sentkeys_: the sending keys in its localStorage
  pinned,     \* its e2ee_trust_: the peers' devices its user knows
  pending,    \* pendingTrustRef: a set of them to be reviewed
  prepared,   \* preparedConversationsRef: the roster last prepared for
  persisted,  \* e2ee_prepared_: the same, with the key
  task,       \* the preparations under way
  owed,       \* history: the devices messages with a key were prepared for
  used,       \* history: the rosters a group's key was used for
  met         \* history: devices a user has known, of each device

serverVars == <<scene, member, trusted, changes>>
keyVars == <<share, archive>>
deviceVars == <<memory, stored, pinned, pending, prepared, persisted>>
history == <<owed, used, met>>
vars == <<serverVars, keyVars, deviceVars, task, history>>

Made == 1..MaxKeys
NoKey == 0
Members == [Users -> 0..(scene.changes + 1)]
Rosters == [members : Members, devices : SUBSET Devices]

(* asked: the key is still being looked for on the server; todo: devices   *)
(* that have yet to get a copy; fresh: the key was made for this roster.   *)
Idle == [pc |-> "idle", key |-> NoKey, asked |-> FALSE, seen |-> Nobody, intro |-> FALSE,
         todo |-> {}, fresh |-> FALSE]

(* A device that knows its user's peers has a key, and so never makes a    *)
(* first one; a preparation that shares or is ready has seen its roster.   *)
TypeOK ==
  /\ member \in Members /\ trusted \subseteq Devices /\ changes \in 0..scene.changes /\ scene \in Scenes
  /\ share \in [Devices -> [Devices -> 0..MaxKeys]] /\ archive \in [Devices -> SUBSET Made]
  /\ memory \in [Devices -> 0..MaxKeys] /\ stored \in [Devices -> Seq(Made)]
  /\ pinned \in [Devices -> {Nobody} \cup SUBSET Devices]
  /\ pending \in [Devices -> {Nobody} \cup SUBSET Devices]
  /\ prepared \in [Devices -> {Nobody} \cup Rosters]
  /\ persisted \in [Devices -> {Nobody} \cup [key : Made, roster : Rosters]]
  /\ task \in [Tasks -> [pc : {"idle", "look", "boot", "won", "lost", "share", "ready"},
                         key : 0..MaxKeys, asked : BOOLEAN, seen : {Nobody} \cup Rosters,
                         intro : BOOLEAN, todo : SUBSET Devices, fresh : BOOLEAN]]
  /\ owed \in [Made -> SUBSET Devices] /\ used \in [Made -> SUBSET Rosters]
  /\ met \in [Devices -> SUBSET Devices]
  /\ \A t \in Tasks : task[t].pc \in {"share", "ready"} => task[t].seen # Nobody
  /\ \A d \in Devices : memory[d] # NoKey \/ pinned[d] # Nobody => stored[d] # <<>>

Init ==
  /\ scene \in Scenes /\ trusted = scene.trusted
  /\ member = [u \in Users |-> 1] /\ changes = 0
  /\ share = [d \in Devices |-> [e \in Devices |-> NoKey]]
  /\ archive = [e \in Devices |-> {}]
  /\ memory = [d \in Devices |-> NoKey] /\ stored = [d \in Devices |-> <<>>]
  /\ pinned = [d \in Devices |-> Nobody] /\ pending = [d \in Devices |-> Nobody]
  /\ prepared = [d \in Devices |-> Nobody] /\ persisted = [d \in Devices |-> Nobody]
  /\ task = [t \in Tasks |-> Idle]
  /\ owed = [k \in Made |-> {}] /\ used = [k \in Made |-> {}]
  /\ met = [d \in Devices |-> {}]

(* What the routes ask of the device that calls them, and of a recipient.  *)
Admitted(d) == d \in trusted /\ member[UserOf[d]] # 0

(* The copies a device finds on the server.                                *)
Rows(e) == archive[e] \cup ({share[d][e] : d \in Devices} \ {NoKey})

-----------------------------------------------------------------------------
(* Members and devices change                                              *)

Trust(d) ==
  /\ d \in scene.moves /\ changes < scene.changes /\ changes' = changes + 1
  /\ trusted' = IF d \in trusted THEN trusted \ {d} ELSE trusted \cup {d}
  /\ UNCHANGED <<scene, member, keyVars, deviceVars, task, history>>

(* Every admission has a row of its own.                                   *)
ChangeMember(u) ==
  /\ scene.kind = "group" /\ u \in scene.moves
  /\ changes < scene.changes /\ changes' = changes + 1
  /\ member' = [member EXCEPT ![u] = IF @ # 0 THEN 0 ELSE changes + 2]
  /\ UNCHANGED <<scene, trusted, keyVars, deviceVars, task, history>>

-----------------------------------------------------------------------------
(* A preparation                                                           *)

Me(t) == DeviceOf[t]
Step(t, s) == task' = [task EXCEPT ![t] = s]

(* latestSendingKey; rememberSendingKey and conversationKeysRef.           *)
Latest(d) == IF stored[d] = <<>> THEN NoKey ELSE stored[d][Len(stored[d])]
Own(d) == IF memory[d] # NoKey THEN memory[d] ELSE Latest(d)

Keep(d, k) ==
  /\ memory' = [memory EXCEPT ![d] = k]
  /\ stored' = IF \E i \in 1..Len(stored[d]) : stored[d][i] = k THEN stored
               ELSE [stored EXCEPT ![d] = Append(@, k)]

(* generateConversationKey: one that is nowhere yet, or nowhere any more.  *)
Known(k) ==
  \/ owed[k] # {}
  \/ \E e \in Devices : k \in Rows(e) \/ \E i \in 1..Len(stored[e]) : stored[e][i] = k
  \/ \E t \in Tasks : task[t].key = k
New == {k \in Made : ~ Known(k) /\ \A j \in 1..(k - 1) : Known(j)}

(* prepareConversation: a key of this device's own is looked up first.     *)
Prepare(t) ==
  LET d == Me(t)
      local == Own(d)
  IN
  /\ task[t].pc = "idle" /\ t \in scene.tasks /\ d \in trusted
  /\ Step(t, [Idle EXCEPT !.pc = "look", !.key = local, !.asked = local = NoKey])
  /\ memory' = [memory EXCEPT ![d] = local]
  /\ UNCHANGED <<serverVars, keyVars, stored, pinned, pending, prepared, persisted, history>>

(* fetchSharedKey: its own copy, or any other; none if that fails.         *)
Fetched(d) ==
  {NoKey} \cup
  IF ~ Admitted(d) THEN {} ELSE IF share[d][d] # NoKey THEN {share[d][d]}
  ELSE {share[e][d] : e \in Devices}

FetchSharedKey(t) ==
  /\ task[t].pc = "look" /\ task[t].asked
  /\ \E k \in Fetched(Me(t)) :
       /\ Step(t, [task[t] EXCEPT !.key = k, !.asked = FALSE])
       /\ IF k = NoKey THEN UNCHANGED <<stored, memory>> ELSE Keep(Me(t), k)
  /\ UNCHANGED <<serverVars, keyVars, pinned, pending, prepared, persisted, history>>

(* peers GET.  Only the first message of a direct chat may be an           *)
(* introduction to somebody who has no device yet.                         *)
ReadPeers(t) ==
  /\ task[t].pc = "look" /\ task[t].seen = Nobody
  /\ Admitted(Me(t))
  /\ \E intro \in {FALSE, scene.kind = "dm" /\ UserOf[Me(t)] = Creator /\ owed = [k \in Made |-> {}]} :
       Step(t, [task[t] EXCEPT !.intro = intro, !.seen =
         [members |-> member,
          devices |-> {Me(t)} \cup {d \in trusted : member[UserOf[d]] # 0}]])
  /\ UNCHANGED <<serverVars, keyVars, deviceVars, history>>

(* Nobody takes part without a device, unless this is an introduction.     *)
Ready(t) ==
  \/ task[t].intro
  \/ \A u \in Users : task[t].seen.members[u] # 0
                        => u = UserOf[Me(t)] \/ \E d \in task[t].seen.devices : UserOf[d] = u

Peers(d, roster) == {e \in roster.devices : UserOf[e] # UserOf[d]}

(* Only a known device that is gone counts as a change.                    *)
BugDistrusts(d, peers) ==
  pinned[d] # Nobody /\ ~ pinned[d] \subseteq peers

(* What a task does with its key, without waiting for anything: devices    *)
(* that are new to the user stop it, and are pinned at first contact.      *)
Distrusts(d, peers) == pinned[d] # Nobody /\ pinned[d] # peers
Pins(d, peers) == pinned[d] = Nobody /\ (peers # {} \/ scene.kind = "group")

Rotates(d, roster) ==
  scene.kind = "group" /\ persisted[d] \notin [key : Made, roster : {roster}]

Pin(d, peers) ==
  IF Pins(d, peers)
  THEN pinned' = [pinned EXCEPT ![d] = peers] /\ met' = [met EXCEPT ![d] = @ \cup peers]
  ELSE UNCHANGED <<pinned, met>>

(* Whoever was prepared for this roster already, before or after a reload, *)
(* is ready; a group's new roster gets a new key; or the key is shared.    *)
Publish(t, k) ==
  LET d == Me(t)
      roster == task[t].seen
      kept == persisted[d] = [key |-> k, roster |-> roster]
      ready == [task[t] EXCEPT !.pc = "ready", !.key = k]
      sharing(k2, fresh) == [task[t] EXCEPT !.pc = "share", !.key = k2, !.fresh = fresh,
                                           !.todo = roster.devices]
  IN
  \/ prepared[d] = roster /\ Step(t, ready) /\ UNCHANGED prepared
  \/ /\ prepared[d] # roster /\ Rotates(d, roster)
     /\ \E new \in New : Step(t, sharing(new, TRUE))
     /\ UNCHANGED prepared
  \/ /\ prepared[d] # roster /\ ~ Rotates(d, roster) /\ kept
     /\ Step(t, ready) /\ prepared' = [prepared EXCEPT ![d] = roster]
  \/ /\ prepared[d] # roster /\ ~ Rotates(d, roster) /\ ~ kept
     /\ Step(t, sharing(k, FALSE)) /\ UNCHANGED prepared

Settle(t, k) ==
  LET d == Me(t)
      peers == Peers(d, task[t].seen)
  IN
  \/ ~ Ready(t) /\ Step(t, Idle) /\ UNCHANGED <<pinned, met, pending, prepared>>
  \/ /\ Ready(t) /\ Distrusts(d, peers)
     /\ Step(t, Idle) /\ pending' = [pending EXCEPT ![d] = peers]
     /\ UNCHANGED <<pinned, met, prepared>>
  \/ /\ Ready(t) /\ ~ Distrusts(d, peers)
     /\ Pin(d, peers) /\ Publish(t, k) /\ UNCHANGED pending

(* Both answers are there: a chat without a key gets its first.            *)
Decide(t) ==
  /\ task[t].pc = "look" /\ ~ task[t].asked /\ task[t].seen # Nobody
  /\ \/ task[t].key # NoKey /\ Settle(t, task[t].key)
     \/ /\ task[t].key = NoKey
        /\ IF Ready(t) THEN \E new \in New : Step(t, [task[t] EXCEPT !.pc = "boot", !.key = new])
           ELSE Step(t, Idle)
        /\ UNCHANGED <<pinned, pending, prepared, met>>
  /\ UNCHANGED <<serverVars, keyVars, stored, memory, persisted, owed, used>>

(* bootstrap POST: the first one wins, if its recipients may have the key. *)
HasKey == \E d, e \in Devices : share[d][e] # NoKey

(* Only the caller's own devices are looked at.                            *)
BugBootstrap(t) ==
  LET d == Me(t) IN
  /\ task[t].pc = "boot" /\ Admitted(d)
  /\ IF share[d][d] # NoKey
     THEN Step(t, [task[t] EXCEPT !.pc = "lost"]) /\ UNCHANGED share
     ELSE /\ \A e \in task[t].seen.devices : Admitted(e)
          /\ Step(t, [task[t] EXCEPT !.pc = "won"])
          /\ share' = [share EXCEPT ![d] = [e \in Devices |->
               IF e \in task[t].seen.devices THEN task[t].key ELSE @[e]]]
  /\ UNCHANGED <<serverVars, archive, deviceVars, history>>
Bootstrap(t) ==
  LET d == Me(t) IN
  /\ task[t].pc = "boot" /\ Admitted(d)
  /\ IF HasKey
     THEN Step(t, [task[t] EXCEPT !.pc = "lost"]) /\ UNCHANGED share
     ELSE /\ \A e \in task[t].seen.devices : Admitted(e)
          /\ Step(t, [task[t] EXCEPT !.pc = "won"])
          /\ share' = [share EXCEPT ![d] = [e \in Devices |->
               IF e \in task[t].seen.devices THEN task[t].key ELSE NoKey]]
  /\ UNCHANGED <<serverVars, archive, deviceVars, history>>

(* The winner keeps its key; the others adopt it.                          *)
Adopt(t) ==
  /\ \/ /\ task[t].pc = "won"
        /\ Keep(Me(t), task[t].key) /\ Settle(t, task[t].key)
     \/ /\ task[t].pc = "lost"
        /\ \E k \in Fetched(Me(t)) \ {NoKey} : Keep(Me(t), k) /\ Settle(t, k)
  /\ UNCHANGED <<serverVars, keyVars, persisted, owed, used>>

(* conversation-keys POST: one copy for each pair of devices; the one it   *)
(* replaces is archived.                                                   *)
BugStoreShare(d, e, k) ==
  /\ Admitted(d) /\ Admitted(e)
  /\ share' = [share EXCEPT ![d][e] = k]
  /\ UNCHANGED archive
StoreShare(d, e, k) ==
  /\ Admitted(d) /\ Admitted(e)
  /\ share' = [share EXCEPT ![d][e] = k]
  /\ archive' = IF share[d][e] \in {NoKey, k} THEN archive
                ELSE [archive EXCEPT ![e] = @ \cup {share[d][e]}]

ShareKey(t) ==
  /\ task[t].pc = "share"
  /\ \E e \in task[t].todo :
       StoreShare(Me(t), e, task[t].key) /\ Step(t, [task[t] EXCEPT !.todo = @ \ {e}])
  /\ UNCHANGED <<serverVars, deviceVars, history>>

(* Every copy is stored: only now is a new key the sending key.            *)
FinishSharing(t) ==
  LET d == Me(t) IN
  /\ task[t].pc = "share" /\ task[t].todo = {}
  /\ IF task[t].fresh THEN Keep(d, task[t].key) ELSE UNCHANGED <<stored, memory>>
  /\ prepared' = [prepared EXCEPT ![d] = task[t].seen]
  /\ persisted' = [persisted EXCEPT ![d] = [key |-> task[t].key, roster |-> task[t].seen]]
  /\ Step(t, [task[t] EXCEPT !.pc = "ready", !.todo = {}, !.fresh = FALSE])
  /\ UNCHANGED <<serverVars, keyVars, pinned, pending, history>>

(* A message is encrypted with the key the device has by then, and stored. *)
Send(t) ==
  LET d == Me(t) IN
  /\ task[t].pc = "ready" /\ Admitted(d)
  /\ owed' = [owed EXCEPT ![Own(d)] = @ \cup task[t].seen.devices]
  /\ used' = IF scene.kind = "group" THEN [used EXCEPT ![Own(d)] = @ \cup {task[t].seen}] ELSE used
  /\ Step(t, Idle)
  /\ UNCHANGED <<serverVars, keyVars, deviceVars, met>>

(* A request is refused, fails or is not answered, or nothing is sent.     *)
GiveUp(t) ==
  /\ task[t].pc # "idle" /\ Step(t, Idle)
  /\ UNCHANGED <<serverVars, keyVars, deviceVars, history>>

-----------------------------------------------------------------------------
(* The user and the browser                                                *)

(* approvePeerKeyChange                                                    *)
ApprovePeers(d) ==
  /\ pending[d] # Nobody
  /\ pinned' = [pinned EXCEPT ![d] = pending[d]] /\ pending' = [pending EXCEPT ![d] = Nobody]
  /\ met' = [met EXCEPT ![d] = @ \cup pending[d]]
  /\ prepared' = [prepared EXCEPT ![d] = Nobody]
  /\ UNCHANGED <<serverVars, keyVars, memory, stored, persisted, task, owed, used>>

(* syncKnownConversations: a key is handed to another device of its own.   *)
SyncKey(d, e) ==
  /\ d # e /\ UserOf[d] = UserOf[e]
  /\ \E k \in Rows(d) : StoreShare(d, e, k)
  /\ UNCHANGED <<serverVars, deviceVars, task, history>>

(* The browser or the tab is closed, and opened again.                     *)
Reload(d) ==
  /\ memory' = [memory EXCEPT ![d] = NoKey] /\ pending' = [pending EXCEPT ![d] = Nobody]
  /\ prepared' = [prepared EXCEPT ![d] = Nobody]
  /\ task' = [t \in Tasks |-> IF Me(t) = d THEN Idle ELSE task[t]]
  /\ UNCHANGED <<serverVars, keyVars, stored, pinned, persisted, history>>

Next ==
  \/ \E u \in Users : ChangeMember(u)
  \/ \E d \in Devices : Trust(d) \/ ApprovePeers(d) \/ Reload(d)
  \/ \E d, e \in Devices : SyncKey(d, e)
  \/ \E t \in Tasks :
       \/ Prepare(t) \/ FetchSharedKey(t) \/ ReadPeers(t) \/ Decide(t) \/ Bootstrap(t) \/ Adopt(t)
       \/ ShareKey(t) \/ FinishSharing(t) \/ Send(t) \/ GiveUp(t)

Spec == Init /\ [][Next]_vars

-----------------------------------------------------------------------------
(* Whoever writes first in a direct chat, and however often both try at    *)
(* once, its messages have one key.                                        *)
OneKeyPerChat ==
  scene.kind = "dm" => \A k, l \in Made : owed[k] # {} /\ owed[l] # {} => k = l

(* A sending key of a group serves one roster; its copies are with members *)
(* of that roster only.                                                    *)
NoReuse ==
  \A k \in Made : \A roster \in used[k] :
    /\ used[k] = {roster}
    /\ \A e \in Devices : k \in Rows(e) => roster.members[UserOf[e]] # 0

(* KeysAreSeparate: a key serves one chat or one roster and no other,      *)
(* however the preparations of several devices cross.                      *)
KeysAreSeparate == TypeOK /\ OneKeyPerChat /\ NoReuse

(* Readable: every device on the roster that a message was prepared for    *)
(* can get the key of the message, whatever copies were replaced since.    *)
Readable == \A k \in Made : \A e \in owed[k] : k \in Rows(e)

(* SharesOnlyToKnown: after the first contact a device hands keys to no    *)
(* peer's device that its user has not known.                              *)
SharesOnlyToKnown ==
  [][\A d, e \in Devices :
       share'[d][e] # share[d][e] /\ UserOf[d] # UserOf[e] /\ pinned[d] # Nobody
         => e \in met[d]]_vars
=============================================================================
