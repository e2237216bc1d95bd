--------------------------- MODULE MCDeviceTrust ---------------------------
(* A small instance of DeviceTrust, the devices of one account, and of     *)
(* ConversationKeys, the keys of one chat, with ada's device and bob's     *)
(* two.  The two share no variable; part says which of them a behaviour is *)
(* about, and Looked which of them a run looks at.  In a direct chat two   *)
(* devices, or two preparations of one, get in each other's way; a group's *)
(* keys are each device's own, so there one device writes, and more of its *)
(* surroundings changes.                                                   *)
EXTENDS DeviceTrust, TLC

CONSTANTS Looked, Users, Devices, Creator, UserOf, Tasks, DeviceOf, Scenes, MaxKeys

ASSUME KeysAssumption ==
  /\ Creator \in Users /\ UserOf \in [Devices -> Users] /\ DeviceOf \in [Tasks -> Devices]
  /\ Scenes \subseteq [kind : {"dm", "group"}, trusted : SUBSET Devices, tasks : SUBSET Tasks,
                       moves : SUBSET (Users \cup Devices), changes : Nat]
  /\ MaxKeys \in Nat

(* The groups looked at have one preparation of a device at a time.        *)
ASSUME OnePreparation ==
  \A s \in Scenes : s.kind = "group" =>
     \A t, u \in s.tasks : DeviceOf[t] = DeviceOf[u] => t = u

(* Nothing stored is not a stored record.                                  *)
ASSUME NobodyAssumption ==
  \A s \in Scenes : Nobody \notin
     [key : 1..MaxKeys, roster : [members : [Users -> 0..(s.changes + 1)], devices : SUBSET Devices]]

VARIABLES part, scene, member, trusted, changes, share, archive, memory, stored, pinned,
          pending, prepared, persisted, task, owed, used, met

chatVars == <<scene, member, trusted, changes, share, archive, memory, stored, pinned,
              pending, prepared, persisted, task, owed, used, met>>
K == INSTANCE ConversationKeys

(* The part that is not looked at keeps one state.                         *)
PartsInit ==
  /\ part \in Looked \cap {"devices", "keys"} /\ Init /\ K!Init
  /\ part = "devices" => scene = (CHOOSE s \in Scenes : TRUE)

PartsNext ==
  \/ part = "devices" /\ Next /\ UNCHANGED <<part, chatVars>>
  \/ part = "keys" /\ K!Next /\ UNCHANGED <<part, vars>>

PartsSpec == PartsInit /\ [][PartsNext]_<<part, vars, chatVars>>

(* A direct chat has one key, and a group's key serves one roster          *)
(* (bootstrapConversationKey, rotateConversationKey).                      *)
KeysAreSeparate == K!KeysAreSeparate

(* Whoever a message was prepared for finds its key (shareKey).            *)
Readable == K!Readable

(* No device hands keys to a peer's device its user has not known          *)
(* (prepareConversation, approvePeerKeyChange).                            *)
SharesOnlyToKnown == K!SharesOnlyToKnown

-----------------------------------------------------------------------------
CONSTANTS ada, bob, a1, b1, b2, p1, p2, q1

Owners == (a1 :> ada) @@ (b1 :> bob) @@ (b2 :> bob)
RunsOn == (p1 :> a1) @@ (p2 :> a1) @@ (q1 :> b1)
Scene(type, devices, tasks, changing, most) ==
  [kind |-> type, trusted |-> devices, tasks |-> tasks, moves |-> changing, changes |-> most]
Chats ==
  {Scene("dm", {a1}, {p1, q1}, Devices, 1), Scene("dm", {a1, b1}, {p1, q1}, {b1, b2}, 1),
   Scene("dm", {a1, b1}, {p1, p2}, {b1}, 1), Scene("group", {a1, b1}, {p1}, {ada, bob, b1}, 2),
   Scene("group", {a1, b1}, {p1}, Users \cup Devices, 1)}

Symmetry == Permutations(Keys) \cup Permutations(Sessions) \cup Permutations(Proofs)
=============================================================================
