------------------------- MODULE DeviceTrust_proofs -------------------------
(***************************************************************************)
(* The keys of an encrypted chat are kept apart, stay readable and go to   *)
(* known devices only.  What is granted once is granted once, and all      *)
(* trust and every full session descend from the last recovery.  For any   *)
(* number of users, devices, preparations, sessions, link requests, proofs *)
(* and recoveries.                                                         *)
(***************************************************************************)
EXTENDS MCDeviceTrust, Sequences, TLAPS

-----------------------------------------------------------------------------
(* The keys of a chat.                                                     *)

(* The keys in a device's storage.                                         *)
Saved(d) == {stored[d][i] : i \in 1..Len(stored[d])}

(* The keys the server holds a copy of.                                    *)
Copies == {share[d][e] : d, e \in Devices} \ {K!NoKey}

(* What a device stores: the roster it prepared last has the key.          *)
DeviceInv(d) ==
  /\ memory[d] # K!NoKey => memory[d] \in Saved(d)
  /\ Saved(d) # {} => K!HasKey
  /\ pinned[d] # Nobody => pinned[d] \subseteq met[d]
  /\ pending[d] # Nobody => Saved(d) # {}
  /\ prepared[d] # Nobody => persisted[d] # Nobody /\ persisted[d].roster = prepared[d]
  /\ persisted[d] # Nobody =>
       /\ persisted[d].key \in Saved(d)
       /\ \A e \in persisted[d].roster.devices : persisted[d].key \in K!Rows(e)

(* What a preparation has read and done so far.                            *)
TaskInv(t) ==
  LET d == K!Me(t)
      seen == task[t].seen
      k == task[t].key
      pc == task[t].pc
  IN
  /\ pc # "idle" => t \in scene.tasks
  /\ pc = "look" => /\ k # K!NoKey => k \in Saved(d)
                    /\ task[t].asked => k = K!NoKey
  /\ pc \in {"boot", "won", "lost"} => seen # Nobody
  /\ pc \in {"boot", "won", "share"} => k # K!NoKey
  /\ pc = "won" => K!HasKey
  /\ seen # Nobody => d \in seen.devices /\ \A e \in seen.devices : seen.members[UserOf[e]] # 0
  /\ pc = "share" => /\ \A e \in seen.devices \ task[t].todo : k \in K!Rows(e)
                     /\ task[t].todo \subseteq seen.devices
                     /\ K!Peers(d, seen) \subseteq met[d]
                     /\ ~ task[t].fresh => k \in Saved(d)
  /\ pc = "ready" => /\ K!Own(d) # K!NoKey
                     /\ \A e \in seen.devices : K!Own(d) \in K!Rows(e)
  /\ task[t].fresh => pc = "share"

(* A direct chat: every key but one that is about to be offered as the     *)
(* first is the chat's key.                                                *)
ChatInv ==
  /\ \A k, l \in Copies : k = l
  /\ \A e \in Devices : archive[e] \subseteq Copies /\ Saved(e) \subseteq Copies
  /\ \A t \in Tasks :
       /\ ~ task[t].fresh
       /\ task[t].pc \in {"look", "won", "share", "ready"} /\ task[t].key # K!NoKey
            => task[t].key \in Copies
  /\ \A k \in K!Made : (owed[k] # {} => k \in Copies) /\ used[k] = {}

(* A group: key k serves roster r, or will when its copies are stored.     *)
Serves(k, r) ==
  \/ \E t \in Tasks : task[t].fresh /\ task[t].key = k /\ task[t].seen = r
  \/ \E d \in Devices : persisted[d] # Nobody /\ persisted[d] = [key |-> k, roster |-> r]
  \/ r \in used[k]

(* A device sends with the newest key it has, made for the roster it       *)
(* prepared last.                                                          *)
SenderInv(d) ==
  persisted[d] # Nobody => K!Latest(d) = persisted[d].key /\ memory[d] \in {K!NoKey, K!Latest(d)}

MakerInv(t) ==
  LET d == K!Me(t) IN
  /\ task[t].pc = "ready" => persisted[d] # Nobody /\ persisted[d].roster = task[t].seen
  /\ task[t].pc = "share" => task[t].fresh /\ task[t].key \notin Saved(d)
  /\ task[t].pc = "look" => task[t].key \in {K!NoKey, K!Own(d)}
  /\ task[t].pc \in {"boot", "won", "lost"} \/ (task[t].pc = "look" /\ task[t].key = K!NoKey)
       => Saved(d) = {}
  /\ task[t].pc = "boot" => \A r \in K!Rosters : ~ Serves(task[t].key, r)

ServesOne ==
  \A k \in K!Made : \A r \in K!Rosters : Serves(k, r) =>
     /\ \A q \in K!Rosters : Serves(k, q) => q = r
     /\ \A e \in Devices : k \in K!Rows(e) => r.members[UserOf[e]] # 0

GroupInv ==
  /\ \A d \in Devices : SenderInv(d)
  /\ \A t \in Tasks : MakerInv(t)
  /\ ServesOne
  /\ \A k \in K!Made : used[k] # {} => owed[k] # {}

KeysInv ==
  /\ K!TypeOK
  /\ \A e \in Devices : archive[e] # {} => K!HasKey
  /\ \A d \in Devices : DeviceInv(d)
  /\ \A t \in Tasks : TaskInv(t)
  /\ scene.kind = "dm" => ChatInv
  /\ scene.kind = "group" => GroupInv

TaskRec ==
  [pc : {"idle", "look", "boot", "won", "lost", "share", "ready"}, key : 0..MaxKeys,
   asked : BOOLEAN, seen : {Nobody} \cup K!Rosters, intro : BOOLEAN, todo : SUBSET Devices,
   fresh : BOOLEAN]

(* What the types say, of the keys that a device has stored above all.     *)
LEMMA TypeFacts ==
  ASSUME K!TypeOK
  PROVE  /\ \A k \in K!Made : k # K!NoKey
         /\ \A d \in Devices :
              /\ memory[d] \in 0..MaxKeys /\ stored[d] \in Seq(K!Made)
              /\ Saved(d) \subseteq K!Made /\ (Saved(d) = {} <=> stored[d] = <<>>)
              /\ stored[d] # <<>> => K!Latest(d) \in Saved(d)
              /\ stored[d] = <<>> => K!Latest(d) = K!NoKey
         /\ \A t \in Tasks : K!Me(t) \in Devices /\ task[t] \in TaskRec
         /\ task \in [Tasks -> TaskRec]
<1>1. \A k \in K!Made : k # K!NoKey
  BY KeysAssumption DEF K!Made, K!NoKey
<1>2. task \in [Tasks -> TaskRec] /\ \A t \in Tasks : K!Me(t) \in Devices
  BY KeysAssumption DEF K!TypeOK, TaskRec, K!Me
<1>3. ASSUME NEW d \in Devices
      PROVE  /\ memory[d] \in 0..MaxKeys /\ stored[d] \in Seq(K!Made)
             /\ Saved(d) \subseteq K!Made /\ (Saved(d) = {} <=> stored[d] = <<>>)
             /\ stored[d] # <<>> => K!Latest(d) \in Saved(d)
             /\ stored[d] = <<>> => K!Latest(d) = K!NoKey
  <2>1. memory[d] \in 0..MaxKeys /\ stored[d] \in Seq(K!Made)
    BY DEF K!TypeOK
  <2>2. Len(stored[d]) \in Nat /\ \A i \in 1..Len(stored[d]) : stored[d][i] \in K!Made
    BY <2>1
  <2>3. stored[d] # <<>> => Len(stored[d]) \in 1..Len(stored[d])
    BY <2>1, <2>2
  <2>4. stored[d] = <<>> => Len(stored[d]) = 0
    OBVIOUS
  <2>5. Saved(d) \subseteq K!Made /\ (stored[d] = <<>> => Saved(d) = {})
    BY <2>2, <2>4 DEF Saved
  <2>6. stored[d] # <<>> => K!Latest(d) \in Saved(d)
    BY <2>3 DEF K!Latest, Saved
  <2> QED
    BY <2>1, <2>5, <2>6 DEF K!Latest
<1> QED
  BY <1>1, <1>2, <1>3

LEMMA OwnFacts ==
  ASSUME K!TypeOK, NEW d \in Devices, DeviceInv(d)
  PROVE  /\ K!Own(d) \in Saved(d) \cup {K!NoKey} /\ K!Own(d) \in 0..MaxKeys
         /\ K!Own(d) = K!NoKey <=> Saved(d) = {}
<1>1. K!NoKey \in 0..MaxKeys /\ K!Made \subseteq 0..MaxKeys
  BY KeysAssumption DEF K!Made, K!NoKey
<1>2. CASE memory[d] # K!NoKey
  BY <1>1, <1>2, TypeFacts DEF K!Own, DeviceInv
<1>3. CASE memory[d] = K!NoKey
  <2>1. CASE stored[d] = <<>>
    BY <1>1, <1>3, <2>1, TypeFacts DEF K!Own
  <2>2. CASE stored[d] # <<>>
    BY <1>1, <1>3, <2>2, TypeFacts DEF K!Own
  <2> QED
    BY <2>1, <2>2
<1> QED
  BY <1>2, <1>3

(* A device stores a key: it is now its own.                               *)
LEMMA KeepFacts ==
  ASSUME K!TypeOK, NEW d \in Devices, NEW k \in K!Made, K!Keep(d, k)
  PROVE  /\ memory' \in [Devices -> 0..MaxKeys] /\ stored' \in [Devices -> Seq(K!Made)]
         /\ memory'[d] = k /\ K!Own(d)' = k /\ stored'[d] # <<>>
         /\ Saved(d)' = Saved(d) \cup {k}
         /\ k \notin Saved(d) => K!Latest(d)' = k
         /\ \A e \in Devices \ {d} : memory'[e] = memory[e] /\ stored'[e] = stored[e]
<1>1. memory \in [Devices -> 0..MaxKeys] /\ stored \in [Devices -> Seq(K!Made)] /\ k \in 0..MaxKeys
  BY KeysAssumption DEF K!TypeOK, K!Made
<1>2. memory' = [memory EXCEPT ![d] = k]
  BY DEF K!Keep
<1>3. memory' \in [Devices -> 0..MaxKeys] /\ memory'[d] = k /\ K!Own(d)' = k
  BY <1>1, <1>2, TypeFacts DEF K!Own
<1>4. stored[d] \in Seq(K!Made) /\ Len(stored[d]) \in Nat
  BY <1>1
<1>5. CASE k \in Saved(d)
  <2>1. stored' = stored
    BY <1>5 DEF K!Keep, Saved
  <2>2. Saved(d)' = Saved(d)
    BY <2>1 DEF Saved
  <2> QED
    BY <1>1, <1>2, <1>3, <1>5, <2>1, <2>2, TypeFacts
<1>6. CASE k \notin Saved(d)
  <2>1. stored' = [stored EXCEPT ![d] = Append(@, k)]
    BY <1>6 DEF K!Keep, Saved
  <2> DEFINE s == stored[d]
             n == Append(s, k)
  <2>2. /\ n \in Seq(K!Made) /\ Len(n) = Len(s) + 1 /\ n[Len(s) + 1] = k
        /\ \A i \in 1..Len(s) : n[i] = s[i]
    BY <1>4
  <2>3. /\ \A i \in 1..Len(n) : i \in 1..Len(s) \/ i = Len(s) + 1
        /\ 1..Len(s) \subseteq 1..Len(n) /\ Len(s) + 1 \in 1..Len(n)
    BY <1>4, <2>2
  <2>5. stored'[d] = n /\ stored' \in [Devices -> Seq(K!Made)]
        /\ \A e \in Devices \ {d} : stored'[e] = stored[e]
    BY <1>1, <2>1, <2>2
  <2> HIDE DEF n
  <2>4. n # <<>>
    <3>1. Len(n) # 0
      BY <1>4, <2>2
    <3> QED
      BY <3>1
  <2>6. {n[i] : i \in 1..Len(n)} = {s[i] : i \in 1..Len(s)} \cup {k}
    <3>1. \A x \in {n[i] : i \in 1..Len(n)} : x \in {s[i] : i \in 1..Len(s)} \cup {k}
      BY <2>2, <2>3
    <3>2. \A i \in 1..Len(s) : s[i] \in {n[j] : j \in 1..Len(n)}
      BY <2>2, <2>3
    <3>3. k \in {n[i] : i \in 1..Len(n)}
      BY <2>2, <2>3
    <3> QED
      BY <3>1, <3>2, <3>3
  <2>7. Saved(d)' = Saved(d) \cup {k}
    BY <2>5, <2>6 DEF Saved
  <2>8. K!Latest(d)' = k
    BY <2>2, <2>4, <2>5 DEF K!Latest
  <2> QED
    BY <1>2, <1>3, <1>1, <2>4, <2>5, <2>7, <2>8
<1> QED
  BY <1>5, <1>6

(* A copy is stored: the one it replaces can still be read.                *)
LEMMA StoreFacts ==
  ASSUME K!TypeOK, NEW d \in Devices, NEW e \in Devices, NEW k \in K!Made, K!StoreShare(d, e, k)
  PROVE  /\ share' \in [Devices -> [Devices -> 0..MaxKeys]]
         /\ archive' \in [Devices -> SUBSET K!Made]
         /\ K!Rows(e)' = K!Rows(e) \cup {k}
         /\ \A f \in Devices \ {e} : K!Rows(f)' = K!Rows(f)
         /\ K!HasKey' /\ k \in Copies' /\ Copies' \subseteq Copies \cup {k}
         /\ \A f \in Devices : archive'[f] \subseteq archive[f] \cup Copies
<1>1. /\ share \in [Devices -> [Devices -> 0..MaxKeys]] /\ archive \in [Devices -> SUBSET K!Made]
      /\ k \in 0..MaxKeys /\ k # K!NoKey
  <2>1. k \in 0..MaxKeys
    BY KeysAssumption DEF K!Made
  <2> QED
    BY <2>1, TypeFacts DEF K!TypeOK
<1>2. share' = [share EXCEPT ![d][e] = k] /\ share' \in [Devices -> [Devices -> 0..MaxKeys]]
  BY <1>1 DEF K!StoreShare
<1>3. \A x, y \in Devices : share'[x][y] = IF x = d /\ y = e THEN k ELSE share[x][y]
  BY <1>1, <1>2
<1> DEFINE old == share[d][e]
<1>4. old \in K!Made \cup {K!NoKey}
  BY <1>1 DEF K!Made, K!NoKey
<1>5. archive' = IF old \in {K!NoKey, k} THEN archive ELSE [archive EXCEPT ![e] = @ \cup {old}]
  BY DEF K!StoreShare
<1>6. /\ archive' \in [Devices -> SUBSET K!Made]
      /\ \A f \in Devices : archive'[f] = IF f = e /\ old \notin {K!NoKey, k}
                                          THEN archive[f] \cup {old} ELSE archive[f]
  BY <1>1, <1>4, <1>5
<1>7. \A f \in Devices \ {e} : K!Rows(f)' = K!Rows(f)
  BY <1>3, <1>6 DEF K!Rows
<1>8. K!Rows(e)' = K!Rows(e) \cup {k}
  <2>1. \A x \in K!Rows(e)' : x \in K!Rows(e) \cup {k}
    BY <1>3, <1>6 DEF K!Rows
  <2>2. k \in K!Rows(e)'
    BY <1>1, <1>3 DEF K!Rows
  <2>3. \A x \in archive[e] : x \in K!Rows(e)'
    BY <1>6 DEF K!Rows
  <2>4. \A x \in Devices : share[x][e] # K!NoKey => share[x][e] \in K!Rows(e)'
    <3> SUFFICES ASSUME NEW x \in Devices, share[x][e] # K!NoKey PROVE share[x][e] \in K!Rows(e)'
      OBVIOUS
    <3>1. CASE x = d
      BY <1>6, <2>2, <3>1 DEF K!Rows
    <3>2. CASE x # d
      BY <1>3, <3>2 DEF K!Rows
    <3> QED
      BY <3>1, <3>2
  <2> QED
    BY <2>1, <2>2, <2>3, <2>4 DEF K!Rows
<1>9. K!HasKey' /\ k \in Copies' /\ Copies' \subseteq Copies \cup {k}
  BY <1>1, <1>3 DEF K!HasKey, Copies
<1>10. \A f \in Devices : archive'[f] \subseteq archive[f] \cup Copies
  BY <1>6 DEF Copies
<1> QED
  BY <1>2, <1>6, <1>7, <1>8, <1>9, <1>10

(* A key that is made is nowhere else.                                     *)
LEMMA NewFacts ==
  ASSUME K!TypeOK, NEW k \in K!New
  PROVE  /\ k \in K!Made /\ k # K!NoKey /\ owed[k] = {}
         /\ \A e \in Devices : k \notin K!Rows(e) /\ k \notin Saved(e)
         /\ \A t \in Tasks : task[t].key # k
  BY TypeFacts DEF K!New, K!Known, Saved

LEMMA NewServes ==
  ASSUME KeysInv, GroupInv, NEW k \in K!New, NEW r
  PROVE  ~ Serves(k, r)
<1>1. \A d \in Devices : persisted[d] # Nobody => persisted[d].key \in Saved(d)
  BY DEF KeysInv, DeviceInv
<1>2. /\ k \in K!Made /\ owed[k] = {} /\ \A e \in Devices : k \notin Saved(e)
      /\ \A t \in Tasks : task[t].key # k
  BY NewFacts DEF KeysInv
<1> QED
  BY <1>1, <1>2 DEF Serves, GroupInv

-----------------------------------------------------------------------------
(* What a step leaves alone keeps its invariant.                           *)

LEMMA DeviceKeeps ==
  ASSUME K!TypeOK, NEW d \in Devices, DeviceInv(d), scene' = scene,
         memory'[d] = memory[d], stored'[d] = stored[d], pinned'[d] = pinned[d],
         pending'[d] = pending[d], prepared'[d] = prepared[d], persisted'[d] = persisted[d],
         met[d] \subseteq met'[d], K!HasKey => K!HasKey',
         \A e \in Devices : K!Rows(e) \subseteq K!Rows(e)'
  PROVE  DeviceInv(d)'
<1>1. Saved(d)' = Saved(d)
  BY DEF Saved
<1>2. persisted[d] # Nobody => persisted[d].roster.devices \subseteq Devices
  BY DEF K!TypeOK, K!Rosters
<1> QED
  BY <1>1, <1>2 DEF DeviceInv

LEMMA TaskKeeps ==
  ASSUME K!TypeOK, NEW u \in Tasks, TaskInv(u), task'[u] = task[u], scene' = scene,
         \A e \in Devices : K!Rows(e) \subseteq K!Rows(e)', K!HasKey => K!HasKey',
         Saved(K!Me(u)) \subseteq Saved(K!Me(u))', met[K!Me(u)] \subseteq met'[K!Me(u)],
         task[u].pc = "ready" => K!Own(K!Me(u))' = K!Own(K!Me(u))
  PROVE  TaskInv(u)'
<1>1. task[u].pc \in {"share", "ready"} => task[u].seen.devices \subseteq Devices
  BY TypeFacts DEF K!TypeOK, TaskRec, K!Rosters
<1>2. K!Me(u)' = K!Me(u) /\ \A s : K!Peers(K!Me(u), s)' = K!Peers(K!Me(u), s)
  BY DEF K!Me, K!Peers
<1> QED
  BY <1>1, <1>2 DEF TaskInv

LEMMA MakerKeeps ==
  ASSUME NEW u \in Tasks, MakerInv(u), task'[u] = task[u], scene' = scene,
         memory'[K!Me(u)] = memory[K!Me(u)], stored'[K!Me(u)] = stored[K!Me(u)],
         persisted'[K!Me(u)] = persisted[K!Me(u)],
         task[u].pc = "boot" =>
           \A r \in K!Rosters : Serves(task[u].key, r)' => Serves(task[u].key, r)
  PROVE  MakerInv(u)'
<1>1. K!Rosters' = K!Rosters /\ K!Me(u)' = K!Me(u)
  BY DEF K!Rosters, K!Members, K!Me
<1>2. Saved(K!Me(u))' = Saved(K!Me(u)) /\ K!Own(K!Me(u))' = K!Own(K!Me(u))
  BY <1>1 DEF Saved, K!Own, K!Latest
<1> QED
  BY <1>1, <1>2 DEF MakerInv

LEMMA ServesKeeps ==
  ASSUME ServesOne, scene' = scene,
         \A k \in K!Made : \A r \in K!Rosters : Serves(k, r)' => Serves(k, r),
         \A k \in K!Made : \A r \in K!Rosters : \A e \in Devices :
           Serves(k, r) /\ k \in K!Rows(e)' => k \in K!Rows(e) \/ r.members[UserOf[e]] # 0
  PROVE  ServesOne'
<1>1. K!Rosters' = K!Rosters /\ K!Made' = K!Made
  BY DEF K!Rosters, K!Members, K!Made
<1> QED
  BY <1>1 DEF ServesOne

LEMMA Kinds ==
  ASSUME K!TypeOK
  PROVE  scene.kind \in {"dm", "group"} /\ scene.tasks \subseteq Tasks /\ scene \in Scenes
  BY KeysAssumption DEF K!TypeOK

(* In a group nobody else works on the device of a preparation.            *)
LEMMA Alone ==
  ASSUME KeysInv, scene.kind = "group", NEW t \in Tasks, t \in scene.tasks,
         NEW u \in Tasks, u # t, task[u].pc # "idle"
  PROVE  K!Me(u) # K!Me(t)
  BY OnePreparation, Kinds DEF KeysInv, TaskInv, K!Me

(* One preparation moves, and with it what its device stores.              *)
LEMMA OneTaskMoves ==
  ASSUME KeysInv, NEW t \in Tasks, NEW d \in Devices, d = K!Me(t), NEW s, task' = [task EXCEPT ![t] = s],
         UNCHANGED <<scene, K!keyVars>>, t \in scene.tasks,
         \A e \in Devices \ {d} :
           /\ memory'[e] = memory[e] /\ stored'[e] = stored[e] /\ pinned'[e] = pinned[e]
           /\ pending'[e] = pending[e] /\ prepared'[e] = prepared[e]
           /\ persisted'[e] = persisted[e] /\ met'[e] = met[e],
         Saved(d) \subseteq Saved(d)', met[d] \subseteq met'[d],
         K!Own(d)' = K!Own(d) \/ K!Own(d)' \in Saved(d)',
         K!TypeOK', DeviceInv(d)', TaskInv(t)',
         scene.kind = "dm" =>
           /\ Saved(d)' \subseteq Copies /\ ~ s.fresh
           /\ s.pc \in {"look", "won", "share", "ready"} /\ s.key # K!NoKey => s.key \in Copies
           /\ \A k \in K!Made : (owed'[k] # {} => k \in Copies) /\ used'[k] = {},
         scene.kind = "group" =>
           /\ SenderInv(d)' /\ MakerInv(t)' /\ ServesOne'
           /\ \A k \in K!Made : used'[k] # {} => owed'[k] # {}
           /\ \A u \in Tasks \ {t} : task[u].pc = "boot" =>
                \A r \in K!Rosters : Serves(task[u].key, r)' => Serves(task[u].key, r)
  PROVE  KeysInv'
<1>0. d \in Devices /\ task \in [Tasks -> TaskRec] 
  BY TypeFacts DEF KeysInv, K!Me
<1>1. /\ \A e \in Devices : K!Rows(e)' = K!Rows(e)
      /\ K!HasKey' = K!HasKey /\ Copies' = Copies
  BY DEF K!Rows, K!HasKey, Copies, K!keyVars
<1>2. \A e \in Devices : DeviceInv(e)'
  <2> SUFFICES ASSUME NEW e \in Devices, e # d PROVE DeviceInv(e)'
    BY <1>0
  <2> QED
    BY <1>1, DeviceKeeps DEF KeysInv
<1>3. \A u \in Tasks \ {t} : task'[u] = task[u] /\ K!Me(u) \in Devices
  BY <1>0, TypeFacts DEF KeysInv
<1>4. task'[t] = s
  BY <1>0
<1>5. \A u \in Tasks \ {t} : task[u].pc = "ready" => K!Own(K!Me(u))' = K!Own(K!Me(u))
  <2> SUFFICES ASSUME NEW u \in Tasks \ {t}, task[u].pc = "ready" PROVE K!Own(K!Me(u))' = K!Own(K!Me(u))
    OBVIOUS
  <2>1. CASE K!Me(u) # d
    BY <1>3, <2>1 DEF K!Own, K!Latest
  <2>2. CASE K!Me(u) = d
    <3>1. scene.kind = "dm"
      BY <2>2, Alone, Kinds DEF KeysInv
    <3>2. /\ K!Own(d) \in Copies /\ Saved(d)' \subseteq Copies
          /\ \A k, l \in Copies : k = l
      BY <1>0, <2>2, <3>1, OwnFacts DEF KeysInv, TaskInv, ChatInv
    <3> QED
      BY <2>2, <3>2
  <2> QED
    BY <2>1, <2>2
<1>6. \A u \in Tasks : TaskInv(u)'
  <2> SUFFICES ASSUME NEW u \in Tasks, u # t PROVE TaskInv(u)'
    OBVIOUS
  <2>1. Saved(K!Me(u)) \subseteq Saved(K!Me(u))' /\ met[K!Me(u)] \subseteq met'[K!Me(u)]
    <3>1. CASE K!Me(u) # d
      BY <1>3, <3>1 DEF Saved
    <3>2. CASE K!Me(u) = d
      <4> DEFINE e == K!Me(u)
      <4>1. e = d /\ K!Me(u)' = e
        BY <3>2 DEF K!Me
      <4> QED
        BY <4>1
    <3> QED
      BY <3>1, <3>2
  <2> QED
    BY <1>1, <1>3, <1>5, <2>1, TaskKeeps DEF KeysInv
<1>7. scene'.kind = "dm" => ChatInv'
  <2> SUFFICES ASSUME scene.kind = "dm" PROVE ChatInv'
    OBVIOUS
  <2>1. \A e \in Devices : archive'[e] \subseteq Copies /\ Saved(e)' \subseteq Copies
    BY <1>0 DEF KeysInv, ChatInv, Saved, K!keyVars
  <2> QED
    BY <1>1, <1>3, <1>4, <2>1 DEF KeysInv, ChatInv, K!Made
<1>8. scene'.kind = "group" => GroupInv'
  <2> SUFFICES ASSUME scene.kind = "group" PROVE GroupInv'
    OBVIOUS
  <2>1. \A e \in Devices : SenderInv(e)'
    BY <1>0 DEF KeysInv, GroupInv, SenderInv, K!Latest
  <2>2. ASSUME NEW u \in Tasks, u # t PROVE MakerInv(u)'
    <3>1. CASE task[u].pc = "idle"
      BY <1>3, <2>2, <3>1 DEF MakerInv
    <3>2. CASE task[u].pc # "idle"
      BY <1>3, <2>2, <3>2, Alone, MakerKeeps DEF KeysInv, GroupInv
    <3> QED
      BY <3>1, <3>2
  <2> QED
    BY <2>1, <2>2 DEF GroupInv, K!Made
<1> QED
  BY <1>1, <1>2, <1>6, <1>7, <1>8 DEF KeysInv, K!keyVars

(* Nothing gets a key to serve by a step that makes none.                  *)
LEMMA ServesLess ==
  ASSUME K!TypeOK, NEW t \in Tasks, NEW s, task' = [task EXCEPT ![t] = s], ~ s.fresh,
         persisted' = persisted, \A k \in K!Made : \A r \in used'[k] : Serves(k, r)
  PROVE  \A k \in K!Made : \A r : Serves(k, r)' => Serves(k, r)
<1> SUFFICES ASSUME NEW k \in K!Made, NEW r, Serves(k, r)' PROVE Serves(k, r)
  OBVIOUS
<1>1. \A u \in Tasks \ {t} : task'[u] = task[u]
  BY TypeFacts
<1>2. task'[t] = s
  BY TypeFacts
<1>3. CASE \E u \in Tasks : task'[u].fresh /\ task'[u].key = k /\ task'[u].seen = r
  BY <1>1, <1>2, <1>3 DEF Serves
<1>4. CASE \E d \in Devices : persisted'[d] # Nobody /\ persisted'[d] = [key |-> k, roster |-> r]
  BY <1>4 DEF Serves
<1>5. CASE r \in used'[k]
  BY <1>5
<1> QED
  BY <1>3, <1>4, <1>5 DEF Serves

LEMMA RowsStay ==
  ASSUME UNCHANGED K!keyVars
  PROVE  /\ \A e \in Devices : K!Rows(e)' = K!Rows(e)
         /\ K!HasKey' = K!HasKey /\ Copies' = Copies
  BY DEF K!Rows, K!HasKey, Copies, K!keyVars

(* One preparation moves, and its device stores nothing.                   *)
LEMMA OnlyTaskMoves ==
  ASSUME KeysInv, NEW t \in Tasks, NEW d \in Devices, d = K!Me(t), NEW s \in TaskRec,
         task' = [task EXCEPT ![t] = s], t \in scene.tasks, ~ s.fresh,
         UNCHANGED <<K!serverVars, K!keyVars, K!deviceVars, met>>,
         owed' \in [K!Made -> SUBSET Devices], used' \in [K!Made -> SUBSET K!Rosters],
         s.pc \in {"share", "ready"} => s.seen # Nobody,
         TaskInv(t)',
         scene.kind = "dm" =>
           /\ s.pc \in {"look", "won", "share", "ready"} /\ s.key # K!NoKey => s.key \in Copies
           /\ \A k \in K!Made : (owed'[k] # {} => k \in Copies) /\ used'[k] = {},
         scene.kind = "group" =>
           /\ \A k \in K!Made : \A r \in used'[k] : Serves(k, r)
           /\ (\A k \in K!Made : \A r : Serves(k, r)' => Serves(k, r)) => MakerInv(t)'
           /\ \A k \in K!Made : used'[k] # {} => owed'[k] # {}
  PROVE  KeysInv'
<1>1. /\ memory' = memory /\ stored' = stored /\ pinned' = pinned /\ pending' = pending
      /\ prepared' = prepared /\ persisted' = persisted /\ met' = met /\ scene' = scene
  BY DEF K!deviceVars, K!serverVars
<1>2. K!TypeOK'
  <2>1. task \in [Tasks -> TaskRec] /\ K!Rosters' = K!Rosters /\ K!Members' = K!Members /\ K!Made' = K!Made
    BY <1>1, TypeFacts DEF KeysInv, K!Rosters, K!Members, K!Made
  <2>2. task' \in [Tasks -> TaskRec]
        /\ \A u \in Tasks : task'[u].pc \in {"share", "ready"} => task'[u].seen # Nobody
    BY <2>1 DEF KeysInv, K!TypeOK
  <2> QED
    BY <1>1, <2>1, <2>2 DEF KeysInv, K!TypeOK, TaskRec, K!keyVars, K!serverVars
<1>3. DeviceInv(d)'
  BY <1>1, RowsStay, DeviceKeeps DEF KeysInv
<1>4. Saved(d)' = Saved(d) /\ K!Own(d)' = K!Own(d)
  BY <1>1 DEF Saved, K!Own, K!Latest
<1>5. ASSUME scene.kind = "group"
      PROVE  /\ SenderInv(d)' /\ MakerInv(t)' /\ ServesOne'
             /\ \A k \in K!Made : \A r : Serves(k, r)' => Serves(k, r)
  <2>1. \A k \in K!Made : \A r : Serves(k, r)' => Serves(k, r)
    BY <1>1, <1>5, ServesLess DEF KeysInv
  <2>2. MakerInv(t)'
    BY <1>5, <2>1
  <2>3. SenderInv(d)'
    BY <1>1, <1>5 DEF KeysInv, GroupInv, SenderInv, K!Latest
  <2>4. ServesOne'
    BY <1>1, <1>5, <2>1, RowsStay, ServesKeeps DEF KeysInv, GroupInv
  <2> QED
    BY <2>1, <2>2, <2>3, <2>4
<1>6. scene.kind = "dm" => Saved(d)' \subseteq Copies
  BY <1>4 DEF KeysInv, ChatInv
<1>7. \A u \in Tasks \ {t} : task[u].pc = "boot" => task[u].key \in K!Made
  <2> SUFFICES ASSUME NEW u \in Tasks \ {t}, task[u].pc = "boot" PROVE task[u].key \in K!Made
    OBVIOUS
  <2> QED
    BY TypeFacts, KeysAssumption DEF KeysInv, TaskInv, TaskRec, K!Made, K!NoKey
<1>8. scene.kind = "group" =>
        /\ SenderInv(d)' /\ MakerInv(t)' /\ ServesOne'
        /\ \A k \in K!Made : used'[k] # {} => owed'[k] # {}
        /\ \A u \in Tasks \ {t} : task[u].pc = "boot" =>
             \A r \in K!Rosters : Serves(task[u].key, r)' => Serves(task[u].key, r)
  BY <1>5, <1>7
<1>9. scene.kind = "dm" =>
        /\ Saved(d)' \subseteq Copies /\ ~ s.fresh
        /\ s.pc \in {"look", "won", "share", "ready"} /\ s.key # K!NoKey => s.key \in Copies
        /\ \A k \in K!Made : (owed'[k] # {} => k \in Copies) /\ used'[k] = {}
  BY <1>6
<1>10. /\ UNCHANGED <<scene, K!keyVars>>
       /\ \A e \in Devices \ {d} :
           /\ memory'[e] = memory[e] /\ stored'[e] = stored[e] /\ pinned'[e] = pinned[e]
           /\ pending'[e] = pending[e] /\ prepared'[e] = prepared[e]
           /\ persisted'[e] = persisted[e] /\ met'[e] = met[e]
       /\ Saved(d) \subseteq Saved(d)' /\ met[d] \subseteq met'[d]
       /\ K!Own(d)' = K!Own(d)
  BY <1>1, <1>4
<1> QED
  BY <1>2, <1>3, <1>8, <1>9, <1>10, OneTaskMoves

LEMMA IdleFacts ==
  ASSUME K!TypeOK
  PROVE  K!Idle \in TaskRec /\ ~ K!Idle.fresh /\ K!Idle.pc = "idle" /\ K!Idle.seen = Nobody
         /\ K!Idle.key = K!NoKey /\ K!Idle.todo = {} /\ ~ K!Idle.asked
  BY KeysAssumption DEF K!Idle, TaskRec, K!NoKey

(* A preparation that ends.                                                *)
LEMMA IdleInv ==
  ASSUME K!TypeOK, NEW t \in Tasks, task' = [task EXCEPT ![t] = K!Idle], UNCHANGED scene
  PROVE  TaskInv(t)' /\ MakerInv(t)'
<1>1. task'[t] = K!Idle
  BY TypeFacts
<1> QED
  BY <1>1, IdleFacts DEF TaskInv, MakerInv

LEMMA GiveUpStep ==
  ASSUME KeysInv, NEW t \in Tasks, K!GiveUp(t)
  PROVE  KeysInv'
<1>1. PICK d \in Devices : d = K!Me(t)
  BY TypeFacts DEF KeysInv
<1>2. /\ task' = [task EXCEPT ![t] = K!Idle] /\ t \in scene.tasks
      /\ UNCHANGED <<K!serverVars, K!keyVars, K!deviceVars, met>> /\ owed' = owed /\ used' = used
  BY DEF K!GiveUp, K!Step, KeysInv, TaskInv, K!history
<1>3. K!Idle \in TaskRec /\ ~ K!Idle.fresh /\ K!Idle.pc = "idle" /\ K!Idle.key = K!NoKey
  BY IdleFacts DEF KeysInv
<1>4. TaskInv(t)' /\ MakerInv(t)'
  BY <1>2, IdleInv DEF KeysInv, K!serverVars
<1>5. owed' \in [K!Made -> SUBSET Devices] /\ used' \in [K!Made -> SUBSET K!Rosters]
  BY <1>2 DEF KeysInv, K!TypeOK
<1>6. scene.kind = "dm" => \A k \in K!Made : (owed'[k] # {} => k \in Copies) /\ used'[k] = {}
  BY <1>2 DEF KeysInv, ChatInv
<1>7. scene.kind = "group" => /\ \A k \in K!Made : \A r \in used'[k] : Serves(k, r)
                              /\ \A k \in K!Made : used'[k] # {} => owed'[k] # {}
  BY <1>2 DEF KeysInv, GroupInv, Serves
<1>8. PICK s \in TaskRec : s = K!Idle
  BY <1>3
<1> QED
  BY <1>1, <1>2, <1>3, <1>4, <1>5, <1>6, <1>7, <1>8, OnlyTaskMoves

LEMMA ReadPeersStep ==
  ASSUME KeysInv, NEW t \in Tasks, K!ReadPeers(t)
  PROVE  KeysInv'
<1>1. PICK d \in Devices : d = K!Me(t)
  BY TypeFacts DEF KeysInv
<1> DEFINE roster == [members |-> member, devices |-> {d} \cup {e \in trusted : member[UserOf[e]] # 0}]
<1>2. PICK intro \in BOOLEAN : task' = [task EXCEPT ![t] = [task[t] EXCEPT !.intro = intro, !.seen = roster]]
  BY <1>1 DEF K!ReadPeers, K!Step
<1> DEFINE s == [task[t] EXCEPT !.intro = intro, !.seen = roster]
<1>3. /\ task[t].pc = "look" /\ t \in scene.tasks /\ K!Admitted(d)
      /\ UNCHANGED <<K!serverVars, K!keyVars, K!deviceVars, met>> /\ owed' = owed /\ used' = used
  BY <1>1 DEF K!ReadPeers, KeysInv, TaskInv, K!history
<1>4. roster \in K!Rosters /\ \A e \in roster.devices : roster.members[UserOf[e]] # 0
  BY <1>3 DEF KeysInv, K!TypeOK, K!Rosters, K!Admitted
<1>5. task[t] \in TaskRec
  BY TypeFacts DEF KeysInv
<1>6. /\ s \in TaskRec /\ s.pc = "look" /\ s.key = task[t].key /\ s.asked = task[t].asked
      /\ s.seen = roster /\ s.fresh = task[t].fresh
  BY <1>4, <1>5, <1>3 DEF TaskRec
<1>7. ~ task[t].fresh
  BY <1>3 DEF KeysInv, TaskInv
<1>8. task'[t] = s
  BY <1>2, TypeFacts DEF KeysInv
<1> HIDE DEF s
<1>9. Saved(d)' = Saved(d) /\ K!Own(d)' = K!Own(d)
  BY <1>3 DEF K!deviceVars, Saved, K!Own, K!Latest
<1>10. TaskInv(t)'
  <2>1. d \in roster.devices
    OBVIOUS
  <2>2. s.key # K!NoKey => s.key \in Saved(d)
    BY <1>1, <1>3, <1>6 DEF KeysInv, TaskInv
  <2>3. s.asked => s.key = K!NoKey
    BY <1>1, <1>3, <1>6 DEF KeysInv, TaskInv
  <2>4. K!Me(t)' = d /\ scene' = scene
    BY <1>1, <1>3 DEF K!Me, K!serverVars
  <2> QED
    BY <1>3, <1>4, <1>6, <1>7, <1>8, <1>9, <2>1, <2>2, <2>3, <2>4 DEF TaskInv
<1>11. owed' \in [K!Made -> SUBSET Devices] /\ used' \in [K!Made -> SUBSET K!Rosters]
  BY <1>3 DEF KeysInv, K!TypeOK
<1>12. scene.kind = "dm" =>
         /\ s.key # K!NoKey => s.key \in Copies
         /\ \A k \in K!Made : (owed'[k] # {} => k \in Copies) /\ used'[k] = {}
  BY <1>3, <1>6 DEF KeysInv, ChatInv
<1>13. scene.kind = "group" => /\ \A k \in K!Made : \A r \in used'[k] : Serves(k, r)
                               /\ \A k \in K!Made : used'[k] # {} => owed'[k] # {}
  BY <1>3 DEF KeysInv, GroupInv, Serves
<1>14. scene.kind = "group" => MakerInv(t)'
  <2> SUFFICES ASSUME scene.kind = "group" PROVE MakerInv(t)'
    OBVIOUS
  <2>1. s.key \in {K!NoKey, K!Own(d)} /\ (s.key = K!NoKey => Saved(d) = {})
    BY <1>1, <1>3, <1>6 DEF KeysInv, GroupInv, MakerInv
  <2>2. K!Me(t)' = d
    BY <1>1 DEF K!Me
  <2> QED
    BY <1>6, <1>8, <1>9, <2>1, <2>2 DEF MakerInv
<1> QED
  BY <1>1, <1>2, <1>3, <1>6, <1>7, <1>10, <1>11, <1>12, <1>13, <1>14, OnlyTaskMoves DEF s

LEMMA SendStep ==
  ASSUME KeysInv, NEW t \in Tasks, K!Send(t)
  PROVE  KeysInv'
<1>1. PICK d \in Devices : d = K!Me(t)
  BY TypeFacts DEF KeysInv
<1> DEFINE k == K!Own(d)
           seen == task[t].seen
<1>2. /\ task' = [task EXCEPT ![t] = K!Idle] /\ task[t].pc = "ready" /\ t \in scene.tasks
      /\ UNCHANGED <<K!serverVars, K!keyVars, K!deviceVars, met>>
      /\ owed' = [owed EXCEPT ![k] = @ \cup seen.devices]
      /\ used' = IF scene.kind = "group" THEN [used EXCEPT ![k] = @ \cup {seen}] ELSE used
  BY <1>1 DEF K!Send, K!Step, KeysInv, TaskInv
<1>3. PICK s \in TaskRec : s = K!Idle /\ ~ s.fresh /\ s.pc = "idle" /\ s.key = K!NoKey
  BY IdleFacts DEF KeysInv
<1>4. TaskInv(t)' /\ MakerInv(t)'
  BY <1>2, IdleInv DEF KeysInv, K!serverVars
<1>5. /\ k # K!NoKey /\ k \in Saved(d) /\ k \in K!Made
      /\ seen \in K!Rosters /\ d \in seen.devices
  <2>1. k # K!NoKey /\ seen # Nobody /\ d \in seen.devices
    BY <1>1, <1>2 DEF KeysInv, TaskInv, K!TypeOK
  <2>2. k \in Saved(d) /\ k \in K!Made
    BY <2>1, OwnFacts, TypeFacts DEF KeysInv
  <2>3. seen \in K!Rosters
    BY <2>1, TypeFacts DEF KeysInv, TaskRec
  <2> QED
    BY <2>1, <2>2, <2>3
<1> HIDE DEF k, seen
<1>6. owed \in [K!Made -> SUBSET Devices] /\ used \in [K!Made -> SUBSET K!Rosters]
      /\ seen.devices \subseteq Devices
  BY <1>5 DEF KeysInv, K!TypeOK, K!Rosters
<1>7. owed' \in [K!Made -> SUBSET Devices] /\ used' \in [K!Made -> SUBSET K!Rosters]
  BY <1>2, <1>5, <1>6
<1>8. \A l \in K!Made : /\ l # k => owed'[l] = owed[l] /\ used'[l] = used[l]
                        /\ d \in owed'[k]
                        /\ used'[l] \subseteq used[l] \cup {seen}
  BY <1>2, <1>5, <1>6
<1>9. ASSUME scene.kind = "dm"
      PROVE  \A l \in K!Made : (owed'[l] # {} => l \in Copies) /\ used'[l] = {}
  <2>1. used' = used /\ k \in Copies
    BY <1>2, <1>5, <1>9 DEF KeysInv, ChatInv
  <2> QED
    BY <1>8, <1>9, <2>1 DEF KeysInv, ChatInv
<1>10. ASSUME scene.kind = "group"
       PROVE  /\ \A l \in K!Made : \A r \in used'[l] : Serves(l, r)
              /\ \A l \in K!Made : used'[l] # {} => owed'[l] # {}
  <2>1. /\ persisted[d] # Nobody /\ persisted[d].roster = seen
        /\ K!Latest(d) = persisted[d].key /\ memory[d] \in {K!NoKey, K!Latest(d)}
    BY <1>1, <1>2, <1>10 DEF KeysInv, GroupInv, MakerInv, SenderInv, seen
  <2>2. persisted[d].key = k
    BY <2>1 DEF K!Own, k
  <2>3. persisted[d] \in [key : K!Made, roster : K!Rosters]
    BY <2>1 DEF KeysInv, K!TypeOK
  <2>4. persisted[d] = [key |-> k, roster |-> seen]
    BY <2>1, <2>2, <2>3
  <2>5. Serves(k, seen)
    BY <2>1, <2>4 DEF Serves
  <2>6. \A l \in K!Made : \A r \in used[l] : Serves(l, r)
    BY DEF Serves
  <2>7. \A l \in K!Made : used'[l] # {} => owed'[l] # {}
    BY <1>8, <1>10 DEF KeysInv, GroupInv
  <2> QED
    BY <1>8, <2>5, <2>6, <2>7
<1> QED
  BY <1>1, <1>2, <1>3, <1>4, <1>7, <1>9, <1>10, OnlyTaskMoves

LEMMA PrepareStep ==
  ASSUME KeysInv, NEW t \in Tasks, K!Prepare(t)
  PROVE  KeysInv'
<1>1. PICK d \in Devices : d = K!Me(t)
  BY TypeFacts DEF KeysInv
<1> DEFINE k == K!Own(d)
           s == [K!Idle EXCEPT !.pc = "look", !.key = k, !.asked = k = K!NoKey]
<1>2. /\ task[t].pc = "idle" /\ t \in scene.tasks
      /\ task' = [task EXCEPT ![t] = s] /\ memory' = [memory EXCEPT ![d] = k]
      /\ UNCHANGED <<K!serverVars, K!keyVars, stored, pinned, pending, prepared, persisted, K!history>>
  BY <1>1 DEF K!Prepare, K!Step
<1>3. k \in Saved(d) \cup {K!NoKey} /\ k \in 0..MaxKeys /\ (k = K!NoKey <=> Saved(d) = {})
  BY OwnFacts DEF KeysInv
<1> HIDE DEF k
<1>4. /\ s \in TaskRec /\ s.pc = "look" /\ s.key = k /\ s.asked = (k = K!NoKey)
      /\ s.seen = Nobody /\ ~ s.fresh
  BY <1>3, IdleFacts DEF KeysInv, TaskRec
<1>5. task'[t] = s
  BY <1>2, TypeFacts DEF KeysInv
<1> HIDE DEF s
<1>6. memory \in [Devices -> 0..MaxKeys]
  BY DEF KeysInv, K!TypeOK
<1>7. /\ memory' \in [Devices -> 0..MaxKeys] /\ memory'[d] = k
      /\ \A e \in Devices \ {d} : memory'[e] = memory[e]
  BY <1>2, <1>3, <1>6
<1>8. /\ scene' = scene /\ owed' = owed /\ used' = used /\ met' = met
      /\ UNCHANGED <<K!serverVars, K!keyVars>>
  BY <1>2 DEF K!serverVars, K!history
<1>9. Saved(d)' = Saved(d) /\ K!Latest(d)' = K!Latest(d)
  BY <1>2 DEF Saved, K!Latest
<1>10. K!Own(d)' = k
  <2>1. CASE k # K!NoKey
    BY <1>7, <2>1 DEF K!Own
  <2>2. CASE k = K!NoKey
    BY <1>7, <1>9, <2>2 DEF K!Own, k
  <2> QED
    BY <2>1, <2>2
<1>11. K!TypeOK'
  <2>1. task \in [Tasks -> TaskRec] /\ K!Rosters' = K!Rosters /\ K!Members' = K!Members /\ K!Made' = K!Made
    BY <1>8, TypeFacts DEF KeysInv, K!Rosters, K!Members, K!Made
  <2>2. task' \in [Tasks -> TaskRec]
        /\ \A u \in Tasks : task'[u].pc \in {"share", "ready"} => task'[u].seen # Nobody
    BY <1>2, <1>4, <2>1 DEF KeysInv, K!TypeOK
  <2>3. \A e \in Devices : memory'[e] # K!NoKey \/ pinned'[e] # Nobody => stored'[e] # <<>>
    BY <1>2, <1>3, <1>7, TypeFacts DEF KeysInv, K!TypeOK
  <2> QED
    BY <1>2, <1>7, <1>8, <2>1, <2>2, <2>3 DEF KeysInv, K!TypeOK, TaskRec, K!keyVars, K!serverVars
<1>12. DeviceInv(d)'
  <2>1. \A e \in Devices : K!Rows(e)' = K!Rows(e)
    BY <1>8, RowsStay
  <2>2. K!HasKey' = K!HasKey
    BY <1>8, RowsStay
  <2>3. persisted[d] # Nobody => persisted[d].roster.devices \subseteq Devices
    BY DEF KeysInv, K!TypeOK, K!Rosters
  <2> QED
    BY <1>2, <1>3, <1>7, <1>8, <1>9, <2>1, <2>2, <2>3 DEF KeysInv, DeviceInv
<1>13. K!Me(t)' = d
  BY <1>1 DEF K!Me
<1>14. TaskInv(t)'
  BY <1>2, <1>3, <1>4, <1>5, <1>8, <1>9, <1>13 DEF TaskInv
<1>15. ASSUME scene.kind = "dm"
       PROVE  /\ Saved(d)' \subseteq Copies /\ ~ s.fresh
              /\ s.key # K!NoKey => s.key \in Copies
              /\ \A l \in K!Made : (owed'[l] # {} => l \in Copies) /\ used'[l] = {}
  BY <1>3, <1>4, <1>8, <1>9, <1>15 DEF KeysInv, ChatInv
<1>16. ASSUME scene.kind = "group"
       PROVE  /\ SenderInv(d)' /\ MakerInv(t)' /\ ServesOne'
              /\ \A l \in K!Made : used'[l] # {} => owed'[l] # {}
              /\ \A l \in K!Made : \A r : Serves(l, r)' => Serves(l, r)
  <2>1. \A l \in K!Made : \A r \in used'[l] : Serves(l, r)
    BY <1>8 DEF Serves
  <2>2. \A l \in K!Made : \A r : Serves(l, r)' => Serves(l, r)
    BY <1>2, <1>4, <2>1, ServesLess DEF KeysInv
  <2>3. ServesOne'
    BY <1>8, <1>16, <2>2, RowsStay, ServesKeeps DEF KeysInv, GroupInv
  <2>4. persisted[d] # Nobody => K!Latest(d) = persisted[d].key /\ memory[d] \in {K!NoKey, K!Latest(d)}
    BY <1>16 DEF KeysInv, GroupInv, SenderInv
  <2>5. SenderInv(d)'
    BY <1>2, <1>7, <1>9, <2>4 DEF SenderInv, K!Own, k
  <2>6. MakerInv(t)'
    BY <1>3, <1>4, <1>5, <1>9, <1>10, <1>13 DEF MakerInv
  <2> QED
    BY <1>8, <1>16, <2>2, <2>3, <2>5, <2>6 DEF KeysInv, GroupInv
<1>17. \A u \in Tasks \ {t} : task'[u] = task[u] /\ (task[u].pc = "boot" => task[u].key \in K!Made)
  <2>1. task \in [Tasks -> TaskRec]
    BY TypeFacts DEF KeysInv
  <2>2. \A u \in Tasks \ {t} : task'[u] = task[u]
    BY <1>2, <2>1
  <2>3. \A u \in Tasks : task[u].pc = "boot" => task[u].key \in K!Made
    BY <2>1, KeysAssumption DEF KeysInv, TaskInv, TaskRec, K!Made, K!NoKey
  <2> QED
    BY <2>2, <2>3
<1>18. scene.kind = "group" =>
        /\ SenderInv(d)' /\ MakerInv(t)' /\ ServesOne'
        /\ \A l \in K!Made : used'[l] # {} => owed'[l] # {}
        /\ \A u \in Tasks \ {t} : task[u].pc = "boot" =>
             \A r \in K!Rosters : Serves(task[u].key, r)' => Serves(task[u].key, r)
  BY <1>16, <1>17
<1>19. scene.kind = "dm" =>
        /\ Saved(d)' \subseteq Copies /\ ~ s.fresh
        /\ s.pc \in {"look", "won", "share", "ready"} /\ s.key # K!NoKey => s.key \in Copies
        /\ \A l \in K!Made : (owed'[l] # {} => l \in Copies) /\ used'[l] = {}
  BY <1>15
<1>20. /\ UNCHANGED <<scene, K!keyVars>>
       /\ \A e \in Devices \ {d} :
           /\ memory'[e] = memory[e] /\ stored'[e] = stored[e] /\ pinned'[e] = pinned[e]
           /\ pending'[e] = pending[e] /\ prepared'[e] = prepared[e]
           /\ persisted'[e] = persisted[e] /\ met'[e] = met[e]
       /\ Saved(d) \subseteq Saved(d)' /\ met[d] \subseteq met'[d]
       /\ K!Own(d)' = K!Own(d)
  BY <1>2, <1>7, <1>8, <1>9, <1>10 DEF k
<1> QED
  BY <1>1, <1>2, <1>11, <1>12, <1>14, <1>18, <1>19, <1>20, OneTaskMoves

LEMMA PinFacts ==
  ASSUME K!TypeOK, NEW d \in Devices, DeviceInv(d), NEW peers \in SUBSET Devices,
         ~ K!Distrusts(d, peers), K!Pin(d, peers)
  PROVE  /\ pinned' \in [Devices -> {Nobody} \cup SUBSET Devices]
         /\ met' \in [Devices -> SUBSET Devices]
         /\ \A e \in Devices \ {d} : pinned'[e] = pinned[e] /\ met'[e] = met[e]
         /\ met[d] \subseteq met'[d] /\ peers \subseteq met'[d]
         /\ pinned'[d] # Nobody => pinned'[d] \subseteq met'[d]
<1>1. pinned \in [Devices -> {Nobody} \cup SUBSET Devices] /\ met \in [Devices -> SUBSET Devices]
  BY DEF K!TypeOK
<1>2. CASE K!Pins(d, peers)
  <2>1. pinned' = [pinned EXCEPT ![d] = peers] /\ met' = [met EXCEPT ![d] = @ \cup peers]
    BY <1>2 DEF K!Pin
  <2> QED
    BY <1>1, <2>1
<1>3. CASE ~ K!Pins(d, peers)
  <2>1. pinned' = pinned /\ met' = met
    BY <1>3 DEF K!Pin
  <2>2. pinned[d] # Nobody => pinned[d] = peers
    BY DEF K!Distrusts
  <2>3. pinned[d] = Nobody => peers = {}
    BY <1>3 DEF K!Pins
  <2> QED
    BY <1>1, <2>1, <2>2, <2>3 DEF DeviceInv
<1> QED
  BY <1>2, <1>3

LEMMA PublishCases ==
  ASSUME K!TypeOK, NEW t \in Tasks, NEW d \in Devices, d = K!Me(t), NEW k \in K!Made,
         task[t].seen \in K!Rosters, K!Publish(t, k)
  PROVE  \E s \in TaskRec :
           /\ task' = [task EXCEPT ![t] = s] /\ s.seen = task[t].seen
           /\ s.pc = "share" => s.todo = task[t].seen.devices
           /\ \/ /\ s.pc = "ready" /\ s.fresh = task[t].fresh /\ s.key = k
                 /\ \/ prepared[d] = task[t].seen /\ prepared' = prepared
                    \/ /\ persisted[d] = [key |-> k, roster |-> task[t].seen]
                       /\ prepared' = [prepared EXCEPT ![d] = task[t].seen]
              \/ /\ s.pc = "share" /\ s.fresh /\ s.key \in K!New /\ scene.kind = "group"
                 /\ prepared' = prepared
              \/ /\ s.pc = "share" /\ ~ s.fresh /\ s.key = k /\ ~ K!Rotates(d, task[t].seen)
                 /\ persisted[d] # [key |-> k, roster |-> task[t].seen]
                 /\ prepared' = prepared
<1> DEFINE r == task[t].seen
<1>1. task[t] \in TaskRec /\ k \in 0..MaxKeys /\ K!New \subseteq 0..MaxKeys /\ r.devices \subseteq Devices
  BY TypeFacts, KeysAssumption DEF K!Made, K!New, K!Rosters
<1>2. [task[t] EXCEPT !.pc = "ready", !.key = k] \in TaskRec
  BY <1>1 DEF TaskRec
<1>3. \A l \in 0..MaxKeys : \A f \in BOOLEAN :
        [task[t] EXCEPT !.pc = "share", !.key = l, !.fresh = f, !.todo = r.devices] \in TaskRec
  BY <1>1 DEF TaskRec
<1>4. CASE \/ prepared[d] = r /\ K!Step(t, [task[t] EXCEPT !.pc = "ready", !.key = k])
              /\ prepared' = prepared
           \/ /\ persisted[d] = [key |-> k, roster |-> r]
              /\ K!Step(t, [task[t] EXCEPT !.pc = "ready", !.key = k])
              /\ prepared' = [prepared EXCEPT ![d] = r]
  <2> DEFINE s == [task[t] EXCEPT !.pc = "ready", !.key = k]
  <2>1. s \in TaskRec /\ s.pc = "ready" /\ s.key = k /\ s.seen = r /\ s.fresh = task[t].fresh
    BY <1>1, <1>2 DEF TaskRec
  <2> HIDE DEF s
  <2>2. task' = [task EXCEPT ![t] = s]
    BY <1>4 DEF K!Step, s
  <2> QED
    BY <1>4, <2>1, <2>2
<1>5. CASE /\ prepared[d] # r /\ K!Rotates(d, r) /\ prepared' = prepared
           /\ \E new \in K!New : K!Step(t, [task[t] EXCEPT !.pc = "share", !.key = new,
                                                      !.fresh = TRUE, !.todo = r.devices])
  <2> PICK new \in K!New : K!Step(t, [task[t] EXCEPT !.pc = "share", !.key = new,
                                              !.fresh = TRUE, !.todo = r.devices])
    BY <1>5
  <2> DEFINE s == [task[t] EXCEPT !.pc = "share", !.key = new, !.fresh = TRUE, !.todo = r.devices]
  <2>1. /\ s \in TaskRec /\ s.pc = "share" /\ s.key = new /\ s.seen = r /\ s.fresh
        /\ s.todo = r.devices
    BY <1>1, <1>3 DEF TaskRec
  <2> HIDE DEF s
  <2>2. task' = [task EXCEPT ![t] = s]
    BY DEF K!Step, s
  <2> QED
    BY <1>5, <2>1, <2>2 DEF K!Rotates
<1>6. CASE /\ prepared' = prepared /\ ~ K!Rotates(d, r)
           /\ persisted[d] # [key |-> k, roster |-> r]
           /\ K!Step(t, [task[t] EXCEPT !.pc = "share", !.key = k, !.fresh = FALSE,
                                    !.todo = r.devices])
  <2> DEFINE s == [task[t] EXCEPT !.pc = "share", !.key = k, !.fresh = FALSE, !.todo = r.devices]
  <2>1. /\ s \in TaskRec /\ s.pc = "share" /\ s.key = k /\ s.seen = r /\ ~ s.fresh
        /\ s.todo = r.devices
    BY <1>1, <1>3 DEF TaskRec
  <2> HIDE DEF s
  <2>2. task' = [task EXCEPT ![t] = s]
    BY <1>6 DEF K!Step, s
  <2> QED
    BY <1>6, <2>1, <2>2
<1> QED
  BY <1>4, <1>5, <1>6 DEF K!Publish

(* What a group's key serves after a preparation moved.                    *)
LEMMA ServesNew ==
  ASSUME K!TypeOK, NEW t \in Tasks, NEW s, task' = [task EXCEPT ![t] = s],
         persisted' = persisted, used' = used
  PROVE  \A k \in K!Made : \A r : Serves(k, r)' => Serves(k, r) \/ (s.fresh /\ s.key = k /\ s.seen = r)
<1> SUFFICES ASSUME NEW k \in K!Made, NEW r, Serves(k, r)'
             PROVE  Serves(k, r) \/ (s.fresh /\ s.key = k /\ s.seen = r)
  OBVIOUS
<1>1. task'[t] = s /\ \A u \in Tasks \ {t} : task'[u] = task[u]
  BY TypeFacts
<1>2. CASE \E u \in Tasks : task'[u].fresh /\ task'[u].key = k /\ task'[u].seen = r
  BY <1>1, <1>2 DEF Serves
<1>3. CASE \E d \in Devices : persisted'[d] # Nobody /\ persisted'[d] = [key |-> k, roster |-> r]
  BY <1>3 DEF Serves
<1>4. CASE r \in used'[k]
  BY <1>4 DEF Serves
<1> QED
  BY <1>2, <1>3, <1>4 DEF Serves

(* A key that is made for a roster serves this one alone.                  *)
LEMMA NewServesOne ==
  ASSUME KeysInv, GroupInv, NEW t \in Tasks, NEW s, task' = [task EXCEPT ![t] = s],
         persisted' = persisted, used' = used, UNCHANGED <<scene, K!keyVars>>, s.key \in K!New
  PROVE  ServesOne'
<1> DEFINE k == s.key
<1>1. k \in K!Made /\ \A e \in Devices : k \notin K!Rows(e)
  BY NewFacts DEF KeysInv
<1>2. \A r : ~ Serves(k, r)
  BY NewServes
<1>3. \A l \in K!Made : \A r : Serves(l, r)' => Serves(l, r) \/ (l = k /\ s.seen = r)
  BY ServesNew DEF KeysInv
<1>4. K!Rosters' = K!Rosters /\ K!Made' = K!Made /\ \A e \in Devices : K!Rows(e)' = K!Rows(e)
  BY RowsStay DEF K!Rosters, K!Members, K!Made
<1> SUFFICES ASSUME NEW l \in K!Made, NEW r \in K!Rosters, Serves(l, r)'
             PROVE  /\ \A q \in K!Rosters : Serves(l, q)' => q = r
                    /\ \A e \in Devices : l \in K!Rows(e)' => r.members[UserOf[e]] # 0
  BY <1>4 DEF ServesOne
<1>5. CASE l = k
  BY <1>1, <1>2, <1>3, <1>4, <1>5
<1>6. CASE l # k
  BY <1>3, <1>4, <1>6 DEF GroupInv, ServesOne
<1> QED
  BY <1>5, <1>6

(* A preparation goes on with its key, or ends: what Decide and Adopt do.  *)
LEMMA SettleKeeps ==
  ASSUME KeysInv, NEW t \in Tasks, NEW d \in Devices, d = K!Me(t), NEW k \in K!Made,
         task[t].pc \in {"look", "won", "lost"}, task[t].seen # Nobody, K!Settle(t, k),
         \A n \in K!New : n # k,
         UNCHANGED <<K!serverVars, K!keyVars, persisted, owed, used>>,
         memory' \in [Devices -> 0..MaxKeys], stored' \in [Devices -> Seq(K!Made)],
         stored'[d] # <<>>,
         \A e \in Devices \ {d} : memory'[e] = memory[e] /\ stored'[e] = stored[e],
         Saved(d)' = Saved(d) \cup {k},
         memory'[d] # K!NoKey => memory'[d] \in Saved(d)', K!Own(d)' \in Saved(d)', K!HasKey,
         scene.kind = "dm" => k \in Copies,
         scene.kind = "group" =>
           Saved(d) = {} \/ (memory' = memory /\ stored' = stored /\ k = K!Own(d))
  PROVE  KeysInv'
<1> DEFINE r == task[t].seen
           peers == K!Peers(d, r)
<1>1. /\ task \in [Tasks -> TaskRec] /\ r \in K!Rosters /\ r.devices \subseteq Devices
      /\ peers \in SUBSET Devices /\ t \in scene.tasks /\ ~ task[t].fresh
      /\ d \in r.devices /\ \A e \in r.devices : r.members[UserOf[e]] # 0
  <2>1. task \in [Tasks -> TaskRec] /\ r \in K!Rosters
    BY TypeFacts DEF KeysInv, TaskRec
  <2> QED
    BY <2>1 DEF K!Rosters, K!Peers, KeysInv, TaskInv
<1>2. scene' = scene /\ member' = member /\ trusted' = trusted /\ changes' = changes
      /\ share' = share /\ archive' = archive
  BY DEF K!serverVars, K!keyVars
<1>3. (\A e \in Devices : K!Rows(e)' = K!Rows(e)) /\ K!HasKey' = K!HasKey /\ Copies' = Copies
  BY RowsStay
<1>4. K!Me(t)' = d /\ \A s : K!Peers(d, s)' = K!Peers(d, s)
  BY DEF K!Me, K!Peers
<1>5. persisted[d] # Nobody =>
        /\ persisted[d] \in [key : K!Made, roster : K!Rosters] /\ persisted[d].key \in Saved(d)
        /\ Saved(d) # {} /\ K!Own(d)' = persisted[d].key
        /\ \A e \in persisted[d].roster.devices : persisted[d].key \in K!Rows(e)
  <2> SUFFICES ASSUME persisted[d] # Nobody
               PROVE  /\ persisted[d] \in [key : K!Made, roster : K!Rosters]
                      /\ persisted[d].key \in Saved(d) /\ Saved(d) # {}
                      /\ K!Own(d)' = persisted[d].key
                      /\ \A e \in persisted[d].roster.devices : persisted[d].key \in K!Rows(e)
    OBVIOUS
  <2>1. /\ persisted[d] \in [key : K!Made, roster : K!Rosters] /\ persisted[d].key \in Saved(d)
        /\ \A e \in persisted[d].roster.devices : persisted[d].key \in K!Rows(e)
    BY DEF KeysInv, K!TypeOK, DeviceInv
  <2>2. CASE scene.kind = "dm"
    BY <2>1, <2>2 DEF KeysInv, ChatInv
  <2>3. CASE scene.kind = "group"
    <3>1. K!Own(d)' = K!Own(d)
      BY <2>1, <2>3 DEF K!Own, K!Latest
    <3>2. K!Latest(d) = persisted[d].key /\ memory[d] \in {K!NoKey, K!Latest(d)}
      BY <2>3 DEF KeysInv, GroupInv, SenderInv
    <3> QED
      BY <2>1, <3>1, <3>2 DEF K!Own
  <2> QED
    BY <2>1, <2>2, <2>3, Kinds DEF KeysInv
<1>6. \A s \in TaskRec :
        task' = [task EXCEPT ![t] = s] /\ (s.pc \in {"share", "ready"} => s.seen # Nobody)
        /\ pinned' \in [Devices -> {Nobody} \cup SUBSET Devices]
        /\ pending' \in [Devices -> {Nobody} \cup SUBSET Devices]
        /\ prepared' \in [Devices -> {Nobody} \cup K!Rosters]
        /\ met' \in [Devices -> SUBSET Devices]
        /\ (\A e \in Devices \ {d} : pinned'[e] = pinned[e])
        => K!TypeOK'
  <2> SUFFICES ASSUME NEW s \in TaskRec, task' = [task EXCEPT ![t] = s],
                      s.pc \in {"share", "ready"} => s.seen # Nobody,
                      pinned' \in [Devices -> {Nobody} \cup SUBSET Devices],
                      pending' \in [Devices -> {Nobody} \cup SUBSET Devices],
                      prepared' \in [Devices -> {Nobody} \cup K!Rosters],
                      met' \in [Devices -> SUBSET Devices],
                      \A e \in Devices \ {d} : pinned'[e] = pinned[e]
               PROVE  K!TypeOK'
    OBVIOUS
  <2>1. K!Rosters' = K!Rosters /\ K!Members' = K!Members /\ K!Made' = K!Made
    BY <1>2 DEF K!Rosters, K!Members, K!Made
  <2>2. task' \in [Tasks -> TaskRec]
        /\ \A u \in Tasks : task'[u].pc \in {"share", "ready"} => task'[u].seen # Nobody
    BY <1>1 DEF KeysInv, K!TypeOK
  <2>3. \A e \in Devices : memory'[e] # K!NoKey \/ pinned'[e] # Nobody => stored'[e] # <<>>
    BY DEF KeysInv, K!TypeOK
  <2> QED
    BY <1>2, <2>1, <2>2, <2>3 DEF KeysInv, K!TypeOK, TaskRec
<1>7. \A s \in TaskRec :
        /\ task' = [task EXCEPT ![t] = s]
        /\ \A e \in Devices \ {d} :
             /\ pinned'[e] = pinned[e] /\ pending'[e] = pending[e]
             /\ prepared'[e] = prepared[e] /\ met'[e] = met[e]
        /\ met[d] \subseteq met'[d] /\ K!TypeOK' /\ DeviceInv(d)' /\ TaskInv(t)'
        /\ scene.kind = "dm" => ~ s.fresh /\ (s.pc # "idle" => s.key = k)
        /\ scene.kind = "group" => MakerInv(t)' /\ (s.fresh => s.key \in K!New)
        => KeysInv'
  <2> SUFFICES ASSUME NEW s \in TaskRec, task' = [task EXCEPT ![t] = s],
                      \A e \in Devices \ {d} :
                         /\ pinned'[e] = pinned[e] /\ pending'[e] = pending[e]
                         /\ prepared'[e] = prepared[e] /\ met'[e] = met[e],
                      met[d] \subseteq met'[d], K!TypeOK', DeviceInv(d)', TaskInv(t)',
                      scene.kind = "dm" => ~ s.fresh /\ (s.pc # "idle" => s.key = k),
                      scene.kind = "group" => MakerInv(t)' /\ (s.fresh => s.key \in K!New)
               PROVE  KeysInv'
    OBVIOUS
  <2>1. scene.kind = "dm" =>
           /\ Saved(d)' \subseteq Copies /\ ~ s.fresh
           /\ s.pc \in {"look", "won", "share", "ready"} /\ s.key # K!NoKey => s.key \in Copies
           /\ \A l \in K!Made : (owed'[l] # {} => l \in Copies) /\ used'[l] = {}
    BY DEF KeysInv, ChatInv
  <2>2. ASSUME scene.kind = "group"
        PROVE  /\ SenderInv(d)' /\ ServesOne'
               /\ \A l \in K!Made : used'[l] # {} => owed'[l] # {}
               /\ \A u \in Tasks \ {t} : task[u].pc = "boot" =>
                    \A q \in K!Rosters : Serves(task[u].key, q)' => Serves(task[u].key, q)
    <3>1. \A l \in K!Made : \A q : Serves(l, q)' => Serves(l, q) \/ (s.fresh /\ s.key = l /\ s.seen = q)
      BY ServesNew DEF KeysInv
    <3>2. \A u \in Tasks \ {t} : /\ task'[u] = task[u]
                                 /\ task[u].pc = "boot" => task[u].key \in K!Made
                                 /\ \A n \in K!New : task[u].key # n
      <4>1. \A u \in Tasks \ {t} : task'[u] = task[u]
        BY <1>1
      <4>2. \A u \in Tasks : task[u].pc = "boot" => task[u].key \in K!Made
        BY <1>1, KeysAssumption DEF KeysInv, TaskInv, TaskRec, K!Made, K!NoKey
      <4>3. \A u \in Tasks : \A n \in K!New : task[u].key # n
        BY NewFacts DEF KeysInv
      <4> QED
        BY <4>1, <4>2, <4>3
    <3>3. \A u \in Tasks \ {t} : task[u].pc = "boot" =>
            \A q \in K!Rosters : Serves(task[u].key, q)' => Serves(task[u].key, q)
      BY <2>2, <3>1, <3>2
    <3>4. SenderInv(d)'
      <4>1. CASE Saved(d) = {}
        BY <1>5, <4>1 DEF SenderInv
      <4>2. CASE Saved(d) # {}
        BY <2>2, <4>2 DEF KeysInv, GroupInv, SenderInv, K!Latest
      <4> QED
        BY <4>1, <4>2
    <3>5. ServesOne'
      <4>1. CASE s.fresh
        BY <1>2, <2>2, <4>1, NewServesOne DEF KeysInv
      <4>2. CASE ~ s.fresh
        BY <1>2, <1>3, <2>2, <3>1, <4>2, ServesKeeps DEF KeysInv, GroupInv
      <4> QED
        BY <4>1, <4>2
    <3> QED
      BY <2>2, <3>3, <3>4, <3>5 DEF KeysInv, GroupInv
  <2>3. /\ UNCHANGED <<scene, K!keyVars>>
        /\ \A e \in Devices \ {d} :
             /\ memory'[e] = memory[e] /\ stored'[e] = stored[e] /\ pinned'[e] = pinned[e]
             /\ pending'[e] = pending[e] /\ prepared'[e] = prepared[e]
             /\ persisted'[e] = persisted[e] /\ met'[e] = met[e]
        /\ Saved(d) \subseteq Saved(d)' /\ K!Own(d)' \in Saved(d)'
    BY <1>2
  <2> HIDE DEF r, peers
  <2> QED
    BY <1>1, <2>1, <2>2, <2>3, OneTaskMoves
<1>8. ASSUME pinned'[d] # Nobody => pinned'[d] \subseteq met'[d],
             prepared'[d] # Nobody => persisted[d] # Nobody /\ persisted[d].roster = prepared'[d]
      PROVE  DeviceInv(d)'
  <2>1. persisted[d] # Nobody => persisted[d].roster.devices \subseteq Devices
    BY <1>5 DEF K!Rosters
  <2> QED
    BY <1>2, <1>3, <1>5, <1>8, <2>1 DEF DeviceInv
<1>9. CASE ~ K!Ready(t) \/ (K!Ready(t) /\ K!Distrusts(d, peers))
  <2>1. /\ task' = [task EXCEPT ![t] = K!Idle] /\ pinned' = pinned /\ met' = met /\ prepared' = prepared
        /\ pending' = pending \/ pending' = [pending EXCEPT ![d] = peers]
    BY <1>9 DEF K!Settle, K!Step
  <2>2. PICK s \in TaskRec : /\ s = K!Idle /\ ~ s.fresh /\ s.pc = "idle"
    BY IdleFacts DEF KeysInv
  <2>3. TaskInv(t)' /\ MakerInv(t)'
    BY <1>2, <2>1, IdleInv DEF KeysInv
  <2>4. /\ pinned \in [Devices -> {Nobody} \cup SUBSET Devices]
        /\ pending \in [Devices -> {Nobody} \cup SUBSET Devices]
        /\ prepared \in [Devices -> {Nobody} \cup K!Rosters]
        /\ met \in [Devices -> SUBSET Devices]
    BY DEF KeysInv, K!TypeOK
  <2>5. /\ pending' \in [Devices -> {Nobody} \cup SUBSET Devices]
        /\ \A e \in Devices \ {d} : pending'[e] = pending[e]
    <3> HIDE DEF peers
    <3>1. CASE pending' = pending
      BY <2>4, <3>1
    <3>2. CASE pending' = [pending EXCEPT ![d] = peers]
      BY <1>1, <2>4, <3>2
    <3> QED
      BY <2>1, <3>1, <3>2
  <2>6. K!TypeOK'
    BY <1>6, <2>1, <2>2, <2>4, <2>5
  <2>7. DeviceInv(d)'
    BY <1>8, <2>1 DEF KeysInv, DeviceInv
  <2> QED
    BY <1>7, <2>1, <2>2, <2>3, <2>5, <2>6, <2>7
<1>10. CASE K!Ready(t) /\ ~ K!Distrusts(d, peers)
  <2>1. K!Pin(d, peers) /\ K!Publish(t, k) /\ pending' = pending
    BY <1>10 DEF K!Settle
  <2>2. /\ pinned' \in [Devices -> {Nobody} \cup SUBSET Devices]
        /\ met' \in [Devices -> SUBSET Devices]
        /\ \A e \in Devices \ {d} : pinned'[e] = pinned[e] /\ met'[e] = met[e]
        /\ met[d] \subseteq met'[d] /\ peers \subseteq met'[d]
        /\ pinned'[d] # Nobody => pinned'[d] \subseteq met'[d]
    BY <1>1, <1>10, <2>1, PinFacts DEF KeysInv
  <2>3. PICK s \in TaskRec :
           /\ task' = [task EXCEPT ![t] = s] /\ s.seen = r
           /\ s.pc = "share" => s.todo = r.devices
           /\ \/ /\ s.pc = "ready" /\ s.fresh = task[t].fresh /\ s.key = k
                 /\ \/ prepared[d] = r /\ prepared' = prepared
                    \/ /\ persisted[d] = [key |-> k, roster |-> r]
                       /\ prepared' = [prepared EXCEPT ![d] = r]
              \/ /\ s.pc = "share" /\ s.fresh /\ s.key \in K!New /\ scene.kind = "group"
                 /\ prepared' = prepared
              \/ /\ s.pc = "share" /\ ~ s.fresh /\ s.key = k /\ ~ K!Rotates(d, r)
                 /\ persisted[d] # [key |-> k, roster |-> r]
                 /\ prepared' = prepared
    BY <1>1, <2>1, PublishCases DEF KeysInv
  <2>4. task'[t] = s
    BY <1>1, <2>3
  <2>5. prepared \in [Devices -> {Nobody} \cup K!Rosters]
        /\ pending' \in [Devices -> {Nobody} \cup SUBSET Devices]
    BY <2>1 DEF KeysInv, K!TypeOK
  <2>6. [key |-> k, roster |-> r] \in [key : K!Made, roster : K!Rosters]
        /\ \A p \in [key : K!Made, roster : K!Rosters] : p # Nobody
    <3>1. \A p \in [key : K!Made, roster : K!Rosters] : p # Nobody
      BY NobodyAssumption, Kinds DEF KeysInv, K!Made, K!Rosters, K!Members
    <3> QED
      BY <1>1, <3>1
  <2>7. /\ prepared' \in [Devices -> {Nobody} \cup K!Rosters]
        /\ \A e \in Devices \ {d} : prepared'[e] = prepared[e]
        /\ prepared'[d] # Nobody => persisted[d] # Nobody /\ persisted[d].roster = prepared'[d]
    <3>1. CASE prepared' = prepared
      BY <2>5, <3>1 DEF KeysInv, DeviceInv
    <3>2. CASE persisted[d] = [key |-> k, roster |-> r] /\ prepared' = [prepared EXCEPT ![d] = r]
      BY <1>1, <2>5, <2>6, <3>2
    <3> QED
      BY <2>3, <3>1, <3>2
  <2>8. K!TypeOK'
    BY <1>6, <2>2, <2>3, <2>5, <2>7
  <2>9. DeviceInv(d)'
    BY <1>8, <2>2, <2>7
  <2>10. s.pc = "ready" => persisted[d] # Nobody /\ persisted[d].roster = r /\ ~ s.fresh /\ s.key = k
    <3>1. prepared[d] = r => persisted[d] # Nobody /\ persisted[d].roster = r
      BY DEF KeysInv, DeviceInv
    <3>2. persisted[d] = [key |-> k, roster |-> r] => persisted[d] # Nobody /\ persisted[d].roster = r
      BY <2>6
    <3> QED
      BY <1>1, <2>3, <3>1, <3>2
  <2>11. s.pc \in {"share", "ready"} /\ s.key \in K!Made /\ s.key # K!NoKey
    BY <2>3, NewFacts, TypeFacts DEF KeysInv
  <2>12. TaskInv(t)'
    <3>1. s.pc = "ready" => K!Own(d)' # K!NoKey /\ \A e \in r.devices : K!Own(d)' \in K!Rows(e)'
      BY <1>1, <1>3, <1>5, <2>10, TypeFacts DEF KeysInv
    <3>2. s.pc = "share" /\ ~ s.fresh => s.key \in Saved(d)'
      BY <2>3
    <3>3. s.fresh => s.pc = "share"
      BY <2>10, <2>11
    <3>4. s.pc = "share" => s.todo = r.devices
      BY <2>3
    <3> HIDE DEF r, peers
    <3>5. K!Peers(d, s.seen)' = peers /\ s.seen = r
      BY <1>4, <2>3 DEF peers
    <3> QED
      BY <1>1, <1>2, <1>4, <2>2, <2>3, <2>4, <2>11, <3>1, <3>2, <3>3, <3>4, <3>5 DEF TaskInv
  <2>13. scene.kind = "group" => MakerInv(t)' /\ (s.fresh => s.key \in K!New)
    <3> SUFFICES ASSUME scene.kind = "group" PROVE MakerInv(t)' /\ (s.fresh => s.key \in K!New)
      OBVIOUS
    <3>1. s.pc = "share" => s.fresh
      <4> SUFFICES ASSUME s.pc = "share", ~ s.fresh PROVE FALSE
        OBVIOUS
      <4>1. ~ K!Rotates(d, r) /\ persisted[d] # [key |-> k, roster |-> r]
        BY <2>3
      <4>2. persisted[d] \in [key : K!Made, roster : {r}]
        BY <4>1 DEF K!Rotates
      <4>3. persisted[d] # Nobody /\ persisted[d].roster = r
        BY <1>1, <2>6, <4>2
      <4>4. Saved(d) # {} /\ K!Own(d)' = persisted[d].key
        BY <1>5, <4>3
      <4>5. K!Own(d)' = k
        BY <4>4 DEF K!Own, K!Latest
      <4>6. persisted[d] = [key |-> k, roster |-> r]
        BY <4>2, <4>4, <4>5
      <4> QED
        BY <4>1, <4>6
    <3>2. s.fresh => s.key \in K!New
      BY <2>3, <2>10
    <3>3. s.pc = "share" => s.key \notin Saved(d)'
      BY <3>1, <3>2, NewFacts DEF KeysInv
    <3>4. MakerInv(t)'
      BY <1>4, <2>3, <2>4, <2>10, <2>11, <3>1, <3>3 DEF MakerInv
    <3> QED
      BY <3>2, <3>4
  <2>14. scene.kind = "dm" => ~ s.fresh /\ (s.pc # "idle" => s.key = k)
    BY <2>3, <2>10
  <2> QED
    BY <1>7, <2>1, <2>2, <2>3, <2>7, <2>8, <2>9, <2>12, <2>13, <2>14
<1> QED
  BY <1>9, <1>10 DEF K!Settle

LEMMA FetchedFacts ==
  ASSUME K!TypeOK, NEW d \in Devices, NEW k \in K!Fetched(d), k # K!NoKey
  PROVE  k \in K!Made /\ k \in Copies /\ k \in K!Rows(d) /\ K!HasKey
<1>1. PICK e \in Devices : k = share[e][d]
  BY DEF K!Fetched
<1> QED
  BY <1>1, KeysAssumption DEF K!TypeOK, K!Made, K!NoKey, Copies, K!Rows, K!HasKey

LEMMA DecideStep ==
  ASSUME KeysInv, NEW t \in Tasks, K!Decide(t)
  PROVE  KeysInv'
<1>1. PICK d \in Devices : d = K!Me(t)
  BY TypeFacts DEF KeysInv
<1> DEFINE k == task[t].key
<1>2. /\ task[t].pc = "look" /\ ~ task[t].asked /\ task[t].seen # Nobody
      /\ t \in scene.tasks /\ ~ task[t].fresh /\ task[t] \in TaskRec /\ k \in 0..MaxKeys
      /\ k # K!NoKey => k \in Saved(d)
  <2>1. task[t] \in TaskRec
    BY TypeFacts DEF KeysInv
  <2>2. k \in 0..MaxKeys
    BY <2>1 DEF TaskRec
  <2> QED
    BY <1>1, <2>1, <2>2 DEF K!Decide, KeysInv, TaskInv
<1>3. /\ memory' = memory /\ stored' = stored /\ scene' = scene /\ owed' = owed /\ used' = used
      /\ UNCHANGED <<K!serverVars, K!keyVars, persisted>>
  BY DEF K!Decide, K!serverVars
<1>4. Saved(d)' = Saved(d) /\ K!Own(d)' = K!Own(d)
  BY <1>3 DEF Saved, K!Own, K!Latest
<1>5. CASE k # K!NoKey /\ K!Settle(t, k)
  <2>1. k \in K!Made /\ k \in Saved(d) /\ Saved(d)' = Saved(d) \cup {k}
    BY <1>2, <1>4, <1>5, KeysAssumption DEF K!Made, K!NoKey
  <2>2. /\ memory' \in [Devices -> 0..MaxKeys] /\ stored' \in [Devices -> Seq(K!Made)]
        /\ stored'[d] # <<>> /\ K!Own(d)' \in Saved(d)'
        /\ memory'[d] # K!NoKey => memory'[d] \in Saved(d)'
        /\ K!HasKey
    <3>1. memory \in [Devices -> 0..MaxKeys] /\ stored \in [Devices -> Seq(K!Made)]
      BY DEF KeysInv, K!TypeOK
    <3>2. (memory[d] # K!NoKey => memory[d] \in Saved(d)) /\ K!HasKey
      BY <2>1 DEF KeysInv, DeviceInv
    <3>3. stored[d] # <<>>
      BY <2>1, TypeFacts DEF KeysInv
    <3>4. K!Own(d) \in Saved(d)
      BY <2>1, OwnFacts DEF KeysInv
    <3> QED
      BY <1>3, <1>4, <3>1, <3>2, <3>3, <3>4
  <2>3. \A n \in K!New : n # k
    BY NewFacts DEF KeysInv
  <2>4. scene.kind = "dm" => k \in Copies
    BY <2>1 DEF KeysInv, ChatInv
  <2>5. scene.kind = "group" => k = K!Own(d)
    BY <1>1, <1>2, <1>5 DEF KeysInv, GroupInv, MakerInv
  <2>6. \A e \in Devices \ {d} : memory'[e] = memory[e] /\ stored'[e] = stored[e]
    BY <1>3
  <2> HIDE DEF k
  <2> QED
    BY <1>1, <1>2, <1>3, <1>5, <2>1, <2>2, <2>3, <2>4, <2>5, <2>6, SettleKeeps DEF k
<1>6. CASE k = K!NoKey
  <2>1. /\ K!Step(t, K!Idle) \/ \E new \in K!New : K!Step(t, [task[t] EXCEPT !.pc = "boot", !.key = new])
        /\ UNCHANGED <<K!serverVars, K!keyVars, K!deviceVars, met>>
    BY <1>3, <1>6 DEF K!Decide, K!deviceVars
  <2>2. owed' \in [K!Made -> SUBSET Devices] /\ used' \in [K!Made -> SUBSET K!Rosters]
    BY <1>3 DEF KeysInv, K!TypeOK
  <2>3. scene.kind = "dm" => \A l \in K!Made : (owed'[l] # {} => l \in Copies) /\ used'[l] = {}
    BY <1>3 DEF KeysInv, ChatInv
  <2>4. scene.kind = "group" => /\ \A l \in K!Made : \A r \in used'[l] : Serves(l, r)
                                /\ \A l \in K!Made : used'[l] # {} => owed'[l] # {}
    BY <1>3 DEF KeysInv, GroupInv, Serves
  <2>5. CASE K!Step(t, K!Idle)
    <3>1. task' = [task EXCEPT ![t] = K!Idle]
      BY <2>5 DEF K!Step
    <3>2. PICK s \in TaskRec : s = K!Idle /\ ~ s.fresh /\ s.pc = "idle" /\ s.key = K!NoKey
      BY IdleFacts DEF KeysInv
    <3>3. TaskInv(t)' /\ MakerInv(t)'
      BY <1>3, <3>1, IdleInv DEF KeysInv
    <3> QED
      BY <1>1, <1>2, <2>1, <2>2, <2>3, <2>4, <3>1, <3>2, <3>3, OnlyTaskMoves
  <2>6. CASE \E new \in K!New : K!Step(t, [task[t] EXCEPT !.pc = "boot", !.key = new])
    <3> PICK new \in K!New : K!Step(t, [task[t] EXCEPT !.pc = "boot", !.key = new])
      BY <2>6
    <3> DEFINE s == [task[t] EXCEPT !.pc = "boot", !.key = new]
    <3>1. new \in K!Made /\ new # K!NoKey /\ new \in 0..MaxKeys
      BY NewFacts, KeysAssumption DEF KeysInv, K!Made
    <3>2. /\ s \in TaskRec /\ s.pc = "boot" /\ s.key = new /\ s.seen = task[t].seen
          /\ ~ s.fresh
      BY <1>2, <3>1 DEF TaskRec
    <3> HIDE DEF s, k
    <3>3. task' = [task EXCEPT ![t] = s]
      BY DEF K!Step, s
    <3>4. task'[t] = s /\ K!Me(t)' = d
      BY <1>1, <3>3, TypeFacts DEF KeysInv, K!Me
    <3>5. TaskInv(t)'
      BY <1>1, <1>2, <1>3, <3>1, <3>2, <3>4 DEF KeysInv, TaskInv
    <3>6. scene.kind = "group" =>
             ((\A l \in K!Made : \A r : Serves(l, r)' => Serves(l, r)) => MakerInv(t)')
      <4> SUFFICES ASSUME scene.kind = "group", \A l \in K!Made : \A r : Serves(l, r)' => Serves(l, r)
                   PROVE  MakerInv(t)'
        OBVIOUS
      <4>1. \A r : ~ Serves(new, r)
        BY NewServes DEF KeysInv
      <4>2. Saved(d)' = {}
        BY <1>1, <1>2, <1>4, <1>6 DEF KeysInv, GroupInv, MakerInv, k
      <4>3. \A r : ~ Serves(new, r)'
        BY <3>1, <4>1
      <4>4. (\A r \in K!Rosters : ~ Serves(task[t].key, r))'
        BY <3>2, <3>4, <4>3 DEF Serves
      <4> QED
        BY <3>2, <3>4, <4>2, <4>4 DEF MakerInv
    <3> QED
      BY <1>1, <1>2, <2>1, <2>2, <2>3, <2>4, <3>2, <3>3, <3>5, <3>6, OnlyTaskMoves
  <2> QED
    BY <2>1, <2>5, <2>6
<1> QED
  BY <1>5, <1>6 DEF K!Decide

LEMMA AdoptStep ==
  ASSUME KeysInv, NEW t \in Tasks, K!Adopt(t)
  PROVE  KeysInv'
<1>1. PICK d \in Devices : d = K!Me(t)
  BY TypeFacts DEF KeysInv
<1>2. PICK k \in K!Made : /\ K!Keep(d, k) /\ K!Settle(t, k) /\ task[t].pc \in {"won", "lost"} /\ K!HasKey
                          /\ \A n \in K!New : n # k
                          /\ scene.kind = "dm" => k \in Copies
  <2>1. CASE task[t].pc = "won" /\ K!Keep(K!Me(t), task[t].key) /\ K!Settle(t, task[t].key)
    <3> DEFINE k == task[t].key
    <3>1. k \in K!Made
      BY <2>1, TypeFacts, KeysAssumption DEF KeysInv, TaskInv, TaskRec, K!Made, K!NoKey
    <3>2. k # K!NoKey /\ K!HasKey
      BY <2>1 DEF KeysInv, TaskInv
    <3>3. \A n \in K!New : n # k
      BY NewFacts DEF KeysInv
    <3>4. scene.kind = "dm" => k \in Copies
      BY <2>1, <3>2 DEF KeysInv, ChatInv
    <3> QED
      BY <1>1, <2>1, <3>1, <3>2, <3>3, <3>4
  <2>2. CASE /\ task[t].pc = "lost"
             /\ \E k \in K!Fetched(K!Me(t)) \ {K!NoKey} : K!Keep(K!Me(t), k) /\ K!Settle(t, k)
    <3>1. PICK k \in K!Fetched(d) \ {K!NoKey} : K!Keep(d, k) /\ K!Settle(t, k)
      BY <1>1, <2>2
    <3>2. k \in K!Made /\ k \in Copies /\ k \in K!Rows(d) /\ K!HasKey
      BY FetchedFacts DEF KeysInv
    <3>3. \A n \in K!New : n # k
      BY <3>2, NewFacts DEF KeysInv
    <3> QED
      BY <2>2, <3>1, <3>2, <3>3
  <2> QED
    BY <2>1, <2>2 DEF K!Adopt
<1>3. /\ memory' \in [Devices -> 0..MaxKeys] /\ stored' \in [Devices -> Seq(K!Made)]
      /\ memory'[d] = k /\ K!Own(d)' = k /\ stored'[d] # <<>> /\ Saved(d)' = Saved(d) \cup {k}
      /\ \A e \in Devices \ {d} : memory'[e] = memory[e] /\ stored'[e] = stored[e]
  BY <1>2, KeepFacts DEF KeysInv
<1>4. task[t].seen # Nobody /\ (scene.kind = "group" => Saved(d) = {})
  BY <1>1, <1>2 DEF KeysInv, TaskInv, GroupInv, MakerInv
<1>5. UNCHANGED <<K!serverVars, K!keyVars, persisted, owed, used>>
  BY DEF K!Adopt
<1> QED
  BY <1>1, <1>2, <1>3, <1>4, <1>5, SettleKeeps

LEMMA FetchSharedKeyStep ==
  ASSUME KeysInv, NEW t \in Tasks, K!FetchSharedKey(t)
  PROVE  KeysInv'
<1>1. PICK d \in Devices : d = K!Me(t)
  BY TypeFacts DEF KeysInv
<1>2. PICK k \in K!Fetched(d) : /\ K!Step(t, [task[t] EXCEPT !.key = k, !.asked = FALSE])
                                /\ IF k = K!NoKey THEN UNCHANGED <<stored, memory>> ELSE K!Keep(d, k)
  BY <1>1 DEF K!FetchSharedKey
<1>3. /\ task[t].pc = "look" /\ task[t].asked /\ t \in scene.tasks /\ ~ task[t].fresh
      /\ task[t] \in TaskRec /\ task[t].key = K!NoKey
      /\ UNCHANGED <<K!serverVars, K!keyVars, pinned, pending, prepared, persisted, met>>
      /\ owed' = owed /\ used' = used /\ scene' = scene
  BY TypeFacts DEF K!FetchSharedKey, KeysInv, TaskInv, K!history, K!serverVars
<1>4. k \in 0..MaxKeys /\ (k # K!NoKey => k \in K!Made)
  BY FetchedFacts, KeysAssumption DEF KeysInv, K!Made, K!NoKey
<1> DEFINE s == [task[t] EXCEPT !.key = k, !.asked = FALSE]
<1>5. /\ s \in TaskRec /\ s.pc = "look" /\ s.key = k /\ ~ s.asked /\ s.seen = task[t].seen
      /\ ~ s.fresh
  BY <1>3, <1>4 DEF TaskRec
<1>6. task' = [task EXCEPT ![t] = s]
  BY <1>2 DEF K!Step
<1> HIDE DEF s
<1>7. /\ task'[t] = s /\ K!Me(t)' = d /\ task \in [Tasks -> TaskRec]
      /\ \A u \in Tasks \ {t} : task'[u] = task[u]
  BY <1>1, <1>6, TypeFacts DEF KeysInv, K!Me
<1>8. \A l \in K!Made : \A r \in used'[l] : Serves(l, r)
  BY <1>3 DEF Serves
<1>9. scene.kind = "dm" => \A l \in K!Made : (owed'[l] # {} => l \in Copies) /\ used'[l] = {}
  BY <1>3 DEF KeysInv, ChatInv
<1>10. scene.kind = "group" => Saved(d) = {}
  BY <1>1, <1>3 DEF KeysInv, GroupInv, MakerInv
<1>11. scene.kind = "group" => \A l \in K!Made : used'[l] # {} => owed'[l] # {}
  BY <1>3 DEF KeysInv, GroupInv
<1>12. CASE k = K!NoKey
  <2>1. UNCHANGED <<K!serverVars, K!keyVars, K!deviceVars, met>>
    BY <1>2, <1>3, <1>12 DEF K!deviceVars
  <2>2. Saved(d)' = Saved(d)
    BY <2>1 DEF K!deviceVars, Saved
  <2>3. TaskInv(t)'
    BY <1>1, <1>3, <1>5, <1>7, <1>12 DEF KeysInv, TaskInv
  <2>4. scene.kind = "group" => MakerInv(t)'
    BY <1>5, <1>7, <1>10, <1>12, <2>2 DEF MakerInv
  <2>5. owed' \in [K!Made -> SUBSET Devices] /\ used' \in [K!Made -> SUBSET K!Rosters]
    BY <1>3 DEF KeysInv, K!TypeOK
  <2> QED
    BY <1>1, <1>3, <1>5, <1>6, <1>8, <1>9, <1>11, <1>12, <2>1, <2>3, <2>4, <2>5, OnlyTaskMoves
<1>13. CASE k # K!NoKey
  <2>1. k \in K!Made /\ k \in Copies /\ K!HasKey
    BY <1>4, <1>13, FetchedFacts DEF KeysInv
  <2>2. /\ memory' \in [Devices -> 0..MaxKeys] /\ stored' \in [Devices -> Seq(K!Made)]
        /\ memory'[d] = k /\ K!Own(d)' = k /\ stored'[d] # <<>> /\ Saved(d)' = Saved(d) \cup {k}
        /\ \A e \in Devices \ {d} : memory'[e] = memory[e] /\ stored'[e] = stored[e]
    BY <1>2, <1>13, <2>1, KeepFacts DEF KeysInv
  <2>3. (\A e \in Devices : K!Rows(e)' = K!Rows(e)) /\ K!HasKey' = K!HasKey /\ Copies' = Copies
    BY <1>3, RowsStay
  <2>4. K!TypeOK'
    <3>1. K!Rosters' = K!Rosters /\ K!Members' = K!Members /\ K!Made' = K!Made
      BY <1>3 DEF K!Rosters, K!Members, K!Made
    <3>2. task' \in [Tasks -> TaskRec]
          /\ \A u \in Tasks : task'[u].pc \in {"share", "ready"} => task'[u].seen # Nobody
      BY <1>5, <1>6, <1>7 DEF KeysInv, K!TypeOK
    <3>3. \A e \in Devices : memory'[e] # K!NoKey \/ pinned'[e] # Nobody => stored'[e] # <<>>
      BY <1>3, <2>2 DEF KeysInv, K!TypeOK
    <3> QED
      BY <1>3, <2>2, <3>1, <3>2, <3>3 DEF KeysInv, K!TypeOK, TaskRec, K!serverVars, K!keyVars
  <2>5. DeviceInv(d)'
    <3>1. persisted[d] # Nobody => persisted[d].roster.devices \subseteq Devices
      BY DEF KeysInv, K!TypeOK, K!Rosters
    <3> QED
      BY <1>3, <2>1, <2>2, <2>3, <3>1 DEF KeysInv, DeviceInv
  <2>6. TaskInv(t)'
    BY <1>1, <1>3, <1>5, <1>7, <2>2 DEF KeysInv, TaskInv
  <2>7. ASSUME scene.kind = "group"
        PROVE  /\ SenderInv(d)' /\ MakerInv(t)' /\ ServesOne'
               /\ \A u \in Tasks \ {t} : task[u].pc = "boot" =>
                    \A r \in K!Rosters : Serves(task[u].key, r)' => Serves(task[u].key, r)
    <3>1. \A l \in K!Made : \A r : Serves(l, r)' => Serves(l, r)
      BY <1>3, <1>5, <1>6, <1>8, ServesLess DEF KeysInv
    <3>2. persisted'[d] = Nobody
      BY <1>3, <1>10, <2>7 DEF KeysInv, DeviceInv
    <3>3. MakerInv(t)'
      BY <1>5, <1>7, <1>13, <2>2 DEF MakerInv
    <3>4. ServesOne'
      BY <1>3, <2>3, <2>7, <3>1, ServesKeeps DEF KeysInv, GroupInv
    <3>5. \A u \in Tasks \ {t} : task[u].pc = "boot" => task[u].key \in K!Made
      BY <1>7, KeysAssumption DEF KeysInv, TaskInv, TaskRec, K!Made, K!NoKey
    <3> QED
      BY <1>7, <3>1, <3>2, <3>3, <3>4, <3>5 DEF SenderInv
  <2>8. scene.kind = "dm" =>
           /\ Saved(d)' \subseteq Copies /\ ~ s.fresh
           /\ s.pc \in {"look", "won", "share", "ready"} /\ s.key # K!NoKey => s.key \in Copies
           /\ \A l \in K!Made : (owed'[l] # {} => l \in Copies) /\ used'[l] = {}
    BY <1>5, <1>9, <2>1, <2>2 DEF KeysInv, ChatInv
  <2>9. scene.kind = "group" =>
           /\ SenderInv(d)' /\ MakerInv(t)' /\ ServesOne'
           /\ \A l \in K!Made : used'[l] # {} => owed'[l] # {}
           /\ \A u \in Tasks \ {t} : task[u].pc = "boot" =>
                \A r \in K!Rosters : Serves(task[u].key, r)' => Serves(task[u].key, r)
    BY <1>11, <2>7
  <2>10. /\ UNCHANGED <<scene, K!keyVars>>
         /\ \A e \in Devices \ {d} :
              /\ memory'[e] = memory[e] /\ stored'[e] = stored[e] /\ pinned'[e] = pinned[e]
              /\ pending'[e] = pending[e] /\ prepared'[e] = prepared[e]
              /\ persisted'[e] = persisted[e] /\ met'[e] = met[e]
         /\ Saved(d) \subseteq Saved(d)' /\ met[d] \subseteq met'[d]
         /\ K!Own(d)' \in Saved(d)'
    BY <1>3, <2>2
  <2> QED
    BY <1>1, <1>3, <1>6, <2>4, <2>5, <2>6, <2>8, <2>9, <2>10, OneTaskMoves
<1> QED
  BY <1>12, <1>13

LEMMA FinishSharingStep ==
  ASSUME KeysInv, NEW t \in Tasks, K!FinishSharing(t)
  PROVE  KeysInv'
<1>1. PICK d \in Devices : d = K!Me(t)
  BY TypeFacts DEF KeysInv
<1>2. PICK k \in K!Made : k = task[t].key
  BY TypeFacts, KeysAssumption DEF K!FinishSharing, KeysInv, TaskInv, TaskRec, K!Made, K!NoKey
<1>3. PICK r \in K!Rosters : r = task[t].seen
  BY TypeFacts DEF K!FinishSharing, KeysInv, K!TypeOK, TaskRec
<1>4. /\ task[t].pc = "share" /\ task[t].todo = {} /\ t \in scene.tasks
      /\ prepared' = [prepared EXCEPT ![d] = r]
      /\ persisted' = [persisted EXCEPT ![d] = [key |-> k, roster |-> r]]
      /\ UNCHANGED <<K!serverVars, K!keyVars, pinned, pending, met>>
      /\ scene' = scene /\ owed' = owed /\ used' = used
      /\ d \in r.devices /\ \A e \in r.devices : r.members[UserOf[e]] # 0 /\ k \in K!Rows(e)
      /\ ~ task[t].fresh => k \in Saved(d)
  <2>1. task[t].pc = "share" /\ task[t].todo = {} /\ r # Nobody
    BY <1>3 DEF K!FinishSharing, KeysInv, K!TypeOK
  <2> QED
    BY <1>1, <1>2, <1>3, <2>1 DEF K!FinishSharing, KeysInv, TaskInv, K!history, K!serverVars
<1> DEFINE s == [task[t] EXCEPT !.pc = "ready", !.todo = {}, !.fresh = FALSE]
<1>5. /\ s \in TaskRec /\ s.pc = "ready" /\ s.key = k /\ ~ s.fresh /\ s.seen = r
  BY <1>2, <1>3, TypeFacts DEF KeysInv, TaskRec
<1>6. task' = [task EXCEPT ![t] = s]
  BY DEF K!FinishSharing, K!Step
<1> HIDE DEF s
<1>7. /\ task'[t] = s /\ K!Me(t)' = d /\ task \in [Tasks -> TaskRec]
      /\ \A u \in Tasks \ {t} : task'[u] = task[u]
  BY <1>1, <1>6, TypeFacts DEF KeysInv, K!Me
<1>8. (\A e \in Devices : K!Rows(e)' = K!Rows(e)) /\ K!HasKey' = K!HasKey /\ Copies' = Copies
  BY <1>4, RowsStay
<1>9. /\ r.devices \subseteq Devices /\ k # K!NoKey /\ K!HasKey
      /\ [key |-> k, roster |-> r] \in [key : K!Made, roster : K!Rosters]
      /\ [key |-> k, roster |-> r] # Nobody
  <2>1. r.devices \subseteq Devices /\ k # K!NoKey
    BY TypeFacts DEF KeysInv, K!Rosters
  <2>2. K!HasKey
    BY <1>4 DEF KeysInv, K!Rows, K!HasKey
  <2>3. [key |-> k, roster |-> r] \in [key : K!Made, roster : K!Rosters]
    OBVIOUS
  <2>4. \A p \in [key : K!Made, roster : K!Rosters] : p # Nobody
    BY NobodyAssumption, Kinds DEF KeysInv, K!Made, K!Rosters, K!Members
  <2> QED
    BY <2>1, <2>2, <2>3, <2>4
<1>10. /\ memory' \in [Devices -> 0..MaxKeys] /\ stored' \in [Devices -> Seq(K!Made)]
       /\ stored'[d] # <<>> /\ Saved(d)' = Saved(d) \cup {k}
       /\ memory'[d] # K!NoKey => memory'[d] \in Saved(d)'
       /\ K!Own(d)' \in Saved(d)'
       /\ \A e \in Devices \ {d} : memory'[e] = memory[e] /\ stored'[e] = stored[e]
       /\ task[t].fresh => memory'[d] = k /\ K!Own(d)' = k /\ (k \notin Saved(d) => K!Latest(d)' = k)
  <2>1. CASE task[t].fresh
    <3>1. K!Keep(d, k)
      BY <1>1, <1>2, <2>1 DEF K!FinishSharing
    <3> QED
      BY <3>1, <2>1, KeepFacts DEF KeysInv
  <2>2. CASE ~ task[t].fresh
    <3>1. memory' = memory /\ stored' = stored
      BY <2>2 DEF K!FinishSharing
    <3>2. Saved(d)' = Saved(d) /\ K!Own(d)' = K!Own(d)
      BY <3>1 DEF Saved, K!Own, K!Latest
    <3>3. memory \in [Devices -> 0..MaxKeys] /\ stored \in [Devices -> Seq(K!Made)]
      BY DEF KeysInv, K!TypeOK
    <3>4. k \in Saved(d) /\ (memory[d] # K!NoKey => memory[d] \in Saved(d))
      BY <1>4, <2>2 DEF KeysInv, DeviceInv
    <3>5. stored[d] # <<>>
      BY <3>4, TypeFacts DEF KeysInv
    <3>6. K!Own(d) \in Saved(d)
      BY <3>4, OwnFacts DEF KeysInv
    <3> QED
      BY <2>2, <3>1, <3>2, <3>3, <3>4, <3>5, <3>6
  <2> QED
    BY <2>1, <2>2
<1>11. /\ prepared' \in [Devices -> {Nobody} \cup K!Rosters] /\ prepared'[d] = r
       /\ persisted' \in [Devices -> {Nobody} \cup [key : K!Made, roster : K!Rosters]]
       /\ persisted'[d] = [key |-> k, roster |-> r]
       /\ \A e \in Devices \ {d} : prepared'[e] = prepared[e] /\ persisted'[e] = persisted[e]
  BY <1>4, <1>9 DEF KeysInv, K!TypeOK
<1>12. K!TypeOK'
  <2>1. K!Rosters' = K!Rosters /\ K!Members' = K!Members /\ K!Made' = K!Made
    BY <1>4 DEF K!Rosters, K!Members, K!Made
  <2>2. r # Nobody
    BY <1>3, <1>4 DEF KeysInv, K!TypeOK
  <2>3. task' \in [Tasks -> TaskRec]
        /\ \A u \in Tasks : task'[u].pc \in {"share", "ready"} => task'[u].seen # Nobody
    BY <1>5, <1>6, <1>7, <2>2 DEF KeysInv, K!TypeOK
  <2>4. \A e \in Devices : memory'[e] # K!NoKey \/ pinned'[e] # Nobody => stored'[e] # <<>>
    BY <1>4, <1>10 DEF KeysInv, K!TypeOK
  <2> QED
    BY <1>4, <1>10, <1>11, <2>1, <2>3, <2>4 DEF KeysInv, K!TypeOK, TaskRec, K!serverVars, K!keyVars
<1>13. DeviceInv(d)'
  <2>1. persisted'[d].key = k /\ persisted'[d].roster = r /\ persisted'[d] # Nobody
    BY <1>9, <1>11
  <2> QED
    BY <1>4, <1>8, <1>9, <1>10, <1>11, <2>1 DEF KeysInv, DeviceInv
<1>14. scene.kind = "dm" => k \in Copies /\ Saved(d)' \subseteq Copies /\ K!Own(d)' = k
  <2> SUFFICES ASSUME scene.kind = "dm" PROVE k \in Copies /\ Saved(d)' \subseteq Copies /\ K!Own(d)' = k
    OBVIOUS
  <2>1. k \in Copies
    BY <1>2, <1>4, <1>9 DEF KeysInv, ChatInv
  <2> QED
    BY <1>10, <2>1 DEF KeysInv, ChatInv
<1>15. scene.kind = "group" => task[t].fresh /\ k \notin Saved(d)
  BY <1>1, <1>2, <1>4 DEF KeysInv, GroupInv, MakerInv
<1>16. K!Own(d)' = k
  BY <1>10, <1>14, <1>15, Kinds DEF KeysInv
<1>17. TaskInv(t)'
  <2>1. \A e \in r.devices : K!Own(d)' \in K!Rows(e)'
    BY <1>4, <1>8, <1>9, <1>16
  <2> QED
    BY <1>4, <1>5, <1>7, <1>9, <1>16, <2>1 DEF TaskInv
<1>18. ASSUME scene.kind = "group"
       PROVE  /\ SenderInv(d)' /\ MakerInv(t)' /\ ServesOne'
              /\ \A l \in K!Made : \A q : Serves(l, q)' => Serves(l, q)
  <2>1. SenderInv(d)'
    BY <1>10, <1>11, <1>15, <1>18 DEF SenderInv
  <2>2. MakerInv(t)'
    BY <1>5, <1>7, <1>9, <1>11 DEF MakerInv
  <2>3. Serves(k, r)
    BY <1>2, <1>3, <1>15, <1>18 DEF Serves
  <2>4. ASSUME NEW l \in K!Made, NEW q, Serves(l, q)'
        PROVE  Serves(l, q)
    <3>1. CASE \E u \in Tasks : task'[u].fresh /\ task'[u].key = l /\ task'[u].seen = q
      BY <1>5, <1>7, <3>1 DEF Serves
    <3>2. CASE \E e \in Devices : persisted'[e] # Nobody /\ persisted'[e] = [key |-> l, roster |-> q]
      <4>1. PICK e \in Devices : persisted'[e] # Nobody /\ persisted'[e] = [key |-> l, roster |-> q]
        BY <3>2
      <4>2. CASE e = d
        <5>1. [key |-> k, roster |-> r] = [key |-> l, roster |-> q]
          BY <1>11, <4>1, <4>2
        <5>2. k = l /\ r = q
          BY <5>1
        <5> QED
          BY <2>3, <5>2
      <4>3. CASE e # d
        BY <1>11, <4>1, <4>3 DEF Serves
      <4> QED
        BY <4>2, <4>3
    <3>3. CASE q \in used'[l]
      BY <1>4, <3>3 DEF Serves
    <3> QED
      BY <2>4, <3>1, <3>2, <3>3 DEF Serves
  <2>5. ServesOne'
    BY <1>4, <1>8, <1>18, <2>4, ServesKeeps DEF KeysInv, GroupInv
  <2> QED
    BY <2>1, <2>2, <2>4, <2>5
<1>19. \A u \in Tasks \ {t} : task[u].pc = "boot" => task[u].key \in K!Made
  BY <1>7, KeysAssumption DEF KeysInv, TaskInv, TaskRec, K!Made, K!NoKey
<1>20. scene.kind = "dm" =>
         /\ Saved(d)' \subseteq Copies /\ ~ s.fresh
         /\ s.pc \in {"look", "won", "share", "ready"} /\ s.key # K!NoKey => s.key \in Copies
         /\ \A l \in K!Made : (owed'[l] # {} => l \in Copies) /\ used'[l] = {}
  BY <1>4, <1>5, <1>14 DEF KeysInv, ChatInv
<1>21. scene.kind = "group" =>
         /\ SenderInv(d)' /\ MakerInv(t)' /\ ServesOne'
         /\ \A l \in K!Made : used'[l] # {} => owed'[l] # {}
         /\ \A u \in Tasks \ {t} : task[u].pc = "boot" =>
              \A q \in K!Rosters : Serves(task[u].key, q)' => Serves(task[u].key, q)
  BY <1>4, <1>7, <1>18, <1>19 DEF KeysInv, GroupInv
<1>22. /\ UNCHANGED <<scene, K!keyVars>>
       /\ \A e \in Devices \ {d} :
            /\ memory'[e] = memory[e] /\ stored'[e] = stored[e] /\ pinned'[e] = pinned[e]
            /\ pending'[e] = pending[e] /\ prepared'[e] = prepared[e]
            /\ persisted'[e] = persisted[e] /\ met'[e] = met[e]
       /\ Saved(d) \subseteq Saved(d)' /\ met[d] \subseteq met'[d]
       /\ K!Own(d)' \in Saved(d)'
  BY <1>4, <1>10, <1>11
<1> QED
  BY <1>1, <1>4, <1>6, <1>12, <1>13, <1>17, <1>20, <1>21, <1>22, OneTaskMoves

(* The preparations stay where they are, and so do the keys.               *)
LEMMA NothingMoves ==
  ASSUME KeysInv,
         UNCHANGED <<scene, K!keyVars, task, memory, stored, persisted, owed, used>>,
         \A d \in Devices : DeviceInv(d)' /\ met[d] \subseteq met'[d], K!TypeOK'
  PROVE  KeysInv'
<1>1. (\A e \in Devices : K!Rows(e)' = K!Rows(e)) /\ K!HasKey' = K!HasKey /\ Copies' = Copies
  BY RowsStay
<1>2. \A e \in Devices : Saved(e)' = Saved(e) /\ K!Own(e)' = K!Own(e) /\ K!Latest(e)' = K!Latest(e)
  BY DEF Saved, K!Own, K!Latest
<1>3. \A k, r : Serves(k, r)' = Serves(k, r)
  BY DEF Serves
<1>4. \A u \in Tasks : K!Me(u) \in Devices /\ K!Me(u)' = K!Me(u) /\ task'[u] = task[u]
  BY TypeFacts DEF KeysInv, K!Me
<1>5. \A u \in Tasks : TaskInv(u)'
  <2> SUFFICES ASSUME NEW u \in Tasks PROVE TaskInv(u)'
    OBVIOUS
  <2>1. PICK d \in Devices : d = K!Me(u)
    BY <1>4
  <2>2. Saved(d)' = Saved(d) /\ K!Own(d)' = K!Own(d)
    BY <1>2
  <2>3. Saved(K!Me(u))' = Saved(K!Me(u)) /\ K!Own(K!Me(u))' = K!Own(K!Me(u))
    BY <1>4, <2>1, <2>2 DEF Saved, K!Own, K!Latest, K!Me
  <2> QED
    BY <1>1, <1>4, <2>3, TaskKeeps DEF KeysInv
<1>6. scene.kind = "dm" => ChatInv'
  BY <1>1, <1>2, <1>4 DEF KeysInv, ChatInv, K!keyVars, K!Made
<1>7. ASSUME scene.kind = "group" PROVE GroupInv'
  <2>1. \A d \in Devices : SenderInv(d)'
    BY <1>2, <1>7 DEF KeysInv, GroupInv, SenderInv
  <2>2. \A u \in Tasks : MakerInv(u)'
    BY <1>3, <1>4, <1>7, MakerKeeps DEF KeysInv, GroupInv
  <2>3. ServesOne'
    BY <1>1, <1>3, <1>7, ServesKeeps DEF KeysInv, GroupInv
  <2> QED
    BY <1>7, <2>1, <2>2, <2>3 DEF KeysInv, GroupInv, K!Made
<1> QED
  BY <1>1, <1>5, <1>6, <1>7 DEF KeysInv, K!keyVars

LEMMA SurroundingsStep ==
  ASSUME KeysInv, (\E d \in Devices : K!Trust(d)) \/ (\E u \in Users : K!ChangeMember(u))
  PROVE  KeysInv'
<1>1. /\ changes' = changes + 1 /\ changes < scene.changes
      /\ UNCHANGED <<scene, K!keyVars, K!deviceVars, task, K!history>>
      /\ \/ member' = member /\ \E d \in Devices : trusted' \in {trusted \ {d}, trusted \cup {d}}
         \/ trusted' = trusted /\ \E u \in Users : \E n \in {0, changes + 2} :
                                    member' = [member EXCEPT ![u] = n]
  <2>1. CASE \E d \in Devices : K!Trust(d)
    BY <2>1 DEF K!Trust
  <2>2. CASE \E u \in Users : K!ChangeMember(u)
    <3>1. PICK u \in Users : K!ChangeMember(u)
      BY <2>2
    <3>2. \E n \in {0, changes + 2} : member' = [member EXCEPT ![u] = n]
      <4>1. CASE member[u] # 0
        BY <3>1, <4>1 DEF K!ChangeMember
      <4>2. CASE member[u] = 0
        BY <3>1, <4>2 DEF K!ChangeMember
      <4> QED
        BY <4>1, <4>2
    <3> QED
      BY <3>1, <3>2 DEF K!ChangeMember
  <2> QED
    BY <2>1, <2>2
<1>2. /\ memory' = memory /\ stored' = stored /\ pinned' = pinned /\ pending' = pending
      /\ prepared' = prepared /\ persisted' = persisted /\ met' = met /\ scene' = scene
      /\ task' = task /\ owed' = owed /\ used' = used
  BY <1>1 DEF K!deviceVars, K!history
<1>3. scene.changes \in Nat /\ changes \in 0..scene.changes
  BY KeysAssumption DEF KeysInv, K!TypeOK
<1>4. changes' \in 0..scene.changes /\ trusted' \subseteq Devices /\ member' \in K!Members
  <2>1. changes' \in 0..scene.changes /\ 0 \in 0..(scene.changes + 1)
        /\ changes + 2 \in 0..(scene.changes + 1)
    BY <1>1, <1>3
  <2>2. trusted' \subseteq Devices
    BY <1>1 DEF KeysInv, K!TypeOK
  <2>3. member \in [Users -> 0..(scene.changes + 1)]
    BY DEF KeysInv, K!TypeOK, K!Members
  <2>4. CASE member' = member
    BY <2>1, <2>2, <2>3, <2>4 DEF K!Members
  <2>5. CASE \E u \in Users : \E n \in {0, changes + 2} : member' = [member EXCEPT ![u] = n]
    <3>1. PICK u \in Users, n \in {0, changes + 2} : member' = [member EXCEPT ![u] = n]
      BY <2>5
    <3>2. n \in 0..(scene.changes + 1)
      BY <2>1
    <3>3. member' \in [Users -> 0..(scene.changes + 1)]
      BY <2>3, <3>1, <3>2
    <3> QED
      BY <2>1, <2>2, <3>3 DEF K!Members
  <2> QED
    BY <1>1, <2>4, <2>5
<1>5. K!Rosters' = K!Rosters /\ K!Members' = K!Members /\ K!Made' = K!Made
  BY <1>2 DEF K!Rosters, K!Members, K!Made
<1>6. K!TypeOK'
  BY <1>1, <1>2, <1>4, <1>5 DEF KeysInv, K!TypeOK, K!keyVars
<1>7. \A d \in Devices : DeviceInv(d)'
  BY <1>1, <1>2, RowsStay, DeviceKeeps DEF KeysInv
<1> QED
  BY <1>1, <1>2, <1>6, <1>7, NothingMoves

LEMMA ApprovePeersStep ==
  ASSUME KeysInv, NEW d \in Devices, K!ApprovePeers(d)
  PROVE  KeysInv'
<1> DEFINE peers == pending[d]
<1>1. /\ peers # Nobody /\ peers \in SUBSET Devices
      /\ pinned' = [pinned EXCEPT ![d] = peers] /\ pending' = [pending EXCEPT ![d] = Nobody]
      /\ met' = [met EXCEPT ![d] = @ \cup peers] /\ prepared' = [prepared EXCEPT ![d] = Nobody]
      /\ UNCHANGED <<K!serverVars, K!keyVars, task, memory, stored, persisted, owed, used>>
      /\ scene' = scene
  BY DEF K!ApprovePeers, KeysInv, K!TypeOK, K!serverVars
<1> HIDE DEF peers
<1>2. /\ pinned \in [Devices -> {Nobody} \cup SUBSET Devices]
      /\ pending \in [Devices -> {Nobody} \cup SUBSET Devices]
      /\ prepared \in [Devices -> {Nobody} \cup K!Rosters] /\ met \in [Devices -> SUBSET Devices]
  BY DEF KeysInv, K!TypeOK
<1>3. /\ pinned' \in [Devices -> {Nobody} \cup SUBSET Devices] /\ pinned'[d] = peers
      /\ pending' \in [Devices -> {Nobody} \cup SUBSET Devices] /\ pending'[d] = Nobody
      /\ prepared' \in [Devices -> {Nobody} \cup K!Rosters] /\ prepared'[d] = Nobody
      /\ met' \in [Devices -> SUBSET Devices] /\ met'[d] = met[d] \cup peers
      /\ \A e \in Devices \ {d} : /\ pinned'[e] = pinned[e] /\ pending'[e] = pending[e]
                                  /\ prepared'[e] = prepared[e] /\ met'[e] = met[e]
  BY <1>1, <1>2
<1>4. stored[d] # <<>>
  BY <1>1, TypeFacts DEF KeysInv, DeviceInv, peers
<1>5. K!TypeOK'
  <2>1. K!Rosters' = K!Rosters /\ K!Members' = K!Members /\ K!Made' = K!Made
    BY <1>1 DEF K!Rosters, K!Members, K!Made
  <2>2. \A e \in Devices : memory'[e] # K!NoKey \/ pinned'[e] # Nobody => stored'[e] # <<>>
    BY <1>1, <1>3, <1>4 DEF KeysInv, K!TypeOK
  <2> QED
    BY <1>1, <1>3, <2>1, <2>2 DEF KeysInv, K!TypeOK, K!serverVars, K!keyVars
<1>6. (\A e \in Devices : K!Rows(e)' = K!Rows(e)) /\ K!HasKey' = K!HasKey
  BY <1>1, RowsStay
<1>7. Saved(d)' = Saved(d)
  BY <1>1 DEF Saved
<1>8. DeviceInv(d)'
  <2>1. persisted[d] # Nobody => persisted[d].roster.devices \subseteq Devices
    BY DEF KeysInv, K!TypeOK, K!Rosters
  <2> QED
    BY <1>1, <1>3, <1>6, <1>7, <2>1 DEF KeysInv, DeviceInv
<1>9. \A e \in Devices : DeviceInv(e)' /\ met[e] \subseteq met'[e]
  BY <1>1, <1>3, <1>6, <1>8, DeviceKeeps DEF KeysInv
<1> QED
  BY <1>1, <1>5, <1>9, NothingMoves

LEMMA ReloadStep ==
  ASSUME KeysInv, NEW d \in Devices, K!Reload(d)
  PROVE  KeysInv'
<1>1. /\ memory' = [memory EXCEPT ![d] = K!NoKey] /\ pending' = [pending EXCEPT ![d] = Nobody]
      /\ prepared' = [prepared EXCEPT ![d] = Nobody]
      /\ task' = [t \in Tasks |-> IF K!Me(t) = d THEN K!Idle ELSE task[t]]
      /\ scene' = scene /\ member' = member /\ trusted' = trusted /\ changes' = changes
      /\ share' = share /\ archive' = archive /\ stored' = stored /\ pinned' = pinned
      /\ persisted' = persisted /\ owed' = owed /\ used' = used /\ met' = met
  BY DEF K!Reload, K!serverVars, K!keyVars, K!history
<1>2. /\ (\A e \in Devices : K!Rows(e)' = K!Rows(e)) /\ K!HasKey' = K!HasKey /\ Copies' = Copies
      /\ \A e \in Devices : Saved(e)' = Saved(e) /\ K!Latest(e)' = K!Latest(e)
  BY <1>1, RowsStay DEF K!keyVars, Saved, K!Latest
<1>3. /\ task \in [Tasks -> TaskRec] /\ K!NoKey \in 0..MaxKeys
      /\ K!Idle \in TaskRec /\ ~ K!Idle.fresh /\ K!Idle.pc = "idle" /\ K!Idle.seen = Nobody /\ K!Idle.key = K!NoKey
  BY TypeFacts, IdleFacts, KeysAssumption DEF KeysInv, K!NoKey
<1>4. \A u \in Tasks : \/ K!Me(u) = d /\ task'[u] = K!Idle
                       \/ K!Me(u) # d /\ task'[u] = task[u]
  BY <1>1
<1>5. /\ memory' \in [Devices -> 0..MaxKeys] /\ memory'[d] = K!NoKey
      /\ pending' \in [Devices -> {Nobody} \cup SUBSET Devices] /\ pending'[d] = Nobody
      /\ prepared' \in [Devices -> {Nobody} \cup K!Rosters] /\ prepared'[d] = Nobody
      /\ \A e \in Devices \ {d} : /\ memory'[e] = memory[e] /\ pending'[e] = pending[e]
                                  /\ prepared'[e] = prepared[e]
  BY <1>1, <1>3 DEF KeysInv, K!TypeOK
<1>6. K!TypeOK'
  <2>1. K!Rosters' = K!Rosters /\ K!Members' = K!Members /\ K!Made' = K!Made
    BY <1>1 DEF K!Rosters, K!Members, K!Made
  <2>2. task' \in [Tasks -> TaskRec]
        /\ \A u \in Tasks : task'[u].pc \in {"share", "ready"} => task'[u].seen # Nobody
    BY <1>1, <1>3, <1>4 DEF KeysInv, K!TypeOK
  <2>3. \A e \in Devices : memory'[e] # K!NoKey \/ pinned'[e] # Nobody => stored'[e] # <<>>
    BY <1>1, <1>5 DEF KeysInv, K!TypeOK
  <2> QED
    BY <1>1, <1>5, <2>1, <2>2, <2>3 DEF KeysInv, K!TypeOK, TaskRec
<1>7. \A e \in Devices : DeviceInv(e)'
  <2>1. persisted[d] # Nobody => persisted[d].roster.devices \subseteq Devices
    BY DEF KeysInv, K!TypeOK, K!Rosters
  <2>2. DeviceInv(d)'
    BY <1>1, <1>2, <1>5, <2>1 DEF KeysInv, DeviceInv
  <2>3. ASSUME NEW e \in Devices \ {d} PROVE DeviceInv(e)'
    BY <1>1, <1>2, <1>5, DeviceKeeps DEF KeysInv
  <2> QED
    BY <2>2, <2>3
<1>8. ASSUME NEW u \in Tasks
      PROVE  /\ TaskInv(u)'
             /\ scene.kind = "group" =>
                  ((\A k \in K!Made : \A r : Serves(k, r)' => Serves(k, r)) => MakerInv(u)')
  <2>1. CASE K!Me(u) = d
    <3>1. task'[u] = K!Idle
      BY <1>4, <2>1
    <3> QED
      BY <1>3, <3>1 DEF TaskInv, MakerInv
  <2>2. CASE K!Me(u) # d
    <3> PICK e \in Devices \ {d} : e = K!Me(u)
      BY <2>2, TypeFacts DEF KeysInv
    <3>1. /\ task'[u] = task[u] /\ K!Me(u)' = K!Me(u) /\ memory'[K!Me(u)] = memory[K!Me(u)]
          /\ K!Own(K!Me(u))' = K!Own(K!Me(u)) /\ Saved(K!Me(u))' = Saved(K!Me(u))
      BY <1>1, <1>4, <1>5, <2>2 DEF K!Own, K!Latest, Saved, K!Me
    <3>2. TaskInv(u)'
      BY <1>1, <1>2, <3>1, TaskKeeps DEF KeysInv
    <3>3. task[u].pc = "boot" => task[u].key \in K!Made
      BY <1>3, KeysAssumption DEF KeysInv, TaskInv, TaskRec, K!Made, K!NoKey
    <3>4. ASSUME scene.kind = "group", \A k \in K!Made : \A r : Serves(k, r)' => Serves(k, r)
          PROVE  MakerInv(u)'
      BY <1>1, <3>1, <3>3, <3>4, MakerKeeps DEF KeysInv, GroupInv
    <3> QED
      BY <3>2, <3>4
  <2> QED
    BY <2>1, <2>2
<1>9. \A k \in K!Made : \A r : Serves(k, r)' => Serves(k, r)
  <2> SUFFICES ASSUME NEW k \in K!Made, NEW r, Serves(k, r)' PROVE Serves(k, r)
    OBVIOUS
  <2>1. CASE \E u \in Tasks : task'[u].fresh /\ task'[u].key = k /\ task'[u].seen = r
    BY <1>3, <1>4, <2>1 DEF Serves
  <2>2. CASE \E e \in Devices : persisted'[e] # Nobody /\ persisted'[e] = [key |-> k, roster |-> r]
    BY <1>1, <2>2 DEF Serves
  <2>3. CASE r \in used'[k]
    BY <1>1, <2>3 DEF Serves
  <2> QED
    BY <2>1, <2>2, <2>3 DEF Serves
<1>10. scene.kind = "dm" => ChatInv'
  BY <1>1, <1>2, <1>3, <1>4 DEF KeysInv, ChatInv, K!Made
<1>11. ASSUME scene.kind = "group" PROVE GroupInv'
  <2>1. \A e \in Devices : SenderInv(e)'
    BY <1>1, <1>2, <1>5, <1>11 DEF KeysInv, GroupInv, SenderInv
  <2>2. \A u \in Tasks : MakerInv(u)'
    BY <1>8, <1>9, <1>11
  <2>3. ServesOne'
    BY <1>1, <1>2, <1>9, <1>11, ServesKeeps DEF KeysInv, GroupInv
  <2> QED
    BY <1>1, <1>11, <2>1, <2>2, <2>3 DEF KeysInv, GroupInv, K!Made
<1> QED
  BY <1>1, <1>2, <1>6, <1>7, <1>8, <1>10, <1>11 DEF KeysInv

(* Copies are added to the server, and none is lost.                       *)
LEMMA RowsGrow ==
  ASSUME KeysInv, UNCHANGED <<scene, K!deviceVars, K!history>>, K!TypeOK', K!HasKey',
         \A e \in Devices : K!Rows(e) \subseteq K!Rows(e)',
         \A u \in Tasks :
           \/ task'[u] = task[u]
           \/ /\ TaskInv(u)' /\ task[u].pc # "idle"
              /\ scene.kind = "dm" =>
                   /\ ~ task'[u].fresh
                   /\ task'[u].pc \in {"look", "won", "share", "ready"} /\ task'[u].key # K!NoKey
                        => task'[u].key \in Copies'
              /\ scene.kind = "group" => MakerInv(u)',
         scene.kind = "dm" =>
           /\ \A k, l \in Copies' : k = l
           /\ Copies \subseteq Copies' /\ \A e \in Devices : archive'[e] \subseteq Copies',
         scene.kind = "group" =>
           /\ \A k \in K!Made : \A r : Serves(k, r)' => Serves(k, r)
           /\ \A k \in K!Made : \A r \in K!Rosters : \A e \in Devices :
                Serves(k, r) /\ k \in K!Rows(e)' => k \in K!Rows(e) \/ r.members[UserOf[e]] # 0
  PROVE  KeysInv'
<1>1. /\ memory' = memory /\ stored' = stored /\ pinned' = pinned /\ pending' = pending
      /\ prepared' = prepared /\ persisted' = persisted /\ met' = met /\ scene' = scene
      /\ owed' = owed /\ used' = used
  BY DEF K!deviceVars, K!history
<1>2. \A d \in Devices : DeviceInv(d)'
  BY <1>1, DeviceKeeps DEF KeysInv
<1>3. \A u \in Tasks : TaskInv(u)'
  <2> SUFFICES ASSUME NEW u \in Tasks, task'[u] = task[u] PROVE TaskInv(u)'
    OBVIOUS
  <2>1. PICK d \in Devices : d = K!Me(u)
    BY TypeFacts DEF KeysInv
  <2>2. Saved(K!Me(u))' = Saved(K!Me(u)) /\ K!Own(K!Me(u))' = K!Own(K!Me(u))
    BY <1>1 DEF Saved, K!Own, K!Latest, K!Me
  <2> QED
    BY <1>1, <2>2, TaskKeeps DEF KeysInv
<1>4. ASSUME scene.kind = "dm" PROVE ChatInv'
  <2>1. \A e \in Devices : Saved(e)' \subseteq Copies'
    BY <1>1, <1>4 DEF KeysInv, ChatInv, Saved
  <2>2. ASSUME NEW u \in Tasks
        PROVE  /\ ~ task'[u].fresh
               /\ task'[u].pc \in {"look", "won", "share", "ready"} /\ task'[u].key # K!NoKey
                    => task'[u].key \in Copies'
    BY <1>4 DEF KeysInv, ChatInv
  <2>3. \A k \in K!Made : (owed'[k] # {} => k \in Copies') /\ used'[k] = {}
    BY <1>1, <1>4 DEF KeysInv, ChatInv
  <2> QED
    BY <1>4, <2>1, <2>2, <2>3 DEF ChatInv, K!Made
<1>5. ASSUME scene.kind = "group" PROVE GroupInv'
  <2>1. \A d \in Devices : SenderInv(d)'
    BY <1>1, <1>5 DEF KeysInv, GroupInv, SenderInv, K!Latest
  <2>2. ASSUME NEW u \in Tasks PROVE MakerInv(u)'
    <3>1. CASE task'[u] = task[u]
      <4>1. task[u].pc = "boot" => task[u].key \in K!Made
        BY TypeFacts, KeysAssumption DEF KeysInv, TaskInv, TaskRec, K!Made, K!NoKey
      <4>2. memory'[K!Me(u)] = memory[K!Me(u)] /\ stored'[K!Me(u)] = stored[K!Me(u)]
            /\ persisted'[K!Me(u)] = persisted[K!Me(u)]
        BY <1>1
      <4>3. task[u].pc = "boot" => \A r \in K!Rosters : Serves(task[u].key, r)' => Serves(task[u].key, r)
        BY <1>5, <3>1, <4>1
      <4> QED
        BY <1>1, <1>5, <3>1, <4>2, <4>3, MakerKeeps DEF KeysInv, GroupInv
    <3>2. CASE task'[u] # task[u]
      BY <1>5, <3>2
    <3> QED
      BY <3>1, <3>2
  <2>3. ServesOne'
    BY <1>1, <1>5, ServesKeeps DEF KeysInv, GroupInv
  <2> QED
    BY <1>1, <1>5, <2>1, <2>2, <2>3 DEF KeysInv, GroupInv, K!Made
<1> QED
  BY <1>1, <1>2, <1>3, <1>4, <1>5 DEF KeysInv

(* A key the server knows of is copied to a device that may have it.       *)
LEMMA OneShare ==
  ASSUME KeysInv, NEW d \in Devices, NEW e \in Devices, NEW k \in K!Made, K!StoreShare(d, e, k),
         scene' = scene, scene.kind = "dm" => k \in Copies,
         scene.kind = "group" => \A r \in K!Rosters : Serves(k, r) => r.members[UserOf[e]] # 0
  PROVE  /\ share' \in [Devices -> [Devices -> 0..MaxKeys]] /\ archive' \in [Devices -> SUBSET K!Made]
         /\ K!HasKey' /\ k \in K!Rows(e)' /\ \A f \in Devices : K!Rows(f) \subseteq K!Rows(f)'
         /\ scene.kind = "dm" =>
              /\ \A j, l \in Copies' : j = l
              /\ Copies \subseteq Copies' /\ \A f \in Devices : archive'[f] \subseteq Copies'
         /\ scene.kind = "group" =>
              \A l \in K!Made : \A r \in K!Rosters : \A f \in Devices :
                Serves(l, r) /\ l \in K!Rows(f)' => l \in K!Rows(f) \/ r.members[UserOf[f]] # 0
<1>1. /\ share' \in [Devices -> [Devices -> 0..MaxKeys]] /\ archive' \in [Devices -> SUBSET K!Made]
      /\ K!Rows(e)' = K!Rows(e) \cup {k} /\ \A f \in Devices \ {e} : K!Rows(f)' = K!Rows(f)
      /\ K!HasKey' /\ k \in Copies' /\ Copies' \subseteq Copies \cup {k}
      /\ \A f \in Devices : archive'[f] \subseteq archive[f] \cup Copies
  BY StoreFacts DEF KeysInv
<1>2. \A f \in Devices : K!Rows(f) \subseteq K!Rows(f)' /\ k \in K!Rows(e)'
  BY <1>1
<1>3. ASSUME scene.kind = "dm"
      PROVE  /\ \A j, l \in Copies' : j = l
             /\ Copies \subseteq Copies' /\ \A f \in Devices : archive'[f] \subseteq Copies'
  BY <1>1, <1>3 DEF KeysInv, ChatInv
<1>4. ASSUME scene.kind = "group", NEW l \in K!Made, NEW r \in K!Rosters, NEW f \in Devices,
             Serves(l, r), l \in K!Rows(f)'
      PROVE  l \in K!Rows(f) \/ r.members[UserOf[f]] # 0
  BY <1>1, <1>4
<1> QED
  BY <1>1, <1>2, <1>3, <1>4

LEMMA ShareKeyStep ==
  ASSUME KeysInv, NEW t \in Tasks, K!ShareKey(t)
  PROVE  KeysInv'
<1>1. PICK d \in Devices : d = K!Me(t)
  BY TypeFacts DEF KeysInv
<1>2. PICK k \in K!Made : k = task[t].key
  BY TypeFacts, KeysAssumption DEF K!ShareKey, KeysInv, TaskInv, TaskRec, K!Made, K!NoKey
<1>3. PICK e \in task[t].todo : /\ K!StoreShare(d, e, k)
                                /\ K!Step(t, [task[t] EXCEPT !.todo = @ \ {e}])
  BY <1>1, <1>2 DEF K!ShareKey
<1>0. PICK r : r = task[t].seen
  OBVIOUS
<1>4. /\ task[t].pc = "share" /\ t \in scene.tasks /\ task[t] \in TaskRec /\ r # Nobody /\ r \in K!Rosters
      /\ task[t].todo \subseteq r.devices /\ d \in r.devices /\ k # K!NoKey
      /\ \A f \in r.devices : r.members[UserOf[f]] # 0
      /\ \A f \in r.devices \ task[t].todo : k \in K!Rows(f)
      /\ K!Peers(d, r) \subseteq met[d] /\ (~ task[t].fresh => k \in Saved(d))
      /\ UNCHANGED <<scene, K!deviceVars, K!history>>
      /\ scene' = scene /\ member' = member /\ trusted' = trusted /\ changes' = changes
  <2>1. task[t].pc = "share" /\ task[t] \in TaskRec /\ r # Nobody /\ r \in K!Rosters
    BY <1>0, TypeFacts DEF K!ShareKey, KeysInv, K!TypeOK, TaskRec
  <2> QED
    BY <1>0, <1>1, <1>2, <2>1 DEF K!ShareKey, KeysInv, TaskInv, K!serverVars
<1>5. e \in Devices /\ e \in r.devices /\ r.devices \subseteq Devices
  BY <1>4 DEF K!Rosters
<1>6. PICK s \in TaskRec :
         /\ s = [task[t] EXCEPT !.todo = @ \ {e}]
         /\ s.pc = "share" /\ s.key = k /\ s.seen = r /\ s.fresh = task[t].fresh
         /\ s.todo = task[t].todo \ {e}
  <2> DEFINE n == [task[t] EXCEPT !.todo = @ \ {e}]
  <2>1. task[t].todo \ {e} \in SUBSET Devices
    BY <1>4 DEF TaskRec
  <2>2. n \in TaskRec
    BY <1>4, <2>1 DEF TaskRec
  <2>3. /\ n.pc = "share" /\ n.key = k /\ n.seen = r /\ n.fresh = task[t].fresh
        /\ n.todo = task[t].todo \ {e}
    BY <1>0, <1>2, <1>4 DEF TaskRec
  <2> QED
    BY <2>2, <2>3
<1>7. task' = [task EXCEPT ![t] = s]
  BY <1>3, <1>6 DEF K!Step
<1>8. /\ task'[t] = s /\ K!Me(t)' = d /\ task \in [Tasks -> TaskRec]
      /\ \A u \in Tasks \ {t} : task'[u] = task[u]
  BY <1>1, <1>7, TypeFacts DEF KeysInv, K!Me
<1>9. scene.kind = "dm" => k \in Copies
  BY <1>2, <1>4 DEF KeysInv, ChatInv
<1>10. scene.kind = "group" => \A q \in K!Rosters : Serves(k, q) => q.members[UserOf[e]] # 0
  <2> SUFFICES ASSUME scene.kind = "group", NEW q \in K!Rosters, Serves(k, q)
               PROVE  q.members[UserOf[e]] # 0
    OBVIOUS
  <2>1. task[t].fresh
    BY <1>4 DEF KeysInv, GroupInv, MakerInv
  <2>2. Serves(k, r)
    BY <1>0, <1>2, <2>1 DEF Serves
  <2>3. q = r
    BY <1>4, <2>2 DEF KeysInv, GroupInv, ServesOne
  <2> QED
    BY <1>4, <1>5, <2>3
<1>11. /\ share' \in [Devices -> [Devices -> 0..MaxKeys]] /\ archive' \in [Devices -> SUBSET K!Made]
       /\ K!HasKey' /\ k \in K!Rows(e)' /\ \A f \in Devices : K!Rows(f) \subseteq K!Rows(f)'
       /\ scene.kind = "dm" =>
            /\ \A j, l \in Copies' : j = l
            /\ Copies \subseteq Copies' /\ \A f \in Devices : archive'[f] \subseteq Copies'
       /\ scene.kind = "group" =>
            \A l \in K!Made : \A q \in K!Rosters : \A f \in Devices :
              Serves(l, q) /\ l \in K!Rows(f)' => l \in K!Rows(f) \/ q.members[UserOf[f]] # 0
  BY <1>3, <1>4, <1>5, <1>9, <1>10, OneShare
<1>12. K!TypeOK'
  <2>1. K!Rosters' = K!Rosters /\ K!Members' = K!Members /\ K!Made' = K!Made
    BY <1>4 DEF K!Rosters, K!Members, K!Made
  <2>2. task' \in [Tasks -> TaskRec]
        /\ \A u \in Tasks : task'[u].pc \in {"share", "ready"} => task'[u].seen # Nobody
    BY <1>4, <1>6, <1>7, <1>8 DEF KeysInv, K!TypeOK
  <2> QED
    BY <1>4, <1>11, <2>1, <2>2 DEF KeysInv, K!TypeOK, TaskRec, K!deviceVars, K!history
<1>13. Saved(d)' = Saved(d) /\ met' = met /\ \A q : K!Peers(d, q)' = K!Peers(d, q)
  BY <1>4 DEF K!deviceVars, K!history, Saved, K!Peers
<1>14. TaskInv(t)'
  <2>1. \A f \in r.devices \ s.todo : k \in K!Rows(f)'
    BY <1>4, <1>5, <1>6, <1>11
  <2>2. K!Peers(d, s.seen)' = K!Peers(d, r)
    BY <1>6, <1>13
  <2> QED
    BY <1>4, <1>6, <1>8, <1>13, <2>1, <2>2 DEF TaskInv
<1>15. scene.kind = "group" => MakerInv(t)'
  BY <1>1, <1>2, <1>4, <1>6, <1>8, <1>13 DEF KeysInv, GroupInv, MakerInv
<1>16. scene.kind = "group" => \A l \in K!Made : \A q : Serves(l, q)' => Serves(l, q)
  <2>1. \A l \in K!Made : \A q : Serves(l, q)' => Serves(l, q) \/ (s.fresh /\ s.key = l /\ s.seen = q)
    BY <1>4, <1>7, ServesNew DEF KeysInv, K!deviceVars, K!history
  <2>2. \A l, q : s.fresh /\ s.key = l /\ s.seen = q => Serves(l, q)
    BY <1>0, <1>2, <1>6 DEF Serves
  <2> QED
    BY <2>1, <2>2
<1>17. \A u \in Tasks :
         \/ task'[u] = task[u]
         \/ /\ TaskInv(u)' /\ task[u].pc # "idle"
            /\ scene.kind = "dm" =>
                 /\ ~ task'[u].fresh
                 /\ task'[u].pc \in {"look", "won", "share", "ready"} /\ task'[u].key # K!NoKey
                      => task'[u].key \in Copies'
            /\ scene.kind = "group" => MakerInv(u)'
  <2>1. scene.kind = "dm" => ~ s.fresh /\ s.key \in Copies'
    BY <1>6, <1>9, <1>11 DEF KeysInv, ChatInv
  <2> QED
    BY <1>4, <1>8, <1>14, <1>15, <2>1
<1> QED
  BY <1>4, <1>11, <1>12, <1>16, <1>17, RowsGrow

LEMMA SyncKeyStep ==
  ASSUME KeysInv, NEW d \in Devices, NEW e \in Devices, K!SyncKey(d, e)
  PROVE  KeysInv'
<1>1. /\ UserOf[d] = UserOf[e] /\ UNCHANGED <<scene, K!deviceVars, K!history>> /\ task' = task
      /\ scene' = scene /\ member' = member /\ trusted' = trusted /\ changes' = changes
  BY DEF K!SyncKey, K!serverVars
<1>2. PICK k \in K!Rows(d) : K!StoreShare(d, e, k)
  BY DEF K!SyncKey
<1>3. k \in K!Made
  BY KeysAssumption DEF KeysInv, K!TypeOK, K!Rows, K!Made, K!NoKey
<1>4. scene.kind = "dm" => k \in Copies
  BY DEF KeysInv, ChatInv, K!Rows, Copies
<1>5. scene.kind = "group" => \A q \in K!Rosters : Serves(k, q) => q.members[UserOf[e]] # 0
  BY <1>1, <1>3 DEF KeysInv, GroupInv, ServesOne
<1>6. /\ share' \in [Devices -> [Devices -> 0..MaxKeys]] /\ archive' \in [Devices -> SUBSET K!Made]
      /\ K!HasKey' /\ \A f \in Devices : K!Rows(f) \subseteq K!Rows(f)'
      /\ scene.kind = "dm" =>
           /\ \A j, l \in Copies' : j = l
           /\ Copies \subseteq Copies' /\ \A f \in Devices : archive'[f] \subseteq Copies'
      /\ scene.kind = "group" =>
           \A l \in K!Made : \A q \in K!Rosters : \A f \in Devices :
             Serves(l, q) /\ l \in K!Rows(f)' => l \in K!Rows(f) \/ q.members[UserOf[f]] # 0
  BY <1>1, <1>2, <1>3, <1>4, <1>5, OneShare
<1>7. K!TypeOK'
  <2>1. K!Rosters' = K!Rosters /\ K!Members' = K!Members /\ K!Made' = K!Made
    BY <1>1 DEF K!Rosters, K!Members, K!Made
  <2> QED
    BY <1>1, <1>6, <2>1 DEF KeysInv, K!TypeOK, K!deviceVars, K!history
<1>8. \A l, q : Serves(l, q)' => Serves(l, q)
  BY <1>1 DEF Serves, K!deviceVars, K!history
<1> QED
  BY <1>1, <1>6, <1>7, <1>8, RowsGrow

LEMMA BootstrapStep ==
  ASSUME KeysInv, NEW t \in Tasks, K!Bootstrap(t)
  PROVE  KeysInv'
<1>1. PICK d \in Devices : d = K!Me(t)
  BY TypeFacts DEF KeysInv
<1>2. PICK k \in K!Made : k = task[t].key
  BY TypeFacts, KeysAssumption DEF K!Bootstrap, KeysInv, TaskInv, TaskRec, K!Made, K!NoKey
<1> DEFINE r == task[t].seen
<1>3. /\ task[t].pc = "boot" /\ t \in scene.tasks /\ task[t] \in TaskRec /\ r # Nobody /\ r \in K!Rosters
      /\ r.devices \subseteq Devices /\ d \in r.devices /\ k # K!NoKey /\ ~ task[t].fresh
      /\ \A f \in r.devices : r.members[UserOf[f]] # 0
      /\ UNCHANGED <<K!serverVars, archive, K!deviceVars, met>> /\ UNCHANGED <<scene, K!deviceVars, K!history>>
      /\ scene' = scene /\ member' = member /\ trusted' = trusted /\ changes' = changes
      /\ archive' = archive /\ owed' = owed /\ used' = used /\ persisted' = persisted /\ stored' = stored
  <2>1. task[t].pc = "boot" /\ task[t] \in TaskRec
    BY TypeFacts DEF K!Bootstrap, KeysInv
  <2>2. r # Nobody /\ d \in r.devices /\ t \in scene.tasks /\ ~ task[t].fresh
        /\ \A f \in r.devices : r.members[UserOf[f]] # 0
    BY <1>1, <2>1 DEF KeysInv, TaskInv
  <2>3. r \in K!Rosters /\ r.devices \subseteq Devices
    BY <2>1, <2>2 DEF TaskRec, K!Rosters
  <2> QED
    BY <2>1, <2>2, <2>3, TypeFacts DEF K!Bootstrap, KeysInv, K!serverVars, K!deviceVars, K!history
<1>4. Saved(d)' = Saved(d) /\ K!Me(t)' = d /\ task \in [Tasks -> TaskRec]
  BY <1>1, <1>3, TypeFacts DEF KeysInv, K!Me, Saved
<1>5. scene.kind = "group" => Saved(d) = {}
  BY <1>1, <1>3 DEF KeysInv, GroupInv, MakerInv
<1>6. CASE K!HasKey
  <2> DEFINE s == [task[t] EXCEPT !.pc = "lost"]
  <2>1. s \in TaskRec /\ s.pc = "lost" /\ s.key = k /\ s.seen = r /\ ~ s.fresh
    BY <1>2, <1>3 DEF TaskRec
  <2>2. task' = [task EXCEPT ![t] = s] /\ UNCHANGED K!keyVars
    BY <1>3, <1>6 DEF K!Bootstrap, K!Step, K!keyVars
  <2> HIDE DEF s
  <2>3. task'[t] = s
    BY <1>4, <2>2
  <2>4. TaskInv(t)'
    BY <1>3, <1>4, <2>1, <2>3 DEF TaskInv
  <2>5. scene.kind = "group" => MakerInv(t)'
    BY <1>4, <1>5, <2>1, <2>3 DEF MakerInv
  <2>6. owed' \in [K!Made -> SUBSET Devices] /\ used' \in [K!Made -> SUBSET K!Rosters]
    BY <1>3 DEF KeysInv, K!TypeOK
  <2>7. scene.kind = "dm" => \A l \in K!Made : (owed'[l] # {} => l \in Copies) /\ used'[l] = {}
    BY <1>3 DEF KeysInv, ChatInv
  <2>8. scene.kind = "group" => /\ \A l \in K!Made : \A q \in used'[l] : Serves(l, q)
                                /\ \A l \in K!Made : used'[l] # {} => owed'[l] # {}
    BY <1>3 DEF KeysInv, GroupInv, Serves
  <2>9. UNCHANGED <<K!serverVars, K!keyVars, K!deviceVars, met>>
    BY <1>3, <2>2
  <2> QED
    BY <1>1, <1>3, <2>1, <2>2, <2>4, <2>5, <2>6, <2>7, <2>8, <2>9, OnlyTaskMoves
<1>7. CASE ~ K!HasKey
  <2> DEFINE s == [task[t] EXCEPT !.pc = "won"]
  <2>1. s \in TaskRec /\ s.pc = "won" /\ s.key = k /\ s.seen = r /\ ~ s.fresh
    BY <1>2, <1>3 DEF TaskRec
  <2>2. /\ task' = [task EXCEPT ![t] = s]
        /\ share' = [share EXCEPT ![d] = [e \in Devices |-> IF e \in r.devices THEN k ELSE K!NoKey]]
    BY <1>1, <1>2, <1>7 DEF K!Bootstrap, K!Step
  <2> HIDE DEF s
  <2>3. task'[t] = s /\ \A u \in Tasks \ {t} : task'[u] = task[u]
    BY <1>4, <2>2
  <2>4. /\ \A f, e \in Devices : share[f][e] = K!NoKey
        /\ \A e \in Devices : archive[e] = {} /\ Saved(e) = {} /\ K!Rows(e) = {}
        /\ Copies = {}
    <3>1. \A f, e \in Devices : share[f][e] = K!NoKey
      BY <1>7 DEF K!HasKey
    <3> QED
      BY <1>7, <3>1 DEF KeysInv, DeviceInv, K!Rows, Copies
  <2>5. share \in [Devices -> [Devices -> 0..MaxKeys]] /\ k \in 0..MaxKeys /\ K!NoKey \in 0..MaxKeys
    BY KeysAssumption DEF KeysInv, K!TypeOK, K!Made, K!NoKey
  <2>6. /\ share' \in [Devices -> [Devices -> 0..MaxKeys]]
        /\ \A f, e \in Devices : share'[f][e] = IF f = d /\ e \in r.devices THEN k ELSE K!NoKey
    <3>1. [e \in Devices |-> IF e \in r.devices THEN k ELSE K!NoKey] \in [Devices -> 0..MaxKeys]
      BY <2>5
    <3>2. share' \in [Devices -> [Devices -> 0..MaxKeys]]
      BY <2>2, <2>5, <3>1
    <3> QED
      BY <2>2, <2>4, <2>5, <3>2
  <2>7. /\ \A e \in Devices : K!Rows(e)' = IF e \in r.devices THEN {k} ELSE {}
        /\ Copies' = {k} /\ K!HasKey'
    BY <1>3, <2>4, <2>6 DEF K!Rows, Copies, K!HasKey
  <2>8. K!TypeOK'
    <3>1. K!Rosters' = K!Rosters /\ K!Members' = K!Members /\ K!Made' = K!Made
      BY <1>3 DEF K!Rosters, K!Members, K!Made
    <3>2. task' \in [Tasks -> TaskRec]
          /\ \A u \in Tasks : task'[u].pc \in {"share", "ready"} => task'[u].seen # Nobody
      BY <1>4, <2>1, <2>2, <2>3 DEF KeysInv, K!TypeOK
    <3> QED
      BY <1>3, <2>6, <3>1, <3>2 DEF KeysInv, K!TypeOK, TaskRec, K!deviceVars, K!history
  <2>9. TaskInv(t)'
    BY <1>3, <1>4, <2>1, <2>3, <2>7 DEF TaskInv
  <2>10. scene.kind = "group" => \A l \in K!Made : \A q : Serves(l, q)' => Serves(l, q)
    BY <1>3, <2>1, <2>2, ServesNew DEF KeysInv
  <2>11. scene.kind = "group" => MakerInv(t)'
    BY <1>4, <1>5, <2>1, <2>3 DEF MakerInv
  <2>12. scene.kind = "group" =>
            \A l \in K!Made : \A q \in K!Rosters : \A f \in Devices :
              Serves(l, q) /\ l \in K!Rows(f)' => l \in K!Rows(f) \/ q.members[UserOf[f]] # 0
    <3>1. scene.kind = "group" => \A q \in K!Rosters : ~ Serves(k, q)
      BY <1>2, <1>3 DEF KeysInv, GroupInv, MakerInv
    <3> QED
      BY <2>7, <3>1
  <2>13. \A u \in Tasks :
           \/ task'[u] = task[u]
           \/ /\ TaskInv(u)' /\ task[u].pc # "idle"
              /\ scene.kind = "dm" =>
                   /\ ~ task'[u].fresh
                   /\ task'[u].pc \in {"look", "won", "share", "ready"} /\ task'[u].key # K!NoKey
                        => task'[u].key \in Copies'
              /\ scene.kind = "group" => MakerInv(u)'
    BY <1>3, <2>1, <2>3, <2>7, <2>9, <2>11
  <2>14. scene.kind = "dm" =>
           /\ \A j, l \in Copies' : j = l
           /\ Copies \subseteq Copies' /\ \A e \in Devices : archive'[e] \subseteq Copies'
    BY <1>3, <2>4, <2>7
  <2> QED
    BY <1>3, <2>4, <2>7, <2>8, <2>10, <2>12, <2>13, <2>14, RowsGrow
<1> QED
  BY <1>6, <1>7

LEMMA KeysInitially == K!Init => KeysInv
<1> SUFFICES ASSUME K!Init PROVE KeysInv
  OBVIOUS
<1>1. scene \in Scenes /\ scene.trusted \subseteq Devices /\ scene.changes \in Nat
  BY KeysAssumption DEF K!Init
<1>2. /\ 0 \in 0..MaxKeys /\ 1 \in 0..(scene.changes + 1) /\ 0 \in 0..scene.changes
      /\ <<>> \in Seq(K!Made)
  BY <1>1, KeysAssumption
<1>3. K!TypeOK
  <2>1. member \in K!Members
    BY <1>2 DEF K!Init, K!Members
  <2>2. share \in [Devices -> [Devices -> 0..MaxKeys]] /\ memory \in [Devices -> 0..MaxKeys]
    BY <1>2 DEF K!Init, K!NoKey
  <2>3. task \in [Tasks -> [pc : {"idle", "look", "boot", "won", "lost", "share", "ready"},
                         key : 0..MaxKeys, asked : BOOLEAN, seen : {Nobody} \cup K!Rosters,
                         intro : BOOLEAN, todo : SUBSET Devices, fresh : BOOLEAN]]
    BY <1>2 DEF K!Init, K!Idle, K!NoKey
  <2>4. \A t \in Tasks : task[t].pc = "idle"
    BY DEF K!Init, K!Idle
  <2>5. /\ stored \in [Devices -> Seq(K!Made)]
        /\ \A d \in Devices : memory[d] = K!NoKey /\ pinned[d] = Nobody
    BY <1>2 DEF K!Init
  <2> QED
    BY <1>1, <1>2, <2>1, <2>2, <2>3, <2>4, <2>5 DEF K!Init, K!TypeOK
<1>4. \A t \in Tasks : /\ task[t].pc = "idle" /\ ~ task[t].fresh /\ task[t].key = K!NoKey
                       /\ task[t].seen = Nobody
  BY DEF K!Init, K!Idle
<1>5. /\ \A d, e \in Devices : share[d][e] = K!NoKey
      /\ \A d \in Devices : /\ archive[d] = {} /\ memory[d] = K!NoKey /\ stored[d] = <<>>
                            /\ pinned[d] = Nobody /\ pending[d] = Nobody
                            /\ prepared[d] = Nobody /\ persisted[d] = Nobody
      /\ \A k \in K!Made : owed[k] = {} /\ used[k] = {}
  BY DEF K!Init
<1>6. \A d \in Devices : Saved(d) = {}
  BY <1>3, <1>5, TypeFacts
<1>7. \A d \in Devices : DeviceInv(d)
  BY <1>5, <1>6 DEF DeviceInv
<1>8. \A t \in Tasks : TaskInv(t)
  BY <1>4 DEF TaskInv
<1>9. ChatInv
  <2>1. Copies = {}
    BY <1>5 DEF Copies
  <2> QED
    BY <1>4, <1>5, <1>6, <2>1 DEF ChatInv
<1>10. GroupInv
  <2>1. \A k \in K!Made : \A r : ~ Serves(k, r)
    BY <1>4, <1>5 DEF Serves
  <2> QED
    BY <1>4, <1>5, <2>1 DEF GroupInv, SenderInv, MakerInv, ServesOne
<1> QED
  BY <1>3, <1>5, <1>7, <1>8, <1>9, <1>10 DEF KeysInv

LEMMA KeysStep == KeysInv /\ [K!Next]_(K!vars) => KeysInv'
<1> SUFFICES ASSUME KeysInv, [K!Next]_(K!vars) PROVE KeysInv'
  OBVIOUS
<1>1. CASE UNCHANGED K!vars
  <2>1. K!TypeOK'
    BY <1>1 DEF KeysInv, K!TypeOK, K!Members, K!Rosters, K!Made, K!vars, K!serverVars, K!keyVars, K!deviceVars, K!history
  <2>2. /\ UNCHANGED <<scene, K!keyVars, task, memory, stored, persisted, owed, used>>
        /\ pinned' = pinned /\ pending' = pending /\ prepared' = prepared /\ met' = met
        /\ scene' = scene /\ memory' = memory /\ stored' = stored /\ persisted' = persisted
    BY <1>1 DEF K!vars, K!serverVars, K!deviceVars, K!history
  <2>3. \A d \in Devices : DeviceInv(d)' /\ met[d] \subseteq met'[d]
    BY <2>2, RowsStay, DeviceKeeps DEF KeysInv
  <2> QED
    BY <2>1, <2>2, <2>3, NothingMoves
<1>2. CASE (\E u \in Users : K!ChangeMember(u)) \/ (\E d \in Devices : K!Trust(d))
  BY <1>2, SurroundingsStep
<1>3. CASE \E d \in Devices : K!ApprovePeers(d) \/ K!Reload(d)
  BY <1>3, ApprovePeersStep, ReloadStep
<1>4. CASE \E d, e \in Devices : K!SyncKey(d, e)
  BY <1>4, SyncKeyStep
<1>5. ASSUME NEW t \in Tasks,
             \/ K!Prepare(t) \/ K!FetchSharedKey(t) \/ K!ReadPeers(t) \/ K!Decide(t) \/ K!Bootstrap(t)
             \/ K!Adopt(t) \/ K!ShareKey(t) \/ K!FinishSharing(t) \/ K!Send(t) \/ K!GiveUp(t)
      PROVE  KeysInv'
  BY <1>5, PrepareStep, FetchSharedKeyStep, ReadPeersStep, DecideStep, BootstrapStep, AdoptStep,
     ShareKeyStep, FinishSharingStep, SendStep, GiveUpStep
<1> QED
  BY <1>1, <1>2, <1>3, <1>4, <1>5 DEF K!Next

LEMMA Separate == KeysInv => K!KeysAreSeparate
<1> SUFFICES ASSUME KeysInv PROVE K!KeysAreSeparate
  OBVIOUS
<1>1. ASSUME scene.kind = "dm", NEW k \in K!Made, NEW l \in K!Made, owed[k] # {}, owed[l] # {}
      PROVE  k = l
  BY <1>1 DEF KeysInv, ChatInv
<1>2. ASSUME NEW k \in K!Made, NEW r \in used[k]
      PROVE  /\ used[k] = {r}
             /\ \A e \in Devices : k \in K!Rows(e) => r.members[UserOf[e]] # 0
  <2>1. scene.kind = "group"
    BY Kinds DEF KeysInv, ChatInv
  <2>2. used[k] \subseteq K!Rosters /\ \A q \in used[k] : Serves(k, q)
    BY DEF KeysInv, K!TypeOK, Serves
  <2> QED
    BY <2>1, <2>2 DEF KeysInv, GroupInv, ServesOne
<1> QED
  BY <1>1, <1>2 DEF K!KeysAreSeparate, KeysInv, K!OneKeyPerChat, K!NoReuse

(* Nothing takes a device's last copy of a key away.                       *)
LEMMA CopiesStay ==
  ASSUME KeysInv, [K!Next]_(K!vars), NEW e \in Devices
  PROVE  K!Rows(e) \subseteq K!Rows(e)'
<1>1. CASE UNCHANGED K!keyVars
  BY <1>1, RowsStay
<1>2. ASSUME NEW d \in Devices, NEW f \in Devices, NEW k \in K!Made, K!StoreShare(d, f, k)
      PROVE  K!Rows(e) \subseteq K!Rows(e)'
  BY <1>2, StoreFacts DEF KeysInv
<1>3. CASE \E d, f \in Devices : K!SyncKey(d, f)
  <2>1. PICK d \in Devices, f \in Devices : K!SyncKey(d, f)
    BY <1>3
  <2>2. PICK k \in K!Rows(d) : K!StoreShare(d, f, k)
    BY <2>1 DEF K!SyncKey
  <2>3. /\ share \in [Devices -> [Devices -> 0..MaxKeys]]
        /\ archive \in [Devices -> SUBSET K!Made]
    BY DEF KeysInv, K!TypeOK
  <2>4. CASE k \in archive[d]
    <3> QED
      BY <1>2, <2>1, <2>2, <2>3, <2>4
  <2>5. CASE \E c \in Devices : k = share[c][d] /\ k # K!NoKey
    <3>1. PICK c \in Devices : k = share[c][d] /\ k # K!NoKey
      BY <2>5
    <3>2. k \in 0..MaxKeys
      BY <2>1, <2>3, <3>1
    <3>3. k \in K!Made
      BY <3>1, <3>2, KeysAssumption DEF K!Made, K!NoKey
    <3> QED
      BY <1>2, <2>1, <2>2, <3>3
  <2> QED
    BY <2>2, <2>4, <2>5 DEF K!Rows
<1>4. ASSUME NEW t \in Tasks, K!ShareKey(t)
      PROVE  K!Rows(e) \subseteq K!Rows(e)'
  <2>1. PICK f \in task[t].todo : K!StoreShare(K!Me(t), f, task[t].key)
    BY <1>4 DEF K!ShareKey
  <2>2. f \in Devices /\ K!Me(t) \in Devices
    BY TypeFacts DEF KeysInv, TaskRec
  <2>3. task[t].key \in K!Made
    BY <1>4, TypeFacts, KeysAssumption DEF K!ShareKey, KeysInv, TaskInv, TaskRec, K!Made, K!NoKey
  <2> QED
    BY <1>2, <2>1, <2>2, <2>3
<1>5. ASSUME NEW t \in Tasks, K!Bootstrap(t), ~ UNCHANGED K!keyVars
      PROVE  K!Rows(e) \subseteq K!Rows(e)'
  <2>1. ~ K!HasKey
    BY <1>5 DEF K!Bootstrap, K!keyVars
  <2> QED
    BY <2>1 DEF KeysInv, K!HasKey, K!Rows
<1> QED
  <2>1. ASSUME NEW t \in Tasks,
               \/ K!Prepare(t) \/ K!FetchSharedKey(t) \/ K!ReadPeers(t) \/ K!Decide(t)
               \/ K!Adopt(t) \/ K!FinishSharing(t) \/ K!Send(t) \/ K!GiveUp(t)
        PROVE  UNCHANGED K!keyVars
    BY <2>1 DEF K!Prepare, K!FetchSharedKey, K!ReadPeers, K!Decide, K!Adopt, K!FinishSharing, K!Send, K!GiveUp
  <2>2. ASSUME NEW d \in Devices, K!Trust(d) \/ K!ApprovePeers(d) \/ K!Reload(d)
        PROVE  UNCHANGED K!keyVars
    BY <2>2 DEF K!Trust, K!ApprovePeers, K!Reload
  <2>3. ASSUME NEW u \in Users, K!ChangeMember(u)
        PROVE  UNCHANGED K!keyVars
    BY <2>3 DEF K!ChangeMember
  <2>4. UNCHANGED K!vars => UNCHANGED K!keyVars
    BY DEF K!vars
  <2> QED
    BY <1>1, <1>3, <1>4, <1>5, <2>1, <2>2, <2>3, <2>4 DEF K!Next

(* Messages are prepared for devices that have the key.                    *)
LEMMA SentReadable ==
  ASSUME KeysInv, [K!Next]_(K!vars), NEW k \in K!Made, NEW e \in owed'[k]
  PROVE  e \in owed[k] \/ (e \in Devices /\ k \in K!Rows(e))
<1>1. CASE owed' = owed
  BY <1>1
<1>2. ASSUME NEW t \in Tasks, K!Send(t)
      PROVE  e \in owed[k] \/ (e \in Devices /\ k \in K!Rows(e))
  <2>1. PICK d \in Devices : d = K!Me(t)
    BY TypeFacts DEF KeysInv
  <2>2. /\ task[t].pc = "ready" /\ task[t].seen # Nobody /\ K!Own(d) # K!NoKey
        /\ \A f \in task[t].seen.devices : K!Own(d) \in K!Rows(f)
        /\ owed' = [owed EXCEPT ![K!Own(d)] = @ \cup task[t].seen.devices]
    BY <1>2, <2>1 DEF K!Send, KeysInv, TaskInv, K!TypeOK
  <2>3. task[t].seen.devices \subseteq Devices
    BY <2>2, TypeFacts DEF KeysInv, TaskRec, K!Rosters
  <2>4. owed \in [K!Made -> SUBSET Devices]
    BY DEF KeysInv, K!TypeOK
  <2> QED
    BY <2>2, <2>3, <2>4
<1> QED
  <2>1. ASSUME NEW t \in Tasks,
               \/ K!Prepare(t) \/ K!FetchSharedKey(t) \/ K!ReadPeers(t) \/ K!Decide(t) \/ K!Bootstrap(t)
               \/ K!Adopt(t) \/ K!ShareKey(t) \/ K!FinishSharing(t) \/ K!GiveUp(t)
        PROVE  owed' = owed
    BY <2>1 DEF K!Prepare, K!FetchSharedKey, K!ReadPeers, K!Decide, K!Bootstrap, K!Adopt, K!ShareKey,
                K!FinishSharing, K!GiveUp, K!history
  <2>2. ASSUME NEW d \in Devices, K!Trust(d) \/ K!ApprovePeers(d) \/ K!Reload(d)
        PROVE  owed' = owed
    BY <2>2 DEF K!Trust, K!ApprovePeers, K!Reload, K!history
  <2>3. ASSUME NEW d \in Devices, NEW f \in Devices, K!SyncKey(d, f)
        PROVE  owed' = owed
    BY <2>3 DEF K!SyncKey, K!history
  <2>4. ASSUME NEW u \in Users, K!ChangeMember(u)
        PROVE  owed' = owed
    BY <2>4 DEF K!ChangeMember, K!history
  <2>5. UNCHANGED K!vars => owed' = owed
    BY DEF K!vars, K!history
  <2> QED
    BY <1>1, <1>2, <2>1, <2>2, <2>3, <2>4, <2>5 DEF K!Next

LEMMA ReadableStep == KeysInv /\ K!Readable /\ [K!Next]_(K!vars) => K!Readable'
<1> SUFFICES ASSUME KeysInv, K!Readable, [K!Next]_(K!vars) PROVE K!Readable'
  OBVIOUS
<1>1. K!Made' = K!Made /\ \A k \in K!Made : owed[k] \subseteq Devices
  BY DEF K!Made, KeysInv, K!TypeOK
<1>2. ASSUME NEW k \in K!Made, NEW e \in owed'[k]
      PROVE  k \in K!Rows(e)'
  <2>1. e \in Devices /\ k \in K!Rows(e)
    BY <1>1, SentReadable DEF K!Readable
  <2> QED
    BY <2>1, CopiesStay
<1> QED
  BY <1>1, <1>2 DEF K!Readable

(* The devices that get a copy are known, or the user's own, or the first. *)
LEMMA SharingStep ==
  ASSUME KeysInv, K!Next, NEW d \in Devices, NEW e \in Devices,
         share'[d][e] # share[d][e], UserOf[d] # UserOf[e], pinned[d] # Nobody
  PROVE  e \in met[d]
<1>1. share \in [Devices -> [Devices -> 0..MaxKeys]]
  BY DEF KeysInv, K!TypeOK
<1>2. ASSUME NEW c \in Devices, NEW f \in Devices, NEW k, K!StoreShare(c, f, k)
      PROVE  c = d /\ f = e
  BY <1>1, <1>2 DEF K!StoreShare
<1>3. ASSUME NEW t \in Tasks, K!ShareKey(t)
      PROVE  e \in met[d]
  <2>1. PICK f \in task[t].todo : K!StoreShare(K!Me(t), f, task[t].key)
    BY <1>3 DEF K!ShareKey
  <2>2. f \in Devices /\ K!Me(t) \in Devices
    BY TypeFacts DEF KeysInv, TaskRec
  <2>3. K!Me(t) = d /\ f = e
    BY <1>2, <2>1, <2>2
  <2>4. task[t].todo \subseteq task[t].seen.devices /\ K!Peers(d, task[t].seen) \subseteq met[d]
    BY <1>3, <2>3 DEF K!ShareKey, KeysInv, TaskInv
  <2> QED
    BY <2>1, <2>3, <2>4 DEF K!Peers
<1>4. ASSUME NEW c \in Devices, NEW f \in Devices, K!SyncKey(c, f)
      PROVE  FALSE
  BY <1>2, <1>4 DEF K!SyncKey
<1>5. ASSUME NEW t \in Tasks, K!Bootstrap(t)
      PROVE  FALSE
  <2>1. K!Me(t) \in Devices
    BY TypeFacts DEF KeysInv
  <2>2. ~ K!HasKey
    BY <1>5 DEF K!Bootstrap
  <2>3. Saved(d) # {}
    BY TypeFacts DEF KeysInv, K!TypeOK
  <2> QED
    BY <2>2, <2>3 DEF KeysInv, DeviceInv
<1>6. ASSUME NEW t \in Tasks,
             \/ K!Prepare(t) \/ K!FetchSharedKey(t) \/ K!ReadPeers(t) \/ K!Decide(t)
             \/ K!Adopt(t) \/ K!FinishSharing(t) \/ K!Send(t) \/ K!GiveUp(t)
      PROVE  FALSE
  BY <1>6 DEF K!Prepare, K!FetchSharedKey, K!ReadPeers, K!Decide, K!Adopt, K!FinishSharing, K!Send, K!GiveUp, K!keyVars
<1>7. ASSUME NEW c \in Devices, K!Trust(c) \/ K!ApprovePeers(c) \/ K!Reload(c)
      PROVE  FALSE
  BY <1>7 DEF K!Trust, K!ApprovePeers, K!Reload, K!keyVars
<1>8. ASSUME NEW u \in Users, K!ChangeMember(u)
      PROVE  FALSE
  BY <1>8 DEF K!ChangeMember, K!keyVars
<1> QED
  BY <1>3, <1>4, <1>5, <1>6, <1>7, <1>8 DEF K!Next

LEMMA ChatPart == [PartsNext]_<<part, vars, chatVars>> => [K!Next]_(K!vars)
  BY DEF PartsNext, chatVars, K!vars, K!serverVars, K!keyVars, K!deviceVars, K!history

(* The invariant of the chat's keys among the other parts.                 *)
THEOREM KeysInvariance == PartsSpec => []KeysInv
<1>1. PartsInit => KeysInv
  BY KeysInitially DEF PartsInit
<1>2. KeysInv /\ [PartsNext]_<<part, vars, chatVars>> => KeysInv'
  BY ChatPart, KeysStep
<1> QED
  BY <1>1, <1>2, PTL DEF PartsSpec

(* However the preparations of several devices cross, a direct chat's      *)
(* messages have one key, and a group's key serves one roster and is with  *)
(* its members only (bootstrapConversationKey, rotateConversationKey).     *)
THEOREM KeysStaySeparate == PartsSpec => []KeysAreSeparate
<1>1. KeysInv => KeysAreSeparate
  BY Separate DEF KeysAreSeparate
<1> QED
  BY <1>1, KeysInvariance, PTL

(* Whoever a message was prepared for finds its key, whichever copies were *)
(* replaced since (shareKey, the archive of conversation-keys POST).       *)
THEOREM SentStaysReadable == PartsSpec => []Readable
<1>1. PartsInit => Readable
  BY DEF PartsInit, Readable, K!Init, K!Readable
<1>2. KeysInv /\ Readable /\ [PartsNext]_<<part, vars, chatVars>> => Readable'
  BY ChatPart, ReadableStep DEF Readable
<1> QED
  BY <1>1, <1>2, KeysInvariance, PTL DEF PartsSpec

(* After the first contact a device hands keys to no peer's device that    *)
(* its user has not known (prepareConversation, approvePeerKeyChange).     *)
THEOREM SharedToKnown == PartsSpec => SharesOnlyToKnown
<1>1. KeysInv /\ [PartsNext]_<<part, vars, chatVars>> =>
        [\A d, e \in Devices :
           share'[d][e] # share[d][e] /\ UserOf[d] # UserOf[e] /\ pinned[d] # Nobody
             => e \in met[d]]_(K!vars)
  BY ChatPart, SharingStep
<1> QED
  BY <1>1, KeysInvariance, PTL DEF PartsSpec, SharesOnlyToKnown, K!SharesOnlyToKnown

-----------------------------------------------------------------------------
(* The inductive invariant                                                 *)

KeyRow == [known : BOOLEAN, trusted : BOOLEAN, session : Sessions \cup {Nobody},
           first : BOOLEAN, era : Eras]
SessionRow == [state : {"none", "live", "revoked"}, pending : BOOLEAN, era : Eras]
LinkRow == [state : {"none", "pending", "approved", "rejected", "revoked", "expired"},
            kind : {"qr", "code", "exchanged"}, key : Keys \cup {Nobody},
            session : Sessions \cup {Nobody}, source : Keys \cup {Nobody}]
ProofRow == [kind : {"none", "spent"}]
       \cup [kind : {"bind", "recover"}, key : Keys, session : Sessions]
       \cup [kind : {"approve", "reject"}, source : Keys, target : Keys,
             link : Links \cup {Nobody}]

(* A device is registered when it is trusted, was the first one, or waits  *)
(* for a link request or an approval to be answered.                       *)
Registrations ==
  /\ \A k \in Keys : key[k].trusted \/ key[k].first => key[k].known
  /\ \A p \in Proofs : proof[p].kind = "approve" => key[proof[p].target].known
  /\ \A l \in Links : link[l].state = "pending" => link[l].key \in Keys /\ key[link[l].key].known

(* A link request that may still be answered has not been.                 *)
Decisions ==
  \A l \in Links : decided[l] \in {0, 1}
                   /\ (link[l].state \in {"none", "pending"} => decided[l] = 0)

IInv ==
  /\ TypeOK
  /\ Registrations
  /\ Decisions
  /\ OneFirstKey
  /\ TrustIsCurrent
  /\ ApprovalIsCurrent

USE DEF vars, rows
USE TrustAssumption

-----------------------------------------------------------------------------
(* The operators that the steps are built from                             *)

LEMMA Types ==
  ASSUME TypeOK
  PROVE  /\ key \in [Keys -> KeyRow] /\ session \in [Sessions -> SessionRow]
         /\ link \in [Links -> LinkRow] /\ proof \in [Proofs -> ProofRow]
         /\ mail \in [state : {"none", "fresh", "used"}, key : Keys \cup {Nobody},
                      session : Sessions \cup {Nobody}]
         /\ asked \in [Keys -> {Nobody} \cup [by : Sessions, prior : BOOLEAN]]
         /\ era \in Nat /\ era \in Eras
         /\ decided \in [Links -> 0..2]
  BY DEF TypeOK, KeyRow, SessionRow, LinkRow, ProofRow, Eras

(* A row with some of its columns written.                                 *)
LEMMA KeyBound ==
  ASSUME NEW r \in KeyRow, NEW x \in Sessions \cup {Nobody}
  PROVE  /\ [r EXCEPT !.session = x] \in KeyRow
         /\ [r EXCEPT !.session = x].known = r.known /\ [r EXCEPT !.session = x].first = r.first
         /\ [r EXCEPT !.session = x].trusted = r.trusted /\ [r EXCEPT !.session = x].era = r.era
  BY DEF KeyRow

LEMMA KeyTrusted ==
  ASSUME NEW r \in KeyRow, NEW e \in Eras
  PROVE  /\ [r EXCEPT !.trusted = TRUE, !.era = e] \in KeyRow
         /\ [r EXCEPT !.trusted = TRUE, !.era = e].known = r.known
         /\ [r EXCEPT !.trusted = TRUE, !.era = e].first = r.first
         /\ [r EXCEPT !.trusted = TRUE, !.era = e].era = e
  BY DEF KeyRow

LEMMA KeyDropped ==
  ASSUME NEW r \in KeyRow
  PROVE  /\ [r EXCEPT !.trusted = FALSE] \in KeyRow
         /\ [r EXCEPT !.trusted = FALSE].known = r.known
         /\ [r EXCEPT !.trusted = FALSE].first = r.first
         /\ ~ [r EXCEPT !.trusted = FALSE].trusted
  BY DEF KeyRow

LEMMA SessionRows ==
  ASSUME NEW r \in SessionRow, NEW e \in Eras
  PROVE  /\ [r EXCEPT !.state = "live", !.pending = TRUE] \in SessionRow
         /\ [r EXCEPT !.state = "live", !.pending = TRUE].pending
         /\ [r EXCEPT !.pending = FALSE, !.era = e] \in SessionRow
         /\ [r EXCEPT !.pending = FALSE, !.era = e].era = e
  BY DEF SessionRow

LEMMA LinkRows ==
  ASSUME NEW r \in LinkRow, NEW k \in Keys
  PROVE  /\ [r EXCEPT !.kind = "exchanged", !.source = k] \in LinkRow
         /\ [r EXCEPT !.kind = "exchanged", !.source = k].state = r.state
         /\ [r EXCEPT !.kind = "exchanged", !.source = k].key = r.key
  BY DEF LinkRow

(* What a proof names.                                                     *)
LEMMA ProofFields ==
  ASSUME TypeOK, NEW p \in Proofs
  PROVE  /\ proof[p].kind \in {"bind", "recover"} =>
              proof[p].key \in Keys /\ proof[p].session \in Sessions
         /\ proof[p].kind \in {"approve", "reject"} =>
              /\ proof[p].source \in Keys /\ proof[p].target \in Keys
              /\ proof[p].link \in Links \cup {Nobody}
  BY Types DEF ProofRow

(* A proof that is handed out, or spent, approves a registered device.     *)
Sound(q) == q \in ProofRow /\ (q.kind = "approve" => key[q.target].known)

LEMMA ProofsSound ==
  ASSUME TypeOK, Registrations, NEW p \in Proofs
  PROVE  /\ Spend(p) => /\ proof' \in [Proofs -> ProofRow]
                        /\ \A r \in Proofs : Sound(proof'[r])
         /\ \A q : Sound(q) /\ HandOut(p, q) =>
                 /\ proof' \in [Proofs -> ProofRow]
                 /\ \A r \in Proofs : Sound(proof'[r])
<1>1. Sound([kind |-> "spent"])
  BY DEF Sound, ProofRow
<1>2. proof \in [Proofs -> ProofRow] /\ \A r \in Proofs : Sound(proof[r])
  BY Types DEF Sound, Registrations
<1>3. ASSUME NEW q, Sound(q), proof' = [proof EXCEPT ![p] = q]
      PROVE  /\ proof' \in [Proofs -> ProofRow]
             /\ \A r \in Proofs : Sound(proof'[r])
  <2>1. q \in ProofRow
    BY <1>3 DEF Sound
  <2>2. \A r \in Proofs : proof'[r] = IF r = p THEN q ELSE proof[r]
    BY <1>2, <1>3
  <2> QED
    BY <1>2, <1>3, <2>1, <2>2
<1>4. Spend(p) => proof' = [proof EXCEPT ![p] = [kind |-> "spent"]]
  BY DEF Spend
<1>5. \A q : HandOut(p, q) => proof' = [proof EXCEPT ![p] = q]
  BY DEF HandOut
<1> QED
  BY <1>1, <1>3, <1>4, <1>5

(* Sessions that end, trust that is dropped and requests that are revoked  *)
(* keep what the invariant says of the rest.                               *)
LEMMA EndingSessions ==
  ASSUME TypeOK, NEW S
  PROVE  /\ EndSessions(S) \in [Sessions -> SessionRow]
         /\ \A s \in Sessions : EndSessions(S)[s].state = "live" =>
              EndSessions(S)[s] = session[s] /\ s \notin S
<1>1. ASSUME NEW s \in Sessions
      PROVE  /\ EndSessions(S)[s] \in SessionRow
             /\ EndSessions(S)[s].state = "live" => EndSessions(S)[s] = session[s] /\ s \notin S
  <2>1. session[s] \in SessionRow
    BY Types
  <2>2. CASE s \in S /\ Live(s)
    <3> DEFINE r == [session[s] EXCEPT !.state = "revoked", !.pending = FALSE, !.era = 0]
    <3>1. EndSessions(S)[s] = r
      BY <2>2 DEF EndSessions
    <3>2. 0 \in Eras
      BY DEF Eras
    <3>3. r \in SessionRow /\ r.state = "revoked"
      BY <2>1, <3>2 DEF SessionRow
    <3> QED
      BY <3>1, <3>3
  <2>3. CASE ~ (s \in S /\ Live(s))
    BY <2>1, <2>3 DEF EndSessions, Live
  <2> QED
    BY <2>2, <2>3
<1>2. EndSessions(S) = [s \in Sessions |-> EndSessions(S)[s]]
  BY DEF EndSessions
<1> QED
  BY <1>1, <1>2

LEMMA DroppingTrust ==
  ASSUME TypeOK, NEW S
  PROVE  /\ DropTrust(S) \in [Keys -> KeyRow]
         /\ \A k \in Keys : /\ DropTrust(S)[k].known = key[k].known
                            /\ DropTrust(S)[k].first = key[k].first
                            /\ DropTrust(S)[k].era = key[k].era
                            /\ DropTrust(S)[k].trusted => key[k].trusted
<1>1. ASSUME NEW k \in Keys
      PROVE  /\ DropTrust(S)[k] \in KeyRow
             /\ DropTrust(S)[k].known = key[k].known
             /\ DropTrust(S)[k].first = key[k].first
             /\ DropTrust(S)[k].era = key[k].era
             /\ DropTrust(S)[k].trusted => key[k].trusted
  <2>1. key[k] \in KeyRow
    BY Types
  <2>2. DropTrust(S)[k] \in {key[k], [key[k] EXCEPT !.trusted = FALSE]}
    BY DEF DropTrust
  <2> QED
    BY <2>1, <2>2 DEF KeyRow
<1>2. DropTrust(S) = [k \in Keys |-> DropTrust(S)[k]]
  BY DEF DropTrust
<1> QED
  BY <1>1, <1>2

LEMMA RevokingLinks ==
  ASSUME TypeOK, NEW L
  PROVE  /\ RevokeLinks(L) \in [Links -> LinkRow]
         /\ \A l \in Links : RevokeLinks(L)[l].state \in {"none", "pending"} =>
              RevokeLinks(L)[l] = link[l]
  BY Types DEF RevokeLinks, LinkRow

-----------------------------------------------------------------------------
(* The steps                                                               *)

LEMMA Initially == Init => IInv
<1> SUFFICES ASSUME Init PROVE IInv
  OBVIOUS
<1>1. TypeOK
  BY DEF Init, TypeOK, NoProof, NoMail, Eras
<1>2. Registrations /\ Decisions
  BY DEF Init, NoProof, Registrations, Decisions
<1>3. OneFirstKey /\ TrustIsCurrent
  BY DEF Init, OneFirstKey, TrustIsCurrent, Trusted
<1>4. ApprovalIsCurrent
  BY DEF Init, ApprovalIsCurrent, Live
<1> QED
  BY <1>1, <1>2, <1>3, <1>4 DEF IInv

(* Sessions begin and end, with the trust and the requests bound to them.  *)
LEMMA EndStep ==
  ASSUME IInv, NEW S, EndSession(S)
  PROVE  IInv'
<1> USE DEF EndSession
<1>1. TypeOK'
  BY EndingSessions, Types DEF IInv, TypeOK, SessionRow
<1>2. Registrations' /\ Decisions' /\ OneFirstKey' /\ TrustIsCurrent'
  BY DEF IInv, Registrations, Decisions, OneFirstKey, TrustIsCurrent, Trusted
<1>3. ApprovalIsCurrent'
  BY EndingSessions DEF IInv, ApprovalIsCurrent, Live
<1> QED
  BY <1>1, <1>2, <1>3 DEF IInv

LEMMA LessTrusted ==
  ASSUME TypeOK, Registrations, UNCHANGED proof,
         \A k \in Keys : /\ key[k].known => key'[k].known
                         /\ key'[k].trusted => key[k].trusted
                         /\ key'[k].first => key[k].first,
         \A l \in Links : link'[l].state = "pending" => link'[l] = link[l]
  PROVE  Registrations'
<1>1. \A r \in Proofs : proof[r].kind = "approve" => proof[r].target \in Keys
  BY ProofFields
<1>2. \A k \in Keys : key'[k].trusted \/ key'[k].first => key'[k].known
  BY DEF Registrations
<1>3. \A r \in Proofs : proof'[r].kind = "approve" => key'[proof'[r].target].known
  BY <1>1 DEF Registrations
<1>4. \A l \in Links : link'[l].state = "pending" => link'[l].key \in Keys /\ key'[link'[l].key].known
  BY DEF Registrations
<1> QED
  BY <1>2, <1>3, <1>4 DEF Registrations

LEMMA RevokeStep ==
  ASSUME IInv, NEW S, RevokeDevice(S)
  PROVE  IInv'
<1> USE DEF RevokeDevice
<1>1. session' \in [Sessions -> SessionRow] /\ key' \in [Keys -> KeyRow] /\ link' \in [Links -> LinkRow]
  BY EndingSessions, DroppingTrust, RevokingLinks DEF IInv
<1>2. Registrations'
  <2>1. \A k \in Keys : /\ key[k].known => key'[k].known
                        /\ key'[k].trusted => key[k].trusted
                        /\ key'[k].first => key[k].first
    BY DroppingTrust DEF IInv
  <2>2. \A l \in Links : link'[l].state = "pending" => link'[l] = link[l]
    BY RevokingLinks DEF IInv
  <2>3. UNCHANGED proof
    OBVIOUS
  <2> QED
    BY <2>1, <2>2, <2>3, LessTrusted DEF IInv
<1>3. TypeOK'
  BY <1>1, <1>2, Types DEF IInv, TypeOK, Registrations, KeyRow, SessionRow, LinkRow
<1>4. Decisions'
  BY RevokingLinks DEF IInv, Decisions
<1>5. OneFirstKey'
  BY DroppingTrust DEF IInv, OneFirstKey
<1>6. TrustIsCurrent'
  BY DroppingTrust DEF IInv, TrustIsCurrent, Trusted
<1>7. ApprovalIsCurrent'
  BY EndingSessions DEF IInv, ApprovalIsCurrent, Live
<1> QED
  BY <1>2, <1>3, <1>4, <1>5, <1>6, <1>7 DEF IInv

LEMMA SessionStep ==
  ASSUME IInv, NEW s \in Sessions, IssueSession(s) \/ Revoke(s) \/ EndSession({s})
  PROVE  IInv'
<1>1. CASE IssueSession(s)
  <2> USE <1>1 DEF IssueSession
  <2> DEFINE r == [session[s] EXCEPT !.state = "live", !.pending = TRUE]
  <2>1. session[s] \in SessionRow /\ s \in DOMAIN session /\ 0 \in Eras
    BY Types DEF IInv, Eras
  <2>2. session' = [session EXCEPT ![s] = r] /\ r \in SessionRow /\ r.pending
    BY <2>1, SessionRows
  <2> HIDE DEF r
  <2>3. Registrations' /\ Decisions' /\ OneFirstKey' /\ TrustIsCurrent'
    BY DEF IInv, Registrations, Decisions, OneFirstKey, TrustIsCurrent, Trusted
  <2>4. session' \in [Sessions -> SessionRow]
    BY <2>2, Types DEF IInv
  <2>5. TypeOK'
    BY <2>4 DEF IInv, TypeOK, SessionRow
  <2>6. \A t \in Sessions : session'[t] = session[t] \/ session'[t].pending
    BY <2>2, Types DEF IInv
  <2>7. ApprovalIsCurrent'
    BY <2>6 DEF IInv, ApprovalIsCurrent, Live
  <2> QED
    BY <2>3, <2>5, <2>7 DEF IInv
<1> QED
  BY <1>1, RevokeStep, EndStep DEF Revoke

LEMMA AskRegisterStep ==
  ASSUME IInv, NEW k \in Keys, NEW s \in Sessions, AskRegister(k, s)
  PROVE  IInv'
<1> USE DEF AskRegister
<1>1. TypeOK'
  BY DEF IInv, TypeOK, Registered
<1>2. Registrations' /\ Decisions' /\ OneFirstKey' /\ TrustIsCurrent' /\ ApprovalIsCurrent'
  BY DEF IInv, Registrations, Decisions, OneFirstKey, TrustIsCurrent, Trusted, ApprovalIsCurrent, Live
<1> QED
  BY <1>1, <1>2 DEF IInv

(* The first key finds no other one under the lock of the account.         *)
LEMMA RegisterStep ==
  ASSUME IInv, NEW k \in Keys, Register(k)
  PROVE  IInv'
<1> USE DEF Register
<1>1. asked[k] \in [by : Sessions, prior : BOOLEAN]
  BY DEF IInv, TypeOK
<1>2. key' \in [Keys -> KeyRow]
  BY <1>1, Types DEF IInv, KeyRow, Eras
<1>3. Registrations'
  BY <1>2, Types DEF IInv, Registrations, KeyRow
<1>4. TypeOK'
  BY <1>1, <1>2, <1>3, Types DEF IInv, TypeOK, Registrations, KeyRow
<1>5. Decisions'
  BY DEF IInv, Decisions
<1>6. OneFirstKey'
  BY <1>2, Types DEF IInv, OneFirstKey, Registrations, Registered, KeyRow
<1>7. TrustIsCurrent'
  BY Types DEF IInv, TrustIsCurrent, Trusted, KeyRow
<1>8. ApprovalIsCurrent'
  BY DEF IInv, ApprovalIsCurrent, Live
<1> QED
  BY <1>3, <1>4, <1>5, <1>6, <1>7, <1>8 DEF IInv

(* A link request is made, exchanged or expires.                           *)
LEMMA LinkingStep ==
  ASSUME IInv, NEW l \in Links, Linking(l)
  PROVE  IInv'
<1>1. ASSUME NEW k \in Keys, NEW s \in Sessions, NEW kind \in {"qr", "code"}, RequestLink(l, k, s, kind)
      PROVE  link' \in [Links -> LinkRow] /\ Registrations' /\ Decisions'
  <2> USE <1>1 DEF RequestLink
  <2> DEFINE asks == [state |-> "pending", kind |-> kind, key |-> k, session |-> s, source |-> Nobody]
  <2>1. ASSUME NEW m \in Links
        PROVE  /\ link'[m] \in LinkRow
               /\ m # l => link'[m] = link[m] \/ link'[m].state = "revoked"
    <3>1. link[m] \in LinkRow /\ asks \in LinkRow
      BY Types DEF IInv, LinkRow
    <3>2. /\ [link[m] EXCEPT !.state = "revoked"] \in LinkRow
          /\ [link[m] EXCEPT !.state = "revoked"].state = "revoked"
      BY <3>1 DEF LinkRow
    <3> QED
      BY <3>1, <3>2
  <2>2. link' \in [Links -> LinkRow]
    BY <2>1
  <2>3. link'[l] = asks
    OBVIOUS
  <2>4. Registrations'
    BY <2>1, <2>3 DEF IInv, Registrations, Pending
  <2>5. Decisions'
    BY <2>1, <2>3 DEF IInv, Decisions
  <2> QED
    BY <2>2, <2>4, <2>5
<1>2. ASSUME NEW k \in Keys, NEW s \in Sessions, ExchangeCode(l, k, s)
      PROVE  link' \in [Links -> LinkRow] /\ Registrations' /\ Decisions'
  <2> USE <1>2 DEF ExchangeCode
  <2> DEFINE r == [link[l] EXCEPT !.kind = "exchanged", !.source = k]
  <2>1. link[l] \in LinkRow /\ l \in DOMAIN link
    BY Types DEF IInv
  <2>2. /\ link' = [link EXCEPT ![l] = r] /\ r \in LinkRow
        /\ r.state = link[l].state /\ r.key = link[l].key
    BY <2>1, LinkRows
  <2> HIDE DEF r
  <2> HIDE DEF ExchangeCode
  <2>3. /\ link' \in [Links -> LinkRow]
        /\ \A m \in Links : link'[m].state = link[m].state /\ link'[m].key = link[m].key
    BY <2>2, Types DEF IInv
  <2>4. UNCHANGED <<key, proof, decided>>
    BY DEF ExchangeCode
  <2> QED
    BY <2>3, <2>4 DEF IInv, Registrations, Decisions
<1>3. ASSUME ExpireLink(l)
      PROVE  link' \in [Links -> LinkRow] /\ Registrations' /\ Decisions'
  <2> USE <1>3 DEF ExpireLink
  <2>1. link' \in [Links -> LinkRow]
    BY Types DEF IInv, LinkRow
  <2>2. \A m \in Links : link'[m] = link[m] \/ link'[m].state = "expired"
    BY Types DEF IInv, LinkRow
  <2> QED
    BY <2>1, <2>2 DEF IInv, Registrations, Decisions
<1>4. link' \in [Links -> LinkRow] /\ Registrations' /\ Decisions'
  BY <1>1, <1>2, <1>3 DEF Linking
<1>5. UNCHANGED <<key, session, mail, proof, asked, era, decided>>
  BY DEF Linking, RequestLink, ExchangeCode, ExpireLink
<1>6. TypeOK'
  BY <1>4, <1>5, Types DEF IInv, TypeOK, LinkRow, Registrations
<1>7. OneFirstKey' /\ TrustIsCurrent' /\ ApprovalIsCurrent'
  BY <1>5 DEF IInv, OneFirstKey, TrustIsCurrent, Trusted, ApprovalIsCurrent, Live
<1> QED
  BY <1>4, <1>6, <1>7 DEF IInv

(* A proof is handed out or lost.                                          *)
LEMMA ChallengeStep ==
  ASSUME IInv, NEW p \in Proofs, Challenge(p) \/ LoseProof(p)
  PROVE  IInv'
<1>1. Spend(p) \/ \E q : Sound(q) /\ HandOut(p, q)
  <2>1. ASSUME NEW k \in Keys, NEW s \in Sessions, ChallengeBind(p, k, s) \/ ChallengeRecovery(p, k, s)
        PROVE  \E q : Sound(q) /\ HandOut(p, q)
    <3>1. \A kind \in {"bind", "recover"} : Sound([kind |-> kind, key |-> k, session |-> s])
      BY DEF Sound, ProofRow
    <3> QED
      BY <2>1, <3>1 DEF ChallengeBind, ChallengeRecovery
  <2>2. ASSUME NEW k \in Keys, NEW l \in Links, ChallengeLink(p, k, l)
        PROVE  \E q : Sound(q) /\ HandOut(p, q)
    <3>1. link[l].key \in Keys /\ key[link[l].key].known
      BY <2>2 DEF IInv, Registrations, ChallengeLink
    <3>2. \A kind \in {"approve", "reject"} :
            Sound([kind |-> kind, source |-> k, target |-> link[l].key, link |-> l])
      BY <3>1 DEF Sound, ProofRow
    <3> QED
      BY <2>2, <3>2 DEF ChallengeLink
  <2>3. ASSUME NEW k \in Keys, NEW target \in Keys, ChallengeDirect(p, k, target)
        PROVE  \E q : Sound(q) /\ HandOut(p, q)
    <3>1. Sound([kind |-> "approve", source |-> k, target |-> target, link |-> Nobody])
      BY <2>3 DEF Sound, ProofRow, ChallengeDirect
    <3> QED
      BY <2>3, <3>1 DEF ChallengeDirect
  <2> QED
    BY <2>1, <2>2, <2>3 DEF Challenge, LoseProof
<1>2. proof' \in [Proofs -> ProofRow] /\ \A r \in Proofs : Sound(proof'[r])
  BY <1>1, ProofsSound DEF IInv
<1>3. mail' = mail \/ mail' = [mail EXCEPT !.state = "used"]
  BY DEF Challenge, ChallengeBind, ChallengeLink, ChallengeDirect, ChallengeRecovery, LoseProof
<1>4. UNCHANGED <<key, session, link, asked, era, decided>>
  BY DEF Challenge, ChallengeBind, ChallengeLink, ChallengeDirect, ChallengeRecovery, LoseProof
<1>5. TypeOK'
  <2>1. mail' \in [state : {"none", "fresh", "used"}, key : Keys \cup {Nobody}, session : Sessions \cup {Nobody}]
    BY <1>3, Types DEF IInv
  <2> QED
    BY <1>2, <1>4, <2>1 DEF IInv, TypeOK, ProofRow
<1>6. Registrations'
  BY <1>2, <1>4 DEF IInv, Registrations, Sound
<1>7. Decisions' /\ OneFirstKey' /\ TrustIsCurrent' /\ ApprovalIsCurrent'
  BY <1>4 DEF IInv, Decisions, OneFirstKey, TrustIsCurrent, Trusted, ApprovalIsCurrent, Live
<1> QED
  BY <1>5, <1>6, <1>7 DEF IInv

(* A code is mailed to the owner of the account.                           *)
LEMMA MailStep ==
  ASSUME IInv, NEW k \in Keys, NEW s \in Sessions, IssueRecoveryEmail(k, s)
  PROVE  IInv'
<1> USE DEF IssueRecoveryEmail
<1>1. TypeOK'
  BY DEF IInv, TypeOK
<1>2. Registrations' /\ Decisions' /\ OneFirstKey' /\ TrustIsCurrent' /\ ApprovalIsCurrent'
  BY DEF IInv, Registrations, Decisions, OneFirstKey, TrustIsCurrent, Trusted, ApprovalIsCurrent, Live
<1> QED
  BY <1>1, <1>2 DEF IInv

(* Whoever ends the wait for approval holds a key that is trusted now.     *)
LEMMA BindStep ==
  ASSUME IInv, NEW p \in Proofs, Bind(p)
  PROVE  IInv'
<1> DEFINE q == proof[p]
<1> USE DEF Bind
<1>1. q.key \in Keys /\ q.session \in Sessions
  BY ProofFields DEF IInv
<1>2. Spend(p)
  OBVIOUS
<1>3. proof' \in [Proofs -> ProofRow] /\ \A r \in Proofs : Sound(proof'[r])
  BY <1>2, ProofsSound DEF IInv
<1>4. /\ key' \in [Keys -> KeyRow]
      /\ \A k \in Keys : /\ key'[k].known = key[k].known /\ key'[k].trusted = key[k].trusted
                         /\ key'[k].first = key[k].first /\ key'[k].era = key[k].era
  <2> DEFINE r == [key[q.key] EXCEPT !.session = q.session]
  <2>1. key[q.key] \in KeyRow /\ 0 \in Eras
    BY <1>1, Types DEF IInv, Eras
  <2>2. r \in KeyRow /\ r.known = key[q.key].known /\ r.trusted = key[q.key].trusted
        /\ r.first = key[q.key].first /\ r.era = key[q.key].era
    BY <1>1, <2>1, KeyBound
  <2>3. key' = key \/ key' = [key EXCEPT ![q.key] = r]
    OBVIOUS
  <2> HIDE DEF r
  <2> QED
    BY <1>1, <2>2, <2>3, Types DEF IInv
<1>5. /\ session' \in [Sessions -> SessionRow]
      /\ \A s \in Sessions : \/ session'[s] = session[s]
                             \/ key[q.key].trusted /\ session'[s].era = key[q.key].era
  <2> DEFINE r == [session[q.session] EXCEPT !.pending = FALSE, !.era = key[q.key].era]
  <2>1. session[q.session] \in SessionRow /\ key[q.key].era \in Eras /\ q.session \in DOMAIN session
    BY <1>1, Types DEF IInv, KeyRow
  <2>2. r \in SessionRow /\ r.era = key[q.key].era
    BY <2>1, SessionRows
  <2>3. session' = session \/ (key[q.key].trusted /\ session' = [session EXCEPT ![q.session] = r])
    BY <2>1
  <2> HIDE DEF r
  <2> QED
    BY <1>1, <2>2, <2>3, Types DEF IInv
<1>6. Registrations'
  <2>1. \A r \in Proofs : proof'[r].kind = "approve" => proof'[r].target \in Keys
    BY <1>3 DEF ProofRow
  <2> QED
    BY <1>3, <1>4, <2>1 DEF IInv, Registrations, Sound
<1>7. Decisions' /\ OneFirstKey' /\ TrustIsCurrent'
  BY <1>4 DEF IInv, Decisions, OneFirstKey, TrustIsCurrent, Trusted
<1>8. ApprovalIsCurrent'
  BY <1>1, <1>5 DEF IInv, ApprovalIsCurrent, TrustIsCurrent, Trusted, Live
<1>9. TypeOK'
  BY <1>3, <1>4, <1>5, <1>6, Types DEF IInv, TypeOK, Registrations, KeyRow, SessionRow, ProofRow
<1> QED
  BY <1>6, <1>7, <1>8, <1>9 DEF IInv

(* Trust is handed on by a device that is trusted now, and a request is    *)
(* decided while it waits.                                                 *)
LEMMA DecisionStep ==
  ASSUME IInv, NEW p \in Proofs, Approve(p) \/ Reject(p)
  PROVE  IInv'
<1> DEFINE q == proof[p]
<1>1. q.source \in Keys /\ q.target \in Keys /\ q.link \in Links \cup {Nobody}
  BY ProofFields DEF IInv, Approve, Reject
<1>2. Spend(p)
  BY DEF Approve, Reject
<1>3. UNCHANGED <<session, mail, asked, era>>
  BY DEF Approve, Reject
<1>4. \/ UNCHANGED <<link, decided>>
      \/ /\ q.link \in Links /\ link[q.link].state = "pending" /\ Decide(q.link)
         /\ \E answer \in {"approved", "rejected"} : link' = [link EXCEPT ![q.link].state = answer]
  <2>1. CASE Approve(p)
    BY <1>1, <2>1 DEF Approve, Undecided
  <2>2. CASE Reject(p)
    <3>1. CASE q.link = Nobody
      BY <2>2, <3>1, Types DEF IInv, Reject, Decide
    <3>2. CASE q.link # Nobody
      BY <1>1, <2>2, <3>2 DEF Reject, Undecided
    <3> QED
      BY <3>1, <3>2
  <2> QED
    BY <2>1, <2>2
<1> DEFINE Answered ==
      /\ link' \in [Links -> LinkRow] /\ decided' \in [Links -> 0..2] /\ Decisions'
      /\ \A l \in Links : link'[l].key = link[l].key
                          /\ (link'[l].state = "pending" => link[l].state = "pending")
<1>5. Answered
  <2>1. CASE UNCHANGED <<link, decided>>
    BY <2>1, Types DEF IInv, Decisions
  <2>2. ASSUME q.link \in Links, link[q.link].state = "pending", Decide(q.link),
               NEW answer \in {"approved", "rejected"}, link' = [link EXCEPT ![q.link].state = answer]
        PROVE  Answered
    <3>1. decided[q.link] = 0
      BY <2>2 DEF IInv, Decisions
    <3>2. decided' = [decided EXCEPT ![q.link] = 1]
      BY <2>2, <3>1, Types DEF IInv, Decide
    <3> QED
      BY <2>2, <3>2, Types DEF IInv, Decisions, LinkRow
  <2> QED
    BY <1>4, <2>1, <2>2
<1>6. \/ UNCHANGED key
      \/ /\ key[q.source].trusted /\ q.kind = "approve"
         /\ key' = [key EXCEPT ![q.target].trusted = TRUE, ![q.target].era = key[q.source].era]
  BY DEF Approve, Reject
<1>7. /\ key' \in [Keys -> KeyRow]
      /\ \A k \in Keys : /\ key'[k].known = key[k].known /\ key'[k].first = key[k].first
                         /\ key'[k].trusted => key'[k].known
                         /\ key'[k].trusted => key'[k].era = era
  <2>1. \A k \in Keys : key[k].trusted => key[k].known /\ key[k].era = era
    BY DEF IInv, Registrations, TrustIsCurrent, Trusted
  <2>2. q.kind = "approve" => key[q.target].known
    BY DEF IInv, Registrations
  <2> DEFINE r == [key[q.target] EXCEPT !.trusted = TRUE, !.era = key[q.source].era]
  <2>3. key[q.target] \in KeyRow /\ key[q.source].era \in Eras /\ q.target \in DOMAIN key
    BY <1>1, Types DEF IInv, KeyRow
  <2>4. r \in KeyRow /\ r.known = key[q.target].known /\ r.first = key[q.target].first
        /\ r.era = key[q.source].era
    BY <2>3, KeyTrusted
  <2>5. \/ key' = key
        \/ key[q.source].trusted /\ q.kind = "approve" /\ key' = [key EXCEPT ![q.target] = r]
    BY <1>6, <2>3
  <2> HIDE DEF r
  <2> QED
    BY <1>1, <2>1, <2>2, <2>4, <2>5, Types DEF IInv
<1>8. proof' \in [Proofs -> ProofRow] /\ \A r \in Proofs : Sound(proof'[r])
  BY <1>2, ProofsSound DEF IInv
<1>9. Registrations'
  <2>1. \A r \in Proofs : proof'[r].kind = "approve" => proof'[r].target \in Keys
    BY <1>8 DEF ProofRow
  <2> QED
    BY <1>5, <1>7, <1>8, <2>1 DEF IInv, Registrations, Sound
<1>10. TypeOK'
  BY <1>3, <1>5, <1>7, <1>8, <1>9 DEF IInv, TypeOK, Registrations, KeyRow, LinkRow, ProofRow
<1>11. OneFirstKey' /\ TrustIsCurrent' /\ ApprovalIsCurrent'
  BY <1>3, <1>7 DEF IInv, OneFirstKey, TrustIsCurrent, Trusted, ApprovalIsCurrent, Live
<1> QED
  BY <1>5, <1>9, <1>10, <1>11 DEF IInv

(* A recovery leaves one trusted key, one live session and no link request *)
(* that waits.                                                             *)
LEMMA RecoverStep ==
  ASSUME IInv, NEW p \in Proofs, Recover(p)
  PROVE  IInv'
<1> DEFINE q == proof[p]
<1> USE DEF Recover
<1>1. q.key \in Keys /\ q.session \in Sessions
  BY ProofFields DEF IInv
<1>2. Spend(p)
  OBVIOUS
<1>3. /\ proof' \in [Proofs -> ProofRow] /\ \A r \in Proofs : Sound(proof'[r])
      /\ \A r \in Proofs : proof'[r].kind = "approve" => proof'[r].target \in Keys
  BY <1>2, ProofsSound DEF IInv, ProofRow
<1>4. CASE ~ Pending(q.key, q.session)
  <2>1. UNCHANGED <<key, session, link, era, mail, asked, decided>>
    BY <1>4
  <2> HIDE DEF Recover, q
  <2>2. TypeOK'
    BY <1>3, <2>1 DEF IInv, TypeOK, ProofRow
  <2>3. Registrations'
    BY <1>3, <2>1 DEF IInv, Registrations, Sound
  <2>4. Decisions' /\ OneFirstKey' /\ TrustIsCurrent' /\ ApprovalIsCurrent'
    BY <2>1 DEF IInv, Decisions, OneFirstKey, TrustIsCurrent, Trusted, ApprovalIsCurrent, Live
  <2> QED
    BY <2>2, <2>3, <2>4 DEF IInv
<1>5. CASE Pending(q.key, q.session)
  <2>1. era' = era + 1 /\ era' \in Eras /\ UNCHANGED <<mail, asked, decided>>
    <3>1. era \in Nat /\ era <= MaxRecovery /\ MaxRecovery \in Nat
      BY Types DEF IInv, TrustAssumption
    <3>2. era' = era + 1 /\ UNCHANGED <<mail, asked, decided>>
      BY <1>5
    <3>3. era + 1 \in Eras
      <4> HIDE DEF Recover
      <4> QED
        BY <3>1 DEF Eras
    <3> QED
      BY <3>2, <3>3
  <2>2. /\ key' \in [Keys -> KeyRow]
        /\ \A k \in Keys : /\ key'[k].known = key[k].known /\ key'[k].first = key[k].first
                           /\ key'[k].trusted => k = q.key /\ key'[k].era = era'
    <3>1. key' = [k \in Keys |-> IF k = q.key THEN [key[k] EXCEPT !.trusted = TRUE, !.era = era']
                                ELSE [key[k] EXCEPT !.trusted = FALSE]]
      BY <1>5, <2>1
    <3>2. ASSUME NEW k \in Keys
          PROVE  /\ [key[k] EXCEPT !.trusted = TRUE, !.era = era'] \in KeyRow
                 /\ [key[k] EXCEPT !.trusted = TRUE, !.era = era'].known = key[k].known
                 /\ [key[k] EXCEPT !.trusted = TRUE, !.era = era'].first = key[k].first
                 /\ [key[k] EXCEPT !.trusted = TRUE, !.era = era'].era = era'
                 /\ [key[k] EXCEPT !.trusted = FALSE] \in KeyRow
                 /\ [key[k] EXCEPT !.trusted = FALSE].known = key[k].known
                 /\ [key[k] EXCEPT !.trusted = FALSE].first = key[k].first
                 /\ ~ [key[k] EXCEPT !.trusted = FALSE].trusted
      <4>1. key[k] \in KeyRow
        BY Types DEF IInv
      <4> QED
        BY <2>1, <4>1, KeyTrusted, KeyDropped
    <3> QED
      BY <3>1, <3>2
  <2>3. /\ session' \in [Sessions -> SessionRow]
        /\ \A s \in Sessions : session'[s].state = "live" => session'[s].era = era'
    <3> DEFINE others == EndSessions(Sessions \ {q.session})
               r == [others[q.session] EXCEPT !.pending = FALSE, !.era = era']
    <3>1. /\ others \in [Sessions -> SessionRow]
          /\ \A s \in Sessions : others[s].state = "live" => s = q.session
      <4> DEFINE S == Sessions \ {q.session}
      <4>1. /\ EndSessions(S) \in [Sessions -> SessionRow]
            /\ \A s \in Sessions : EndSessions(S)[s].state = "live" => s \notin S
        BY EndingSessions DEF IInv
      <4> QED
        BY <4>1
    <3>2. session' = [others EXCEPT ![q.session] = r]
      BY <1>1, <1>5, <2>1, <3>1
    <3>3. r \in SessionRow /\ r.era = era'
      BY <1>1, <2>1, <3>1, SessionRows
    <3> HIDE DEF others, r
    <3> QED
      BY <1>1, <3>1, <3>2, <3>3
  <2>4. /\ link' \in [Links -> LinkRow]
        /\ \A l \in Links : link'[l].state \in {"none", "pending"} => link'[l] = link[l]
    <3> DEFINE L == {l \in Links : link[l].state = "pending"}
    <3>1. link' = RevokeLinks(L)
      BY <1>5
    <3> HIDE DEF L
    <3> QED
      BY <3>1, RevokingLinks DEF IInv
  <2>5. Registrations'
    <3>1. \A k \in Keys : key'[k].trusted \/ key'[k].first => key'[k].known
      BY <1>5, <2>2 DEF IInv, Registrations, Pending
    <3>2. \A r \in Proofs : proof'[r].kind = "approve" => key'[proof'[r].target].known
      BY <1>3, <2>2 DEF Sound
    <3>3. \A l \in Links : link'[l].state = "pending" => link'[l].key \in Keys /\ key'[link'[l].key].known
      BY <2>2, <2>4 DEF IInv, Registrations
    <3> QED
      BY <3>1, <3>2, <3>3 DEF Registrations
  <2>6. TypeOK'
    <3>1. TypeOK
      BY DEF IInv
    <3> HIDE DEF Recover
    <3> QED
      BY <1>3, <2>1, <2>2, <2>3, <2>4, <2>5, <3>1 DEF TypeOK, Registrations, KeyRow, SessionRow, LinkRow, ProofRow
  <2>7. Decisions'
    BY <2>1, <2>4 DEF IInv, Decisions
  <2>8. OneFirstKey' /\ TrustIsCurrent' /\ ApprovalIsCurrent'
    BY <2>2, <2>3 DEF IInv, OneFirstKey, TrustIsCurrent, Trusted, ApprovalIsCurrent, Live
  <2> QED
    BY <2>5, <2>6, <2>7, <2>8 DEF IInv
<1> QED
  BY <1>4, <1>5

LEMMA Stutter ==
  ASSUME IInv, UNCHANGED vars
  PROVE  IInv'
BY DEF IInv, TypeOK, Registrations, Decisions, OneFirstKey, TrustIsCurrent, Trusted, ApprovalIsCurrent, Live

(* The inductive invariant: no trust is current without a registration, no *)
(* proof approves an unregistered device, and no request that waits was    *)
(* decided.                                                                *)
THEOREM Invariance == Spec => []IInv
<1>1. Init => IInv
  BY Initially
<1>2. IInv /\ [Next]_vars => IInv'
  <2> SUFFICES ASSUME IInv, [Next]_vars
               PROVE  IInv'
    OBVIOUS
  <2>1. CASE \E s \in Sessions : IssueSession(s) \/ Revoke(s) \/ EndSession({s})
    BY <2>1, SessionStep
  <2>2. CASE EndSession(Sessions)
    BY <2>2, EndStep
  <2>3. CASE \E k \in Keys : Register(k)
    BY <2>3, RegisterStep
  <2>4. CASE \E k \in Keys, s \in Sessions : AskRegister(k, s) \/ IssueRecoveryEmail(k, s)
    BY <2>4, AskRegisterStep, MailStep
  <2>5. CASE \E l \in Links : Linking(l)
    BY <2>5, LinkingStep
  <2>6. CASE \E p \in Proofs : Challenge(p) \/ Bind(p) \/ Approve(p) \/ Reject(p) \/ Recover(p) \/ LoseProof(p)
    BY <2>6, ChallengeStep, BindStep, DecisionStep, RecoverStep
  <2>7. CASE UNCHANGED vars
    BY <2>7, Stutter
  <2> QED
    BY <2>1, <2>2, <2>3, <2>4, <2>5, <2>6, <2>7 DEF Next
<1> QED
  BY <1>1, <1>2, PTL DEF Spec

(* Of the browsers that register at once one is trusted without approval,  *)
(* and a link request is decided once (keys POST, approve POST).           *)
THEOREM Granted == Spec => []GrantedOnce
<1>1. IInv => GrantedOnce
  BY DEF IInv, Decisions, GrantedOnce, DecidedOnce
<1> QED
  BY <1>1, Invariance, PTL

(* Every trusted key descends from the last recovery, whichever proofs of  *)
(* older trusted devices are still to be presented (approve POST).         *)
THEOREM TrustDescends == Spec => []TrustIsCurrent
  BY Invariance, PTL DEF IInv

(* Every full session has proved a key of the trust that is current        *)
(* (approve POST: bind-session, recover).                                  *)
THEOREM ApprovalDescends == Spec => []ApprovalIsCurrent
  BY Invariance, PTL DEF IInv
=============================================================================
