-------------------------- MODULE GroupMembership --------------------------
(* One group conversation: its members and their roles, its permission     *)
(* flags, its invite links, and the transactions that change them.  Every  *)
(* such transaction locks the conversation row first (Begin), reads the    *)
(* rows that its checks need, and writes and commits later; between the    *)
(* two, other transactions and account deletions run.  Calls that the      *)
(* checks refuse change nothing and are left out.  A definition named      *)
(* Bug... is a variant of one below it with a plausible defect, for the    *)
(* mutants.                                                                *)
EXTENDS Naturals, FiniteSets

CONSTANTS
  Users,      \* people with an account when the group is created
  Links,      \* invite links that may be created
  MaxUses,    \* the maxUses of every link
  Infos,      \* values of the group's name, description and timer
  Policies,   \* settings of the permission flags to choose from
  Txs,        \* server transactions that may be open at once
  NoOne

ASSUME GroupAssumption ==
  /\ NoOne \notin Users
  /\ MaxUses \in Nat \ {0}
  /\ Infos # {}

ASSUME PolicyAssumption ==
  Policies \subseteq SUBSET {"addMembers", "editInfo", "sendMessages"}

VARIABLES
  accounts,    \* rows of users
  role,        \* conversation_members.role, "none" without a row
  creator,     \* conversations.created_by_id
  deleted,     \* conversations.deleted_at is set
  restricted,  \* actions the adminOnly... flags keep from members
  info,        \* conversations.name, description, disappearing_seconds
  link,        \* rows of group_invite_links
  tx           \* what each transaction that holds the row was called with

groupVars == <<role, creator, deleted, restricted, info, link>>
vars == <<groupVars, accounts, tx>>

Roles     == {"owner", "admin", "member"}
Managers  == {"owner", "admin"}
Actions   == {"addMembers", "editInfo", "sendMessages"}
LinkState == {"unborn", "live", "gone"}

Call ==      [op : {"add", "remove", "transfer"}, by : Users, to : Users]
        \cup [op : {"role"}, by : Users, to : Users, role : {"admin", "member"}]
        \cup [op : {"leave", "delete"}, by : Users]
        \cup [op : {"policy"}, by : Users, restricted : Policies]
        \cup [op : {"edit"}, by : Users, info : Infos]
        \cup [op : {"invite", "revoke", "join"}, by : Users, link : Links]
Hint == [op : {"hint"}, by : Users, link : Links]
Idle == [op |-> "none"]

(* The type of every variable, and the foreign keys: a membership, a       *)
(* creator and a live link belong to an account that exists.               *)
TypeOK ==
  /\ accounts \subseteq Users
  /\ role \in [Users -> Roles \cup {"none"}]
  /\ creator \in Users \cup {NoOne}
  /\ deleted \in BOOLEAN
  /\ restricted \subseteq Actions
  /\ info \in Infos
  /\ link \in [Links -> [state : LinkState, by : Users \cup {NoOne},
                         uses : Nat, expired : BOOLEAN]]
  /\ tx \in [Txs -> Call \cup Hint \cup {Idle}]
  /\ \A u \in Users : role[u] # "none" => u \in accounts
  /\ creator # NoOne => creator \in accounts
  /\ \A l \in Links : link[l].state = "live" => link[l].by \in accounts

-----------------------------------------------------------------------------
(* What a role may do, and the checks of each operation.                   *)

GroupAllows(r, action) ==
  \/ r \in Managers
  \/ r = "member" /\ action \in Actions \ restricted

MayRemove(a, u) ==
  /\ u # a
  /\ role[a] \in Managers
  /\ role[u] \in {"admin", "member"}
  /\ role[a] = "admin" => role[u] = "member"

MayJoin(l) ==
  /\ link[l].state = "live"
  /\ link[l].uses < MaxUses

(* The authority a call needs.                                             *)
Authorised(c) ==
  /\ ~ deleted
  /\ c.op # "join" => role[c.by] # "none"
  /\ \/ c.op = "add"      /\ GroupAllows(role[c.by], "addMembers")
     \/ c.op = "remove"   /\ MayRemove(c.by, c.to)
     \/ c.op = "role"     /\ role[c.by] = "owner"
                          /\ role[c.to] \in {"admin", "member"}
     \/ c.op = "transfer" /\ role[c.by] = "owner"
                          /\ role[c.to] # "none" /\ c.to # c.by
     \/ c.op = "leave"    /\ role[c.by] # "owner"
     \/ c.op = "delete"   /\ role[c.by] = "owner"
     \/ c.op = "policy"   /\ role[c.by] \in Managers
     \/ c.op = "edit"     /\ GroupAllows(role[c.by], "editInfo")
     \/ c.op = "invite"   /\ role[c.by] \in Managers
     \/ c.op = "revoke"   /\ role[c.by] \in Managers
     \/ c.op = "join"     /\ MayJoin(c.link)

(* The other reasons for which a call would change nothing.                *)
HasEffect(c) ==
  /\ c.op \in {"add", "join"} => role[IF c.op = "add" THEN c.to ELSE c.by] = "none"
  /\ c.op = "add"    => c.to \in accounts
  /\ c.op = "invite" => link[c.link].state = "unborn"
  /\ c.op = "revoke" => link[c.link].state = "live"
  /\ c.op = "join"   => ~ link[c.link].expired

(* A transaction past its checks holds the conversation row; it also holds *)
(* the caller's membership and the target's where it reads it, or the link *)
(* it joins through.  LockedRows: the accounts these rows belong to.       *)
Holding(t) == tx[t].op \notin {"none", "hint"}
Unlocked   == \A t \in Txs : ~ Holding(t)

LockedRows(c) ==
  IF c.op = "join" THEN {link[c.link].by}
  ELSE IF c.op \in {"remove", "role", "transfer"} THEN {c.by, c.to}
  ELSE IF c.op \in {"none", "hint"} THEN {} ELSE {c.by}

-----------------------------------------------------------------------------
(* createGroupConversation: the creator and at least one other member.     *)
Init ==
  /\ accounts = Users
  /\ creator \in Users
  /\ \E members \in SUBSET (Users \ {creator}) :
       /\ members # {}
       /\ role = [u \in Users |-> IF u = creator THEN "owner"
                                  ELSE IF u \in members THEN "member" ELSE "none"]
  /\ deleted = FALSE
  /\ restricted = {"editInfo"}
  /\ info \in Infos
  /\ link = [l \in Links |->
               [state |-> "unborn", by |-> NoOne, uses |-> 0, expired |-> FALSE]]
  /\ tx = [t \in Txs |-> Idle]

Ends(t) ==
  /\ tx' = [tx EXCEPT ![t] = Idle]
  /\ UNCHANGED accounts

(* Plausible defects of the operations below, for the mutants.             *)

(* The conversation row is not locked before the caller's row is read.     *)
BugNoLock(t) ==
  /\ tx[t] = Idle
  /\ \E c \in Call :
       /\ c.op # "join" /\ c.by \in accounts
       /\ Authorised(c) /\ HasEffect(c)
       /\ tx' = [tx EXCEPT ![t] = c]
  /\ UNCHANGED <<groupVars, accounts>>

(* The former owner keeps the role.                                        *)
BugNoDemotion(t) ==
  /\ tx[t].op = "transfer"
  /\ role' = [role EXCEPT ![tx[t].to] = "owner"]
  /\ creator' = tx[t].to
  /\ Ends(t)
  /\ UNCHANGED <<deleted, restricted, info, link>>

-----------------------------------------------------------------------------
(* lockGroupActor and the checks that follow it under the lock.            *)
Begin(t) ==
  /\ tx[t] = Idle /\ Unlocked
  /\ \E c \in Call :
       /\ c.op # "join" /\ c.by \in accounts
       /\ Authorised(c) /\ HasEffect(c)
       /\ tx' = [tx EXCEPT ![t] = c]
  /\ UNCHANGED <<groupVars, accounts>>

(* acceptGroupInvite reads the link once to find its group ...             *)
ReadHint(t) ==
  /\ tx[t] = Idle
  /\ \E u \in accounts, l \in Links :
       /\ link[l].state = "live"
       /\ tx' = [tx EXCEPT ![t] = [op |-> "hint", by |-> u, link |-> l]]
  /\ UNCHANGED <<groupVars, accounts>>

(* ... and again, with every check, once it holds the group and the link.  *)
BeginJoin(t) ==
  LET c == [op |-> "join", by |-> tx[t].by, link |-> tx[t].link]
  IN /\ tx[t].op = "hint" /\ Unlocked
     /\ tx' = [tx EXCEPT ![t] = IF Authorised(c) /\ HasEffect(c) THEN c ELSE Idle]
     /\ UNCHANGED <<groupVars, accounts>>

(* The insert of a membership fails when the account is gone by then.      *)
AddGroupMember(t) ==
  /\ tx[t].op = "add"
  /\ role' = IF tx[t].to \in accounts THEN [role EXCEPT ![tx[t].to] = "member"] ELSE role
  /\ Ends(t)
  /\ UNCHANGED <<creator, deleted, restricted, info, link>>

RemoveGroupMember(t) ==
  /\ tx[t].op = "remove"
  /\ role' = [role EXCEPT ![tx[t].to] = "none"]
  /\ Ends(t)
  /\ UNCHANGED <<creator, deleted, restricted, info, link>>

ChangeGroupRole(t) ==
  /\ tx[t].op = "role"
  /\ role' = [role EXCEPT ![tx[t].to] = tx[t].role]
  /\ Ends(t)
  /\ UNCHANGED <<creator, deleted, restricted, info, link>>

TransferGroupOwnership(t) ==
  /\ tx[t].op = "transfer"
  /\ role' = [role EXCEPT ![tx[t].by] = "admin", ![tx[t].to] = "owner"]
  /\ creator' = tx[t].to
  /\ Ends(t)
  /\ UNCHANGED <<deleted, restricted, info, link>>

LeaveGroup(t) ==
  /\ tx[t].op = "leave"
  /\ role' = [role EXCEPT ![tx[t].by] = "none"]
  /\ Ends(t)
  /\ UNCHANGED <<creator, deleted, restricted, info, link>>

DeleteGroup(t) ==
  /\ tx[t].op = "delete"
  /\ deleted' = TRUE
  /\ Ends(t)
  /\ UNCHANGED <<role, creator, restricted, info, link>>

(* saveGroupSettings: the permission flags need managePermissions, the     *)
(* name and description editInfo; setDisappearingMessages needs editInfo.  *)
SaveGroupPolicy(t) ==
  /\ tx[t].op = "policy"
  /\ restricted' = tx[t].restricted
  /\ Ends(t)
  /\ UNCHANGED <<role, creator, deleted, info, link>>

EditGroupInfo(t) ==
  /\ tx[t].op = "edit"
  /\ info' = tx[t].info
  /\ Ends(t)
  /\ UNCHANGED <<role, creator, deleted, restricted, link>>

CreateGroupInviteLink(t) ==
  /\ tx[t].op = "invite"
  /\ link' = [link EXCEPT ![tx[t].link] = [state |-> "live", by |-> tx[t].by,
                                            uses |-> 0, expired |-> FALSE]]
  /\ Ends(t)
  /\ UNCHANGED <<role, creator, deleted, restricted, info>>

RevokeGroupInviteLink(t) ==
  /\ tx[t].op = "revoke"
  /\ link' = [link EXCEPT ![tx[t].link].state = "gone"]
  /\ Ends(t)
  /\ UNCHANGED <<role, creator, deleted, restricted, info>>

AcceptGroupInvite(t) ==
  /\ tx[t].op = "join"
  /\ IF tx[t].by \in accounts
     THEN /\ role' = [role EXCEPT ![tx[t].by] = "member"]
          /\ link' = [link EXCEPT ![tx[t].link].uses = @ + 1]
     ELSE UNCHANGED <<role, link>>
  /\ Ends(t)
  /\ UNCHANGED <<creator, deleted, restricted, info>>

-----------------------------------------------------------------------------
(* deleteAccount removes the user row; the memberships and links of the    *)
(* account go with it and a group it created keeps no creator.  It waits   *)
(* for every row that an open transaction has locked.                      *)
DeleteAccount(u) ==
  /\ u \in accounts
  /\ u = creator => Unlocked
  /\ \A t \in Txs : u \notin LockedRows(tx[t])
  /\ accounts' = accounts \ {u}
  /\ role' = [role EXCEPT ![u] = "none"]
  /\ creator' = IF creator = u THEN NoOne ELSE creator
  /\ link' = [l \in Links |->
                IF link[l].state = "live" /\ link[l].by = u
                THEN [link[l] EXCEPT !.state = "gone"] ELSE link[l]]
  /\ UNCHANGED <<deleted, restricted, info, tx>>

(* A link's expiresAt passes.                                              *)
Expire(l) ==
  /\ link[l].state = "live" /\ ~ link[l].expired
  /\ link' = [link EXCEPT ![l].expired = TRUE]
  /\ UNCHANGED <<role, creator, deleted, restricted, info, accounts, tx>>

Commit(t) ==
  \/ AddGroupMember(t) \/ RemoveGroupMember(t) \/ ChangeGroupRole(t)
  \/ TransferGroupOwnership(t) \/ LeaveGroup(t) \/ DeleteGroup(t)
  \/ SaveGroupPolicy(t) \/ EditGroupInfo(t) \/ CreateGroupInviteLink(t)
  \/ RevokeGroupInviteLink(t) \/ AcceptGroupInvite(t)

(* A client gives up or the process stops: the transaction rolls back.     *)
Rollback(t) ==
  /\ tx[t] # Idle
  /\ tx' = [tx EXCEPT ![t] = Idle]
  /\ UNCHANGED <<groupVars, accounts>>

Next ==
  \/ \E t \in Txs : Begin(t) \/ ReadHint(t) \/ BeginJoin(t) \/ Commit(t) \/ Rollback(t)
  \/ \E u \in Users : DeleteAccount(u)
  \/ \E l \in Links : Expire(l)

Spec == Init /\ [][Next]_vars

-----------------------------------------------------------------------------
(* OneOwner: there is never a second owner, and the group names its owner  *)
(* as its creator until that account is deleted, however transfers, role   *)
(* changes and removals are interleaved (transferGroupOwnership,           *)
(* changeGroupRole, removeGroupMember).                                    *)
OneOwner ==
  \A u \in Users : role[u] = "owner" <=> u = creator

(* AuthorityIsCurrent: when an operation takes effect its caller still has *)
(* the role, and the group the flags and the link the uses left, that the  *)
(* operation needs; none is decided on a role that was lost meanwhile.     *)
AuthorityIsCurrent ==
  [][\A t \in Txs :
       (tx[t].op # "none" /\ groupVars' # groupVars /\ tx'[t] = Idle)
         => Authorised(tx[t])]_vars

(* InviteWithinLimit: concurrent joins never admit more people through a   *)
(* link than its maxUses (acceptGroupInvite).                              *)
InviteWithinLimit == \A l \in Links : link[l].uses <= MaxUses

(* DeletedIsFrozen: once its owner deleted a group nobody joins it and no  *)
(* role or setting of it changes; only accounts that cease to exist leave  *)
(* (the deletedAt check of every transaction, after its lock).             *)
DeletedIsFrozen ==
  [][deleted => /\ UNCHANGED <<deleted, restricted, info>>
                /\ \A u \in accounts' : role'[u] = role[u]]_vars
=============================================================================
