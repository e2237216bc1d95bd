----------------------------- MODULE Communities -----------------------------
(* One community, its members and its channels.  Every channel is a group  *)
(* conversation, so each change of the community's members has to reach    *)
(* every channel, while the channel's own members add, remove and promote  *)
(* one another as in any group (GroupMembership).  A transaction on the    *)
(* community holds its row and locks the channels one after another.  A    *)
(* definition named Bug... is a plausible defect of one below it, for the  *)
(* mutants.                                                                *)
EXTENDS Naturals, FiniteSets

CONSTANTS
  Users,     \* people with an account when the community is created
  Channels,  \* channels that may be created
  Txs,       \* transactions on the community that may be open at once
  MaxOwn,    \* bound: channels at once that their own members changed or deleted,
             \* and memberships that they changed
  NoOne

VARIABLES
  people,    \* rows of users
  member,    \* community_members.role, "none" without a row
  founder,   \* communities.created_by
  public,    \* communities.is_public
  channel,   \* the group conversation of each channel
  work,      \* what each open transaction was called with, and its progress
  touched    \* history: memberships of a channel changed in its group alone; who
             \* hands it over may own the community, and is its admin as before

vars == <<people, member, founder, public, channel, work, touched>>

Roles == {"owner", "admin", "member", "none"}

Ops == {"join", "edit", "role", "remove", "leave", "transfer", "create"}

Idle == [op |-> "none", left |-> {}]

Work == [op : Ops, by : Users, to : Users, role : {"admin", "member"},
         channel : Channels \cup {NoOne}, left : SUBSET Channels, seen : [Users -> Roles]]

NoGroup == [exists |-> FALSE, role |-> [u \in Users |-> "none"],
            creator |-> NoOne, deleted |-> FALSE]

Linked == {c \in Channels : channel[c].exists}

(* The type of every variable; rows belong to accounts that exist.         *)
TypeOK ==
  /\ people \subseteq Users /\ member \in [Users -> Roles]
  /\ founder \in people \cup {NoOne} /\ public \in BOOLEAN
  /\ channel \in [Channels -> [exists : BOOLEAN, role : [Users -> Roles],
                               creator : Users \cup {NoOne}, deleted : BOOLEAN]]
  /\ work \in [Txs -> Work \cup {Idle}]
  /\ touched \subseteq Channels \X Users
  /\ \A u \in Users \ people :
       member[u] = "none" /\ \A c \in Channels : channel[c].role[u] = "none"

-----------------------------------------------------------------------------
(* createCommunity.                                                        *)
Init ==
  /\ people = Users
  /\ founder \in Users
  /\ member = [u \in Users |-> IF u = founder THEN "owner" ELSE "none"]
  /\ public \in BOOLEAN
  /\ channel = [c \in Channels |-> NoGroup]
  /\ work = [t \in Txs |-> Idle]
  /\ touched = {}

(* The channel as a group: the checks of its own operations.               *)
G(c) == INSTANCE GroupMembership WITH
          accounts <- people, role <- channel[c].role, creator <- channel[c].creator,
          deleted <- channel[c].deleted, restricted <- {"editInfo"},
          info <- 0, link <- <<>>, tx <- work,
          Links <- {}, MaxUses <- 1, Infos <- {0}, Policies <- {}

Unlocked == \A t \in Txs : work[t] = Idle

(* The conversation rows an open transaction has locked.                   *)
Held(t) == IF work[t].op \in {"none", "create"} THEN {} ELSE Linked \ work[t].left

(* What each operation asks of the caller and the target, under the lock   *)
(* of the community's row and, but for a join, of its members' rows.       *)
MayChange(w) ==
  /\ w.op = "join" => member[w.by] = "none" /\ public
  /\ w.op # "join" => member[w.by] # "none"
  /\ w.op \in {"edit", "create"} => member[w.by] \in {"owner", "admin"}
  /\ w.op \in {"role", "remove", "leave", "transfer"} =>
       member[w.to] \in {"admin", "member"}
  /\ w.op = "leave" => w.to = w.by
  /\ w.op \in {"role", "transfer"} => member[w.by] = "owner"
  /\ w.op = "remove" => /\ w.to # w.by /\ member[w.by] \in {"owner", "admin"}
                        /\ member[w.by] = "admin" => member[w.to] = "member"
  /\ w.op = "create" => ~ channel[w.channel].exists

BeginUnder(t, free) ==
  /\ work[t] = Idle /\ free
  /\ \E w \in [op : Ops, by : people, to : Users, role : {"admin", "member"},
               channel : Channels \cup {NoOne}] :
       /\ w.op = "create" <=> w.channel # NoOne
       /\ MayChange(w)
       /\ w.op \notin {"role", "remove", "leave", "transfer"} => w.to = w.by
       /\ w.op # "role" => w.role = "member"
       /\ work' = [work EXCEPT ![t] =
            [op |-> w.op, by |-> w.by, to |-> w.to, role |-> w.role, channel |-> w.channel,
             left |-> IF w.op \in {"edit", "create"} THEN {} ELSE Linked,
             seen |-> IF w.op = "create" THEN member ELSE NoGroup.role]]
  /\ UNCHANGED <<people, member, founder, public, channel, touched>>

(* createChannel reads the members without locking the community first.    *)
BugBegin(t) == BeginUnder(t, TRUE)

(* The transaction waits for the community's row and makes its checks.     *)
Begin(t) == BeginUnder(t, Unlocked)

(* It locks the next channel's conversation.                               *)
LockChannel(t) ==
  /\ \E c \in work[t].left :
       /\ \A s \in Txs : c \notin Held(s)
       /\ work' = [work EXCEPT ![t].left = @ \ {c}]
  /\ UNCHANGED <<people, member, founder, public, channel, touched>>

Ends(t) ==
  /\ work[t] # Idle /\ work[t].left = {}
  /\ work' = [work EXCEPT ![t] = Idle]
  /\ UNCHANGED people

Sets(roles) ==  \* every linked channel's rows become roles(c)
  channel' = [c \in Channels |->
                IF c \in Linked THEN [channel[c] EXCEPT !.role = roles[c]] ELSE channel[c]]

(* joinCommunity: a member of the channel already stays what they are.     *)
JoinCommunity(t) ==
  LET u == work[t].by
      new == {c \in Linked : channel[c].role[u] = "none"}
  IN /\ work[t].op = "join" /\ Ends(t)
     /\ IF u \in people
        THEN /\ member' = [member EXCEPT ![u] = "member"]
             /\ Sets([c \in Linked |-> IF c \in new THEN [channel[c].role EXCEPT ![u] = "member"]
                                       ELSE channel[c].role])
             /\ touched' = touched \ (new \X {u})
        ELSE UNCHANGED <<member, channel, touched>>
     /\ UNCHANGED <<founder, public>>

EditCommunity(t) ==
  /\ work[t].op = "edit" /\ Ends(t)
  /\ public' \in BOOLEAN
  /\ UNCHANGED <<member, founder, channel, touched>>

ChangeRole(t) ==
  LET u == work[t].to
      in == {c \in Linked : channel[c].role[u] # "none"}
  IN /\ work[t].op = "role" /\ Ends(t)
     /\ member' = [member EXCEPT ![u] = work[t].role]
     /\ Sets([c \in Linked |-> IF c \in in THEN [channel[c].role EXCEPT ![u] = work[t].role]
                               ELSE channel[c].role])
     /\ touched' = touched \ (in \X {u})
     /\ UNCHANGED <<founder, public>>

(* Someone removes a member, or a member leaves: out of every channel too. *)
RemoveMember(t) ==
  LET u == work[t].to
  IN /\ work[t].op \in {"remove", "leave"} /\ Ends(t)
     /\ member' = [member EXCEPT ![u] = "none"]
     /\ Sets([c \in Linked |-> [channel[c].role EXCEPT ![u] = "none"]])
     /\ touched' = touched \ (Linked \X {u})
     /\ UNCHANGED <<founder, public>>

(* The new owner also becomes the owner, and the creator, of every channel,*)
(* whoever owned it; a member who had left the channel is put back.        *)
TransferCommunity(t) ==
  LET u == work[t].to
  IN /\ work[t].op = "transfer" /\ Ends(t)
     /\ member' = [member EXCEPT ![work[t].by] = "admin", ![u] = "owner"]
     /\ founder' = u
     /\ channel' = [c \in Channels |->
          IF c \notin Linked THEN channel[c]
          ELSE [channel[c] EXCEPT !.creator = u, !.role =
                  [v \in Users |-> IF v = u THEN "owner"
                                   ELSE IF @[v] = "owner" THEN "admin" ELSE @[v]]]]
     /\ touched' = touched \ (Linked \X {u})
     /\ UNCHANGED public

(* createChannel: the members it read become the group's; owner and admins *)
(* of the community are its admins, and it has no owner of its own.  An    *)
(* insert for an account that is gone fails the transaction.               *)
CreateChannel(t) ==
  LET seen == work[t].seen
  IN /\ work[t].op = "create" /\ Ends(t)
     /\ IF \A u \in Users : seen[u] # "none" => u \in people
        THEN channel' = [channel EXCEPT ![work[t].channel] =
               [exists |-> TRUE, creator |-> work[t].by, deleted |-> FALSE,
                role |-> [u \in Users |-> IF seen[u] = "owner" THEN "admin" ELSE seen[u]]]]
        ELSE UNCHANGED channel
     /\ UNCHANGED <<member, founder, public, touched>>

(* The client gives up, a lock conflict is broken or the process stops.    *)
Rollback(t) ==
  /\ work[t] # Idle
  /\ work' = [work EXCEPT ![t] = Idle]
  /\ UNCHANGED <<people, member, founder, public, channel, touched>>

-----------------------------------------------------------------------------
(* The channel's own members change it as a group, whatever the community  *)
(* says; the operation waits for the conversation's row.                   *)
GroupOps(c) ==
  {a \in [op : {"add", "remove", "transfer", "role", "leave"}, by : people, to : people,
          role : {"admin", "member"}] :
     /\ G(c)!Authorised(a)
     /\ a.op = "leave" => a.to = a.by
     /\ a.op = "add" => channel[c].role[a.to] = "none"
     /\ a.op # "role" => a.role = "member"}

Bounded ==
  /\ Cardinality(touched) <= MaxOwn
  /\ Cardinality({p[1] : p \in touched} \cup {c \in Channels : channel[c].deleted}) <= MaxOwn

ChangeChannel(c) ==
  /\ channel[c].exists /\ \A t \in Txs : c \notin Held(t)
  /\ \E a \in GroupOps(c) :
       /\ channel' = [channel EXCEPT
            ![c].role = [u \in Users |->
               IF u = a.to THEN CASE a.op \in {"add", "role"} -> a.role
                                  [] a.op = "transfer" -> "owner"
                                  [] OTHER -> "none"
               ELSE IF u = a.by /\ a.op = "transfer" THEN "admin" ELSE @[u]],
            ![c].creator = IF a.op = "transfer" THEN a.to ELSE @]
       /\ touched' = touched \cup {<<c, a.to>>}
  /\ Bounded'
  /\ UNCHANGED <<people, member, founder, public, work>>

DeleteChannelGroup(c) ==
  /\ channel[c].exists /\ \A t \in Txs : c \notin Held(t)
  /\ \E u \in people : G(c)!Authorised([op |-> "delete", by |-> u])
  /\ channel' = [channel EXCEPT ![c].deleted = TRUE]
  /\ UNCHANGED <<people, member, founder, public, work, touched>>
  /\ Bounded'

(* deleteAccount takes the account's rows with it.  It waits for every     *)
(* transaction that has locked one of them: all members' in most cases.    *)
DeleteAccount(u) ==
  /\ u \in people
  /\ \A t \in Txs : work[t] # Idle =>
       /\ work[t].op \in {"join", "create"} /\ u \notin {work[t].by, founder}
       /\ \A c \in Held(t) : channel[c].creator # u
  /\ people' = people \ {u}
  /\ member' = [member EXCEPT ![u] = "none"]
  /\ founder' = IF founder = u THEN NoOne ELSE founder
  /\ channel' = [c \in Channels |->
        [channel[c] EXCEPT !.role[u] = "none",
                           !.creator = IF @ = u THEN NoOne ELSE @]]
  /\ touched' = touched \ (Channels \X {u})
  /\ UNCHANGED <<public, work>>

Commit(t) ==
  \/ JoinCommunity(t) \/ EditCommunity(t) \/ ChangeRole(t) \/ RemoveMember(t)
  \/ TransferCommunity(t) \/ CreateChannel(t)

Next ==
  \/ \E t \in Txs : Begin(t) \/ LockChannel(t) \/ Commit(t) \/ Rollback(t)
  \/ \E c \in Channels : ChangeChannel(c) \/ DeleteChannelGroup(c)
  \/ \E u \in Users : DeleteAccount(u)

-----------------------------------------------------------------------------
(* The role a member of the community has in a channel nobody changed.     *)
RoleInChannel(r) ==
  CASE r = "owner" -> {"owner", "admin"} [] r = "admin" -> {"admin"}
    [] r = "member" -> {"member"} [] OTHER -> {"none"}

(* ChannelsFollow: whoever is, or is no longer, a member of the community  *)
(* is so in each of its channels, with the matching role, unless somebody  *)
(* changed that membership in the channel's group itself; and the          *)
(* community has one owner, its creator of record.  Channels created,      *)
(* joins, removals and transfers that overlap leave nobody out of a        *)
(* channel and nobody behind in one (createChannel, joinCommunity,         *)
(* manageCommunity).                                                       *)
ChannelsFollow ==
  /\ TypeOK
  /\ \A u \in Users : member[u] = "owner" <=> u = founder
  /\ \A c \in Linked, u \in Users :
       <<c, u>> \notin touched => channel[c].role[u] \in RoleInChannel(member[u])
=============================================================================
