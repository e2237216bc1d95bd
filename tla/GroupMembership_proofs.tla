----------------------- MODULE GroupMembership_proofs -----------------------
(***************************************************************************)
(* A community's channels keep following its members, and a group's        *)
(* ownership, its invite limit and the currency of every caller's          *)
(* authority, for any number of users, links, channels and transactions.   *)
(***************************************************************************)
EXTENDS MCGroupMembership, TLAPS

-----------------------------------------------------------------------------
(* The community and its channels.                                         *)

ChannelRec == [exists : BOOLEAN, role : [Users -> C!Roles],
               creator : Users \cup {NoOne}, deleted : BOOLEAN]

(* The parts of ChannelsFollow.                                            *)
Founded == \A u \in Users : member[u] = "owner" <=> u = founder
Follows ==
  \A c \in C!Linked, u \in Users :
    <<c, u>> \notin touched => channel[c].role[u] \in C!RoleInChannel(member[u])

(* What the transaction on the community was called for still holds of its *)
(* members; for a new channel, the members that it read are the members,   *)
(* or one of them has no account any more.                                 *)
StillFor(w) ==
  /\ w.op \in {"role", "remove", "leave", "transfer"} => member[w.to] \in {"admin", "member"}
  /\ w.op \in {"role", "transfer"} => member[w.by] = "owner"
  /\ w.op = "join" => member[w.by] = "none"
  /\ w.op = "create" => \A u \in Users :
       w.seen[u] = member[u] \/ (w.seen[u] # "none" /\ u \notin people)

OneAtWork == \A s, t \in Txs : work[s] # C!Idle /\ work[t] # C!Idle => s = t

ChannelInv ==
  /\ C!ChannelsFollow /\ OneAtWork
  /\ \A t \in Txs : work[t] # C!Idle => StillFor(work[t])

LEMMA ChannelTypes ==
  ASSUME C!TypeOK
  PROVE  /\ people \subseteq Users /\ member \in [Users -> C!Roles]
         /\ founder \in people \cup {NoOne}
         /\ channel \in [Channels -> ChannelRec]
         /\ \A c \in Channels : channel[c] \in ChannelRec /\ channel[c].role \in [Users -> C!Roles]
         /\ work \in [Txs -> C!Work \cup {C!Idle}]
         /\ \A u \in Users \ people : /\ member[u] = "none"
                                      /\ \A c \in Channels : channel[c].role[u] = "none"
  <1>1. channel \in [Channels -> ChannelRec]
    BY DEF C!TypeOK, ChannelRec
  <1>2. \A c \in Channels : channel[c] \in ChannelRec /\ channel[c].role \in [Users -> C!Roles]
    BY <1>1 DEF ChannelRec
  <1>3. /\ people \subseteq Users /\ member \in [Users -> C!Roles]
        /\ founder \in people \cup {NoOne} /\ work \in [Txs -> C!Work \cup {C!Idle}]
    BY DEF C!TypeOK
  <1>4. \A u \in Users \ people : /\ member[u] = "none"
                                   /\ \A c \in Channels : channel[c].role[u] = "none"
    BY DEF C!TypeOK
  <1>5. QED
    BY <1>1, <1>2, <1>3, <1>4

(* A commit leaves no transaction open.                                    *)
LEMMA Ended ==
  ASSUME ChannelInv, NEW t \in Txs, C!Ends(t)
  PROVE  /\ \A s \in Txs : work'[s] = C!Idle
         /\ work' \in [Txs -> C!Work \cup {C!Idle}]
         /\ UNCHANGED people
  BY DEF ChannelInv, C!ChannelsFollow, C!TypeOK, OneAtWork, C!Ends

(* Then its effect on the members and the channels is all there is to show. *)
LEMMA CommitFollows ==
  ASSUME ChannelInv, NEW t \in Txs, C!Ends(t),
         member' \in [Users -> C!Roles], founder' \in people \cup {NoOne}, public' \in BOOLEAN,
         channel' \in [Channels -> ChannelRec], touched' \subseteq Channels \X Users,
         \A u \in Users \ people : /\ member'[u] = "none"
                                   /\ \A c \in Channels : channel'[c].role[u] = "none",
         Founded', Follows'
  PROVE  ChannelInv'
  <1>1. C!TypeOK'
    <2>1. people \subseteq Users
      BY DEF ChannelInv, C!ChannelsFollow, C!TypeOK
    <2>2. QED
      BY <2>1, Ended DEF C!TypeOK, ChannelRec
  <1>2. C!ChannelsFollow'
    BY <1>1 DEF C!ChannelsFollow, Founded, Follows
  <1>3. QED
    BY <1>2, Ended DEF ChannelInv, OneAtWork

(* A change of the members' rows of every channel.                         *)
LEMMA RolesSet ==
  ASSUME C!TypeOK, NEW roles, \A c \in C!Linked : roles[c] \in [Users -> C!Roles],
         C!Sets(roles)
  PROVE  /\ channel' \in [Channels -> ChannelRec] /\ C!Linked' = C!Linked
         /\ \A c \in C!Linked : channel'[c].role = roles[c]
         /\ \A c \in Channels \ C!Linked : channel'[c] = channel[c]
  <1>1. \A c \in Channels : channel[c] \in ChannelRec
    BY ChannelTypes
  <1>2. channel' = [c \in Channels |-> IF c \in C!Linked THEN [channel[c] EXCEPT !.role = roles[c]]
                                       ELSE channel[c]]
    BY DEF C!Sets
  <1>3. ASSUME NEW c \in C!Linked
        PROVE  /\ channel'[c] \in ChannelRec /\ channel'[c].role = roles[c]
               /\ channel'[c].exists = channel[c].exists
    <2>1. c \in Channels /\ channel[c] \in ChannelRec
      BY <1>1 DEF C!Linked
    <2>2. channel'[c] = [channel[c] EXCEPT !.role = roles[c]]
      BY <1>2, <2>1
    <2>3. QED
      BY <2>1, <2>2 DEF ChannelRec
  <1>4. \A c \in Channels \ C!Linked : channel'[c] = channel[c]
    BY <1>2
  <1>5. channel' \in [Channels -> ChannelRec]
    BY <1>1, <1>2, <1>3, <1>4
  <1>6. C!Linked' = C!Linked
    BY <1>3, <1>4 DEF C!Linked
  <1>7. QED
    BY <1>3, <1>4, <1>5, <1>6

LEMMA ChannelInitially == C!Init => ChannelInv
  <1> SUFFICES ASSUME C!Init PROVE ChannelInv
    OBVIOUS
  <1> USE DEF C!Init
  <1>1. C!NoGroup \in ChannelRec /\ C!NoGroup.exists = FALSE
        /\ \A u \in Users : C!NoGroup.role[u] = "none"
    BY DEF C!NoGroup, ChannelRec, C!Roles
  <1>2. channel \in [Channels -> ChannelRec] /\ C!Linked = {}
    BY <1>1 DEF C!Linked
  <1>3. member \in [Users -> C!Roles] /\ work \in [Txs -> C!Work \cup {C!Idle}]
    BY DEF C!Roles
  <1>4. C!TypeOK
    BY <1>2, <1>3 DEF C!TypeOK, ChannelRec
  <1>5. C!ChannelsFollow
    BY <1>2, <1>4 DEF C!ChannelsFollow
  <1>6. QED
    BY <1>5 DEF ChannelInv, OneAtWork

LEMMA JoinFollows ==
  ASSUME ChannelInv, NEW t \in Txs, C!JoinCommunity(t)
  PROVE  ChannelInv'
  <1> DEFINE u == work[t].by
             new == {c \in C!Linked : channel[c].role[u] = "none"}
             roles == [c \in C!Linked |->
                         IF c \in new THEN [channel[c].role EXCEPT ![u] = "member"]
                         ELSE channel[c].role]
  <1>1. C!TypeOK /\ Founded /\ Follows
    BY DEF ChannelInv, C!ChannelsFollow, Founded, Follows
  <1>2. work[t].op = "join" /\ C!Ends(t) /\ UNCHANGED <<founder, public>>
    BY DEF C!JoinCommunity
  <1>3. member[u] = "none"
    BY <1>2 DEF ChannelInv, StillFor, C!Idle
  <1>4. CASE u \in people
    <2>1. member' = [member EXCEPT ![u] = "member"] /\ C!Sets(roles)
          /\ touched' = touched \ (new \X {u})
      BY <1>4 DEF C!JoinCommunity
    <2>2. \A c \in C!Linked : roles[c] \in [Users -> C!Roles]
      BY <1>1, ChannelTypes DEF C!Linked, C!Roles
    <2>3. /\ channel' \in [Channels -> ChannelRec] /\ C!Linked' = C!Linked
          /\ \A c \in C!Linked : channel'[c].role = roles[c]
          /\ \A c \in Channels \ C!Linked : channel'[c] = channel[c]
      BY <1>1, <2>1, <2>2, RolesSet
    <2>4. u \in Users /\ u # founder
      BY <1>1, <1>3, <1>4, ChannelTypes DEF Founded
    <2>5. member' \in [Users -> C!Roles] /\ member'[u] = "member"
          /\ \A v \in Users \ {u} : member'[v] = member[v]
      BY <1>1, <2>1, <2>4, ChannelTypes DEF C!Roles
    <2>6. \A c \in C!Linked : /\ channel'[c].role[u] = IF c \in new THEN "member" ELSE channel[c].role[u]
                              /\ \A v \in Users \ {u} : channel'[c].role[v] = channel[c].role[v]
      <3>1. ASSUME NEW c \in C!Linked
            PROVE  /\ channel[c].role \in [Users -> C!Roles]
                   /\ channel'[c].role = IF c \in new THEN [channel[c].role EXCEPT ![u] = "member"]
                                         ELSE channel[c].role
        BY <1>1, <2>3, ChannelTypes DEF C!Linked
      <3>2. QED
        BY <2>4, <3>1
    <2>7. Founded'
      BY <1>1, <1>2, <2>4, <2>5 DEF Founded
    <2>8. Follows'
      <3>1. ASSUME NEW c \in C!Linked, <<c, u>> \notin touched' PROVE channel'[c].role[u] = "member"
        <4>1. c \notin new => <<c, u>> \notin touched /\ channel[c].role[u] # "none"
          BY <2>1, <3>1
        <4>2. c \in new
          BY <1>1, <1>3, <2>4, <4>1 DEF Follows, C!RoleInChannel
        <4>3. QED
          BY <2>6, <4>2
      <3>2. \A c \in C!Linked, v \in Users \ {u} : <<c, v>> \notin touched' => <<c, v>> \notin touched
        BY <2>1
      <3>3. QED
        BY <1>1, <2>3, <2>5, <2>6, <3>1, <3>2 DEF Follows, C!RoleInChannel
    <2>9. \A v \in Users \ people : /\ member'[v] = "none"
                                    /\ \A c \in Channels : channel'[c].role[v] = "none"
      BY <1>1, <1>4, <2>3, <2>5, <2>6, ChannelTypes
    <2>10. QED
      BY <1>1, <1>2, <2>1, <2>3, <2>5, <2>7, <2>8, <2>9, CommitFollows DEF C!TypeOK
  <1>5. CASE u \notin people
    <2>1. UNCHANGED <<member, channel, touched>>
      BY <1>5 DEF C!JoinCommunity
    <2>2. Founded' /\ Follows'
      BY <1>1, <1>2, <2>1 DEF Founded, Follows, C!Linked
    <2>3. QED
      BY <1>1, <1>2, <2>1, <2>2, CommitFollows, ChannelTypes DEF C!TypeOK
  <1>6. QED
    BY <1>4, <1>5

LEMMA EditFollows ==
  ASSUME ChannelInv, NEW t \in Txs, C!EditCommunity(t)
  PROVE  ChannelInv'
  <1>1. C!TypeOK /\ Founded /\ Follows
    BY DEF ChannelInv, C!ChannelsFollow, Founded, Follows
  <1>2. C!Ends(t) /\ public' \in BOOLEAN /\ UNCHANGED <<member, founder, channel, touched>>
    BY DEF C!EditCommunity
  <1>3. Founded' /\ Follows'
    BY <1>1, <1>2 DEF Founded, Follows, C!Linked
  <1>4. QED
    BY <1>1, <1>2, <1>3, CommitFollows, ChannelTypes DEF C!TypeOK

(* One member's role in the community and in the channels in becomes r.    *)
LEMMA OneRoleFollows ==
  ASSUME ChannelInv, NEW t \in Txs, C!Ends(t), UNCHANGED <<founder, public>>,
         NEW u \in Users, member[u] \in {"admin", "member"},
         NEW r \in {"admin", "member", "none"}, NEW in \in SUBSET C!Linked,
         \A c \in C!Linked \ in : channel[c].role[u] = "none",
         member' = [member EXCEPT ![u] = r],
         C!Sets([c \in C!Linked |-> IF c \in in THEN [channel[c].role EXCEPT ![u] = r]
                                    ELSE channel[c].role]),
         touched' = touched \ (in \X {u})
  PROVE  ChannelInv'
  <1> DEFINE roles == [c \in C!Linked |-> IF c \in in THEN [channel[c].role EXCEPT ![u] = r]
                                          ELSE channel[c].role]
  <1>1. C!TypeOK /\ Founded /\ Follows
    BY DEF ChannelInv, C!ChannelsFollow, Founded, Follows
  <1>2. \A c \in C!Linked : roles[c] \in [Users -> C!Roles]
    BY <1>1, ChannelTypes DEF C!Linked, C!Roles
  <1>3. /\ channel' \in [Channels -> ChannelRec] /\ C!Linked' = C!Linked
        /\ \A c \in C!Linked : channel'[c].role = roles[c]
        /\ \A c \in Channels \ C!Linked : channel'[c] = channel[c]
    BY <1>1, <1>2, RolesSet
  <1>4. u # founder /\ u \in people
    BY <1>1, ChannelTypes DEF Founded
  <1>5. member' \in [Users -> C!Roles] /\ member'[u] = r
        /\ \A v \in Users \ {u} : member'[v] = member[v]
    BY <1>1, ChannelTypes DEF C!Roles
  <1>6. \A c \in C!Linked : /\ channel'[c].role[u] = IF c \in in THEN r ELSE channel[c].role[u]
                            /\ \A v \in Users \ {u} : channel'[c].role[v] = channel[c].role[v]
    <2>1. ASSUME NEW c \in C!Linked
          PROVE  /\ channel[c].role \in [Users -> C!Roles]
                 /\ channel'[c].role = IF c \in in THEN [channel[c].role EXCEPT ![u] = r]
                                       ELSE channel[c].role
      BY <1>1, <1>3, ChannelTypes DEF C!Linked
    <2>2. QED
      BY <2>1
  <1>7. Founded'
    BY <1>1, <1>4, <1>5 DEF Founded
  <1>8. Follows'
    <2>1. ASSUME NEW c \in C!Linked, <<c, u>> \notin touched' PROVE channel'[c].role[u] = r
      <3>1. c \notin in => <<c, u>> \notin touched /\ channel[c].role[u] = "none"
        BY <2>1
      <3>2. c \in in
        BY <1>1, <3>1 DEF Follows, C!RoleInChannel
      <3>3. QED
        BY <1>6, <3>2
    <2>2. \A c \in C!Linked, v \in Users \ {u} : <<c, v>> \notin touched' => <<c, v>> \notin touched
      OBVIOUS
    <2>3. QED
      BY <1>1, <1>3, <1>5, <1>6, <2>1, <2>2 DEF Follows, C!RoleInChannel
  <1>9. \A v \in Users \ people : /\ member'[v] = "none"
                                  /\ \A c \in Channels : channel'[c].role[v] = "none"
    BY <1>1, <1>3, <1>4, <1>5, <1>6, ChannelTypes
  <1>10. QED
    BY <1>1, <1>3, <1>5, <1>7, <1>8, <1>9, CommitFollows DEF C!TypeOK

LEMMA RoleFollows ==
  ASSUME ChannelInv, NEW t \in Txs, C!ChangeRole(t)
  PROVE  ChannelInv'
  <1> DEFINE u == work[t].to
             in == {c \in C!Linked : channel[c].role[u] # "none"}
  <1>1. work[t].op = "role" /\ C!Ends(t) /\ UNCHANGED <<founder, public>>
    BY DEF C!ChangeRole
  <1>2. work[t] \in C!Work
    BY <1>1, ChannelTypes DEF ChannelInv, C!ChannelsFollow, C!Idle
  <1>3. u \in Users /\ work[t].role \in {"admin", "member", "none"}
    BY <1>2 DEF C!Work
  <1>4. member[u] \in {"admin", "member"}
    BY <1>1 DEF ChannelInv, StillFor, C!Idle
  <1>5. /\ member' = [member EXCEPT ![u] = work[t].role]
        /\ C!Sets([c \in C!Linked |-> IF c \in in THEN [channel[c].role EXCEPT ![u] = work[t].role]
                                      ELSE channel[c].role])
        /\ touched' = touched \ (in \X {u})
    BY DEF C!ChangeRole
  <1>6. \A c \in C!Linked \ in : channel[c].role[u] = "none"
    OBVIOUS
  <1>7. in \in SUBSET C!Linked
    OBVIOUS
  <1> HIDE DEF in, u
  <1>8. QED
    BY <1>1, <1>3, <1>4, <1>5, <1>6, <1>7, OneRoleFollows

LEMMA RemovalFollows ==
  ASSUME ChannelInv, NEW t \in Txs, C!RemoveMember(t)
  PROVE  ChannelInv'
  <1> DEFINE u == work[t].to
  <1>1. work[t].op \in {"remove", "leave"} /\ C!Ends(t) /\ UNCHANGED <<founder, public>>
    BY DEF C!RemoveMember
  <1>2. work[t] \in C!Work
    BY <1>1, ChannelTypes DEF ChannelInv, C!ChannelsFollow, C!Idle
  <1>3. u \in Users
    BY <1>2 DEF C!Work
  <1>4. member[u] \in {"admin", "member"}
    BY <1>1 DEF ChannelInv, StillFor, C!Idle
  <1>5. /\ member' = [member EXCEPT ![u] = "none"]
        /\ C!Sets([c \in C!Linked |-> [channel[c].role EXCEPT ![u] = "none"]])
        /\ touched' = touched \ (C!Linked \X {u})
    BY DEF C!RemoveMember
  <1>6. [c \in C!Linked |-> [channel[c].role EXCEPT ![u] = "none"]]
          = [c \in C!Linked |-> IF c \in C!Linked THEN [channel[c].role EXCEPT ![u] = "none"]
                                ELSE channel[c].role]
    OBVIOUS
  <1>7. C!Sets([c \in C!Linked |-> IF c \in C!Linked THEN [channel[c].role EXCEPT ![u] = "none"]
                                   ELSE channel[c].role])
    BY <1>5, <1>6
  <1> HIDE DEF u
  <1>8. QED
    BY <1>1, <1>3, <1>4, <1>5, <1>7, OneRoleFollows

LEMMA TransferFollows ==
  ASSUME ChannelInv, NEW t \in Txs, C!TransferCommunity(t)
  PROVE  ChannelInv'
  <1> DEFINE u == work[t].to
             b == work[t].by
  <1>1. C!TypeOK /\ Founded /\ Follows
    BY DEF ChannelInv, C!ChannelsFollow, Founded, Follows
  <1>2. work[t].op = "transfer" /\ C!Ends(t) /\ UNCHANGED public
    BY DEF C!TransferCommunity
  <1>3. work[t] \in C!Work
    BY <1>1, <1>2, ChannelTypes DEF C!Idle
  <1>4. u \in Users /\ b \in Users
    BY <1>3 DEF C!Work
  <1>5. member[u] \in {"admin", "member"} /\ member[b] = "owner"
    BY <1>2 DEF ChannelInv, StillFor, C!Idle
  <1>6. b = founder /\ u # b /\ u \in people
    BY <1>1, <1>4, <1>5, ChannelTypes DEF Founded
  <1>7. /\ member' = [member EXCEPT ![b] = "admin", ![u] = "owner"]
        /\ founder' = u /\ touched' = touched \ (C!Linked \X {u})
        /\ channel' = [c \in Channels |->
             IF c \notin C!Linked THEN channel[c]
             ELSE [channel[c] EXCEPT !.creator = u, !.role =
                     [v \in Users |-> IF v = u THEN "owner"
                                      ELSE IF @[v] = "owner" THEN "admin" ELSE @[v]]]]
    BY DEF C!TransferCommunity
  <1>8. /\ member' \in [Users -> C!Roles] /\ member'[b] = "admin" /\ member'[u] = "owner"
        /\ \A v \in Users \ {u, b} : member'[v] = member[v]
    BY <1>1, <1>4, <1>6, <1>7, ChannelTypes DEF C!Roles
  <1>9. ASSUME NEW c \in C!Linked
        PROVE  /\ channel'[c] \in ChannelRec /\ channel'[c].exists
               /\ channel'[c].role = [v \in Users |-> IF v = u THEN "owner"
                                        ELSE IF channel[c].role[v] = "owner" THEN "admin"
                                        ELSE channel[c].role[v]]
    <2>1. c \in Channels /\ channel[c] \in ChannelRec /\ channel[c].exists
      BY <1>1, ChannelTypes DEF C!Linked
    <2> DEFINE r == [v \in Users |-> IF v = u THEN "owner"
                                        ELSE IF channel[c].role[v] = "owner" THEN "admin"
                                        ELSE channel[c].role[v]]
    <2>2. channel'[c] = [channel[c] EXCEPT !.creator = u, !.role = r]
      BY <1>7, <2>1
    <2>3. r \in [Users -> C!Roles]
      BY <2>1 DEF ChannelRec, C!Roles
    <2> HIDE DEF r
    <2>4. /\ [channel[c] EXCEPT !.creator = u, !.role = r] \in ChannelRec
          /\ [channel[c] EXCEPT !.creator = u, !.role = r].exists
          /\ [channel[c] EXCEPT !.creator = u, !.role = r].role = r
      BY <1>4, <2>1, <2>3 DEF ChannelRec
    <2>5. QED
      BY <2>2, <2>4 DEF r
  <1>a. ASSUME NEW c \in C!Linked, NEW v \in Users
        PROVE  channel'[c].role[v] = IF v = u THEN "owner"
                                     ELSE IF channel[c].role[v] = "owner" THEN "admin"
                                     ELSE channel[c].role[v]
    <2>1. channel'[c].role = [x \in Users |-> IF x = u THEN "owner"
                                        ELSE IF channel[c].role[x] = "owner" THEN "admin"
                                        ELSE channel[c].role[x]]
      BY <1>9
    <2>2. QED
      BY <2>1
  <1>10. \A c \in Channels \ C!Linked : channel'[c] = channel[c]
    BY <1>7
  <1>11. channel' \in [Channels -> ChannelRec]
    <2>1. \A c \in Channels : channel'[c] \in ChannelRec
      BY <1>1, <1>9, <1>10, ChannelTypes
    <2>2. QED
      BY <1>7, <2>1
  <1>12. C!Linked' = C!Linked
    BY <1>9, <1>10 DEF C!Linked
  <1>13. Founded'
    BY <1>1, <1>6, <1>7, <1>8 DEF Founded
  <1>14. Follows'
    <2>1. ASSUME NEW c \in C!Linked, NEW v \in Users, <<c, v>> \notin touched'
          PROVE  channel'[c].role[v] \in C!RoleInChannel(member'[v])
      <3>1. CASE v = u
        BY <1>4, <1>8, <1>a, <3>1 DEF C!RoleInChannel
      <3>2. CASE v # u
        <4>1. <<c, v>> \notin touched
          BY <1>7, <2>1, <3>2
        <4>2. channel[c].role[v] \in C!RoleInChannel(member[v])
          BY <1>1, <4>1 DEF Follows
        <4>3. channel'[c].role[v] = IF channel[c].role[v] = "owner" THEN "admin"
                                    ELSE channel[c].role[v]
          BY <1>a, <3>2
        <4>4. CASE v = b
          <5>1. channel[c].role[v] \in {"owner", "admin"}
            BY <1>5, <4>2, <4>4 DEF C!RoleInChannel
          <5>2. channel'[c].role[v] = "admin"
            BY <4>3, <5>1
          <5>3. QED
            BY <1>8, <4>4, <5>2 DEF C!RoleInChannel
        <4>5. CASE v # b
          <5>1. member[v] # "owner" /\ member'[v] = member[v]
            BY <1>1, <1>6, <1>8, <3>2, <4>5 DEF Founded
          <5>2. channel[c].role[v] # "owner"
            BY <4>2, <5>1 DEF C!RoleInChannel
          <5>3. QED
            BY <4>2, <4>3, <5>1, <5>2
        <4>6. QED
          BY <4>4, <4>5
      <3>3. QED
        BY <3>1, <3>2
    <2>2. QED
      BY <1>12, <2>1 DEF Follows, C!RoleInChannel
  <1>15. \A v \in Users \ people : /\ member'[v] = "none"
                                   /\ \A c \in Channels : channel'[c].role[v] = "none"
    <2>1. ASSUME NEW v \in Users \ people PROVE member'[v] = "none"
      <3>1. member[v] = "none" /\ v # u /\ v # b
        BY <1>1, <1>5, <1>6, ChannelTypes
      <3>2. QED
        BY <1>8, <3>1
    <2>2. ASSUME NEW v \in Users \ people, NEW c \in Channels PROVE channel'[c].role[v] = "none"
      <3>1. channel[c].role[v] = "none" /\ v # u
        BY <1>1, <1>6, ChannelTypes
      <3>2. QED
        BY <1>a, <1>10, <3>1
    <2>3. QED
      BY <2>1, <2>2
  <1>16. founder' \in people \cup {NoOne} /\ touched' \subseteq Channels \X Users
         /\ public' \in BOOLEAN
    BY <1>1, <1>2, <1>6, <1>7 DEF C!TypeOK
  <1>17. QED
    BY <1>2, <1>8, <1>11, <1>13, <1>14, <1>15, <1>16, CommitFollows

LEMMA CreationFollows ==
  ASSUME ChannelInv, NEW t \in Txs, C!CreateChannel(t)
  PROVE  ChannelInv'
  <1> DEFINE seen == work[t].seen
             new == [exists |-> TRUE, creator |-> work[t].by, deleted |-> FALSE,
                     role |-> [u \in Users |-> IF seen[u] = "owner" THEN "admin" ELSE seen[u]]]
  <1>1. C!TypeOK /\ Founded /\ Follows
    BY DEF ChannelInv, C!ChannelsFollow, Founded, Follows
  <1>2. work[t].op = "create" /\ C!Ends(t) /\ UNCHANGED <<member, founder, public, touched>>
    BY DEF C!CreateChannel
  <1>3. work[t] \in C!Work
    BY <1>1, <1>2, ChannelTypes DEF C!Idle
  <1>4. seen \in [Users -> C!Roles] /\ work[t].by \in Users
    BY <1>3 DEF C!Work
  <1>5. Founded'
    BY <1>1, <1>2 DEF Founded
  <1>6. CASE UNCHANGED channel
    <2>1. Follows'
      BY <1>1, <1>2, <1>6 DEF Follows, C!Linked
    <2>2. QED
      BY <1>1, <1>2, <1>5, <1>6, <2>1, CommitFollows, ChannelTypes DEF C!TypeOK
  <1>7. CASE /\ \A u \in Users : seen[u] # "none" => u \in people
             /\ channel' = [channel EXCEPT ![work[t].channel] = new]
    <2>1. \A u \in Users : seen[u] = member[u]
      BY <1>2, <1>7 DEF ChannelInv, StillFor, C!Idle
    <2>2. new.role \in [Users -> C!Roles]
      BY <1>4 DEF C!Roles
    <2>3. new \in ChannelRec
      BY <1>4, <2>2 DEF ChannelRec
    <2>4. \A u \in Users : new.role[u] \in C!RoleInChannel(member[u])
      BY <1>1, <2>1, ChannelTypes DEF C!RoleInChannel, C!Roles
    <2>5. \A u \in Users \ people : new.role[u] = "none"
      BY <1>7, <2>1
    <2> HIDE DEF new
    <2>6. /\ channel' \in [Channels -> ChannelRec]
          /\ \A c \in Channels : channel'[c] = new \/ channel'[c] = channel[c]
      BY <1>1, <1>7, <2>3, ChannelTypes
    <2>7. Follows'
      <3>1. ASSUME NEW c \in Channels, channel'[c].exists, NEW u \in Users,
                   <<c, u>> \notin touched
            PROVE  channel'[c].role[u] \in C!RoleInChannel(member[u])
        <4>1. CASE channel'[c] = new
          BY <2>4, <4>1
        <4>2. CASE channel'[c] = channel[c]
          BY <1>1, <3>1, <4>2 DEF Follows, C!Linked
        <4>3. QED
          BY <2>6, <4>1, <4>2
      <3>2. QED
        BY <1>2, <3>1 DEF Follows, C!Linked, C!RoleInChannel
    <2>8. \A u \in Users \ people : /\ member'[u] = "none"
                                    /\ \A c \in Channels : channel'[c].role[u] = "none"
      BY <1>1, <1>2, <2>5, <2>6, ChannelTypes
    <2>9. QED
      BY <1>1, <1>2, <1>5, <2>6, <2>7, <2>8, CommitFollows, ChannelTypes DEF C!TypeOK
  <1>8. QED
    BY <1>6, <1>7 DEF C!CreateChannel

(* A step of the transactions that changes no row.                         *)
LEMMA WorkMoves ==
  ASSUME ChannelInv, NEW t \in Txs, NEW w \in C!Work \cup {C!Idle},
         work' = [work EXCEPT ![t] = w],
         w # C!Idle => StillFor(w) /\ \A s \in Txs \ {t} : work[s] = C!Idle,
         UNCHANGED <<people, member, founder, public, channel, touched>>
  PROVE  ChannelInv'
  <1>1. C!TypeOK /\ OneAtWork /\ \A s \in Txs : work[s] # C!Idle => StillFor(work[s])
    BY DEF ChannelInv, C!ChannelsFollow
  <1>2. work' \in [Txs -> C!Work \cup {C!Idle}] /\ work'[t] = w
        /\ \A s \in Txs \ {t} : work'[s] = work[s]
    BY <1>1, ChannelTypes
  <1>3. C!TypeOK'
    BY <1>1, <1>2 DEF C!TypeOK
  <1>4. C!ChannelsFollow'
    BY <1>3 DEF ChannelInv, C!ChannelsFollow, C!Linked, C!RoleInChannel
  <1>5. OneAtWork'
    BY <1>1, <1>2 DEF OneAtWork
  <1>6. ASSUME NEW s \in Txs, work'[s] # C!Idle PROVE StillFor(work[s])'
    BY <1>1, <1>2, <1>6 DEF StillFor
  <1>7. QED
    BY <1>4, <1>5, <1>6 DEF ChannelInv

LEMMA BeginFollows ==
  ASSUME ChannelInv, NEW t \in Txs, C!Begin(t)
  PROVE  ChannelInv'
  <1>1. C!TypeOK
    BY DEF ChannelInv, C!ChannelsFollow
  <1>2. /\ \A s \in Txs : work[s] = C!Idle
        /\ UNCHANGED <<people, member, founder, public, channel, touched>>
    BY DEF C!Begin, C!BeginUnder, C!Unlocked
  <1>3. PICK w \in [op : C!Ops, by : people, to : Users, role : {"admin", "member"},
                    channel : Channels \cup {NoOne}] :
          /\ C!MayChange(w)
          /\ work' = [work EXCEPT ![t] =
               [op |-> w.op, by |-> w.by, to |-> w.to, role |-> w.role, channel |-> w.channel,
                left |-> IF w.op \in {"edit", "create"} THEN {} ELSE C!Linked,
                seen |-> IF w.op = "create" THEN member ELSE C!NoGroup.role]]
    BY DEF C!Begin, C!BeginUnder
  <1> DEFINE left == IF w.op \in {"edit", "create"} THEN {} ELSE C!Linked
             seen == IF w.op = "create" THEN member ELSE C!NoGroup.role
             new == [op |-> w.op, by |-> w.by, to |-> w.to, role |-> w.role,
                     channel |-> w.channel, left |-> left, seen |-> seen]
  <1>4. left \subseteq Channels /\ seen \in [Users -> C!Roles]
    BY <1>1, ChannelTypes DEF C!Linked, C!NoGroup, C!Roles
  <1>5. w.by \in Users
    BY <1>1, ChannelTypes
  <1>6. StillFor(new)
    BY <1>3 DEF StillFor, C!MayChange
  <1> HIDE DEF left, seen
  <1>7. new \in C!Work
    BY <1>4, <1>5 DEF C!Work
  <1>8. work' = [work EXCEPT ![t] = new]
    BY <1>3 DEF left, seen
  <1> HIDE DEF new
  <1>9. QED
    BY <1>2, <1>6, <1>7, <1>8, WorkMoves

LEMMA LockFollows ==
  ASSUME ChannelInv, NEW t \in Txs, C!LockChannel(t)
  PROVE  ChannelInv'
  <1>1. C!TypeOK /\ OneAtWork /\ \A s \in Txs : work[s] # C!Idle => StillFor(work[s])
    BY DEF ChannelInv, C!ChannelsFollow
  <1>2. PICK c \in work[t].left : work' = [work EXCEPT ![t].left = @ \ {c}]
    BY DEF C!LockChannel
  <1>3. work[t] # C!Idle /\ work[t] \in C!Work
    BY <1>1, <1>2, ChannelTypes DEF C!Idle
  <1> DEFINE w == [work[t] EXCEPT !.left = @ \ {c}]
  <1>4. /\ w \in C!Work /\ w.op = work[t].op /\ w.by = work[t].by /\ w.to = work[t].to
        /\ w.seen = work[t].seen
    BY <1>3 DEF C!Work
  <1>5. work' = [work EXCEPT ![t] = w]
    BY <1>2
  <1> HIDE DEF w
  <1>6. StillFor(w)
    BY <1>1, <1>3, <1>4 DEF StillFor
  <1>7. \A s \in Txs \ {t} : work[s] = C!Idle
    BY <1>1, <1>3 DEF OneAtWork
  <1>8. UNCHANGED <<people, member, founder, public, channel, touched>>
    BY DEF C!LockChannel
  <1>9. QED
    BY <1>4, <1>5, <1>6, <1>7, <1>8, WorkMoves

LEMMA RollbackFollows ==
  ASSUME ChannelInv, NEW t \in Txs, C!Rollback(t)
  PROVE  ChannelInv'
  BY WorkMoves DEF C!Rollback

(* A step of the channels' own members, or of an account that goes.        *)
LEMMA OutsideFollows ==
  ASSUME ChannelInv, UNCHANGED <<public, work>>, people' \subseteq people,
         member' \in [Users -> C!Roles], founder' \in people' \cup {NoOne},
         channel' \in [Channels -> ChannelRec], touched' \subseteq Channels \X Users,
         \A u \in Users \ people' : /\ member'[u] = "none"
                                    /\ \A c \in Channels : channel'[c].role[u] = "none",
         \A t \in Txs : work[t] # C!Idle => StillFor(work[t])',
         Founded', Follows'
  PROVE  ChannelInv'
  <1>1. C!TypeOK'
    BY DEF ChannelInv, C!ChannelsFollow, C!TypeOK, ChannelRec
  <1>2. C!ChannelsFollow'
    BY <1>1 DEF C!ChannelsFollow, Founded, Follows
  <1>3. OneAtWork'
    BY DEF ChannelInv, OneAtWork
  <1>4. QED
    BY <1>2, <1>3 DEF ChannelInv

LEMMA OwnChangeFollows ==
  ASSUME ChannelInv, NEW c \in Channels, C!ChangeChannel(c)
  PROVE  ChannelInv'
  <1>1. C!TypeOK /\ Founded /\ Follows
    BY DEF ChannelInv, C!ChannelsFollow, Founded, Follows
  <1>2. /\ channel[c].exists /\ UNCHANGED <<people, member, founder, public, work>>
    BY DEF C!ChangeChannel
  <1>3. PICK a \in C!GroupOps(c) :
          /\ channel' = [channel EXCEPT
               ![c].role = [u \in Users |->
                  IF u = a.to THEN CASE a.op \in {"add", "role"} -> a.role
                                     [] a.op = "transfer" -> "owner"
                                     [] OTHER -> "none"
                  ELSE IF u = a.by /\ a.op = "transfer" THEN "admin" ELSE @[u]],
               ![c].creator = IF a.op = "transfer" THEN a.to ELSE @]
          /\ touched' = touched \cup {<<c, a.to>>}
    BY DEF C!ChangeChannel
  <1> DEFINE r == CASE a.op \in {"add", "role"} -> a.role
                    [] a.op = "transfer" -> "owner"
                    [] OTHER -> "none"
             was == channel[c].role
             is == [u \in Users |->
                      IF u = a.to THEN r
                      ELSE IF u = a.by /\ a.op = "transfer" THEN "admin" ELSE was[u]]
  <1>4. a.by \in people /\ a.to \in people /\ a.role \in {"admin", "member"}
    BY <1>3 DEF C!GroupOps
  <1>5. a.op = "transfer" => channel[c].role[a.by] = "owner"
    BY <1>3 DEF C!GroupOps, C!G!Authorised
  <1>6. r \in C!Roles
    BY <1>4 DEF C!Roles
  <1>7. people \subseteq Users /\ channel[c] \in ChannelRec
    BY <1>1, ChannelTypes
  <1>10. channel' = [channel EXCEPT ![c] = [channel[c] EXCEPT !.role = is,
                       !.creator = IF a.op = "transfer" THEN a.to ELSE @]]
    BY <1>1, <1>3, <1>7, ChannelTypes DEF ChannelRec
  <1> HIDE DEF r
  <1>8. is \in [Users -> C!Roles]
    BY <1>4, <1>6, <1>7 DEF ChannelRec, C!Roles
  <1>9. \A v \in Users : v # a.to =>
          is[v] = (IF v = a.by /\ a.op = "transfer" THEN "admin" ELSE was[v])
    OBVIOUS
  <1> HIDE DEF is
  <1>11. /\ channel' \in [Channels -> ChannelRec] /\ channel'[c].role = is
         /\ channel'[c].exists /\ \A d \in Channels \ {c} : channel'[d] = channel[d]
    <2> DEFINE rec == [channel[c] EXCEPT !.role = is,
                         !.creator = IF a.op = "transfer" THEN a.to ELSE @]
    <2>1. rec \in ChannelRec /\ rec.role = is /\ rec.exists
      BY <1>2, <1>4, <1>7, <1>8 DEF ChannelRec
    <2> HIDE DEF rec
    <2>2. channel' = [channel EXCEPT ![c] = rec]
      BY <1>10 DEF rec
    <2>3. QED
      BY <1>1, <2>1, <2>2, ChannelTypes
  <1>12. Founded'
    BY <1>1, <1>2 DEF Founded
  <1>13. Follows'
    <2>1. ASSUME NEW d \in Channels, channel'[d].exists, NEW v \in Users, <<d, v>> \notin touched'
          PROVE  channel'[d].role[v] \in C!RoleInChannel(member[v])
      <3>1. <<d, v>> \notin touched
        BY <1>3, <2>1
      <3>2. CASE d # c
        BY <1>1, <1>11, <2>1, <3>1, <3>2 DEF Follows, C!Linked
      <3>3. CASE d = c
        <4>1. v # a.to
          BY <1>3, <2>1, <3>3
        <4>2. was[v] \in C!RoleInChannel(member[v])
          BY <1>1, <1>2, <3>1, <3>3 DEF Follows, C!Linked
        <4>3. CASE v = a.by /\ a.op = "transfer"
          <5>1. member[v] = "owner"
            BY <1>5, <4>2, <4>3 DEF C!RoleInChannel
          <5>2. is[v] = "admin"
            BY <1>9, <4>1, <4>3
          <5>3. QED
            BY <1>11, <3>3, <5>1, <5>2 DEF C!RoleInChannel
        <4>4. CASE ~ (v = a.by /\ a.op = "transfer")
          BY <1>9, <1>11, <3>3, <4>1, <4>2, <4>4
        <4>5. QED
          BY <4>3, <4>4
      <3>4. QED
        BY <3>2, <3>3
    <2>2. QED
      BY <1>2, <2>1 DEF Follows, C!Linked, C!RoleInChannel
  <1>14. \A v \in Users \ people : /\ member'[v] = "none"
                                   /\ \A d \in Channels : channel'[d].role[v] = "none"
    <2>1. ASSUME NEW v \in Users \ people, NEW d \in Channels PROVE channel'[d].role[v] = "none"
      <3>1. channel[d].role[v] = "none" /\ v # a.to /\ v # a.by
        BY <1>1, <1>4, ChannelTypes
      <3>2. QED
        BY <1>9, <1>11, <3>1
    <2>2. QED
      BY <1>1, <1>2, <2>1, ChannelTypes
  <1>15. touched' \subseteq Channels \X Users
    BY <1>1, <1>3, <1>4, <1>7 DEF C!TypeOK
  <1>16. \A t \in Txs : work[t] # C!Idle => StillFor(work[t])'
    BY <1>2 DEF ChannelInv, StillFor
  <1>17. QED
    BY <1>1, <1>2, <1>11, <1>12, <1>13, <1>14, <1>15, <1>16, OutsideFollows, ChannelTypes

LEMMA DeletionFollows ==
  ASSUME ChannelInv, NEW c \in Channels, C!DeleteChannelGroup(c)
  PROVE  ChannelInv'
  <1>1. C!TypeOK /\ Founded /\ Follows
    BY DEF ChannelInv, C!ChannelsFollow, Founded, Follows
  <1>2. /\ channel' = [channel EXCEPT ![c].deleted = TRUE]
        /\ UNCHANGED <<people, member, founder, public, work, touched>>
    BY DEF C!DeleteChannelGroup
  <1>3. [channel[c] EXCEPT !.deleted = TRUE] \in ChannelRec
    BY <1>1, ChannelTypes DEF ChannelRec
  <1>4. /\ channel' \in [Channels -> ChannelRec]
        /\ \A d \in Channels : channel'[d].role = channel[d].role /\ channel'[d].exists = channel[d].exists
    BY <1>1, <1>2, <1>3, ChannelTypes DEF ChannelRec
  <1>5. Founded' /\ Follows'
    BY <1>1, <1>2, <1>4 DEF Founded, Follows, C!Linked, C!RoleInChannel
  <1>6. \A t \in Txs : work[t] # C!Idle => StillFor(work[t])'
    BY <1>2 DEF ChannelInv, StillFor
  <1>7. \A v \in Users \ people : /\ member'[v] = "none"
                                  /\ \A d \in Channels : channel'[d].role[v] = "none"
    BY <1>1, <1>2, <1>4, ChannelTypes
  <1>8. touched' \subseteq Channels \X Users
    BY <1>1, <1>2 DEF C!TypeOK
  <1>9. QED
    BY <1>1, <1>2, <1>4, <1>5, <1>6, <1>7, <1>8, OutsideFollows, ChannelTypes

LEMMA AccountFollows ==
  ASSUME ChannelInv, NEW u \in Users, C!DeleteAccount(u)
  PROVE  ChannelInv'
  <1>1. C!TypeOK /\ Founded /\ Follows
    BY DEF ChannelInv, C!ChannelsFollow, Founded, Follows
  <1>2. /\ people' = people \ {u} /\ member' = [member EXCEPT ![u] = "none"]
        /\ founder' = IF founder = u THEN NoOne ELSE founder
        /\ channel' = [c \in Channels |->
              [channel[c] EXCEPT !.role[u] = "none", !.creator = IF @ = u THEN NoOne ELSE @]]
        /\ touched' = touched \ (Channels \X {u}) /\ UNCHANGED <<public, work>>
    BY DEF C!DeleteAccount
  <1>3. /\ member' \in [Users -> C!Roles] /\ member'[u] = "none"
        /\ \A v \in Users \ {u} : member'[v] = member[v]
    BY <1>1, <1>2, ChannelTypes DEF C!Roles
  <1>4. ASSUME NEW c \in Channels
        PROVE  /\ channel'[c] \in ChannelRec /\ channel'[c].exists = channel[c].exists
               /\ channel'[c].role[u] = "none"
               /\ \A v \in Users \ {u} : channel'[c].role[v] = channel[c].role[v]
    <2>1. channel[c] \in ChannelRec
      BY <1>1, ChannelTypes
    <2>2. channel'[c] = [channel[c] EXCEPT !.role = [channel[c].role EXCEPT ![u] = "none"],
                                           !.creator = IF @ = u THEN NoOne ELSE @]
      BY <1>2
    <2>3. [channel[c].role EXCEPT ![u] = "none"] \in [Users -> C!Roles]
      BY <2>1 DEF ChannelRec, C!Roles
    <2>4. channel'[c].role = [channel[c].role EXCEPT ![u] = "none"]
          /\ channel'[c].exists = channel[c].exists
      BY <2>1, <2>2 DEF ChannelRec
    <2>5. channel'[c] \in ChannelRec
      <3> DEFINE r == [channel[c].role EXCEPT ![u] = "none"]
                 who == IF channel[c].creator = u THEN NoOne ELSE channel[c].creator
      <3>1. channel'[c] = [channel[c] EXCEPT !.role = r, !.creator = who]
        BY <2>2
      <3>2. r \in [Users -> C!Roles] /\ who \in Users \cup {NoOne}
        BY <2>1, <2>3 DEF ChannelRec
      <3> HIDE DEF r, who
      <3>3. QED
        BY <2>1, <3>1, <3>2 DEF ChannelRec
    <2>6. QED
      BY <2>1, <2>4, <2>5 DEF ChannelRec
  <1>5. channel' \in [Channels -> ChannelRec] /\ C!Linked' = C!Linked
    <2>1. \A c \in Channels : channel'[c] \in ChannelRec /\ channel'[c].exists = channel[c].exists
      BY <1>4
    <2>2. DOMAIN channel' = Channels /\ channel' = [c \in Channels |-> channel'[c]]
      BY <1>2
    <2>3. channel' \in [Channels -> ChannelRec]
      BY <2>1, <2>2
    <2>4. C!Linked' = C!Linked
      BY <2>1 DEF C!Linked
    <2>5. QED
      BY <2>3, <2>4
  <1>6. Founded'
    <2>1. ASSUME NEW v \in Users PROVE member'[v] = "owner" <=> v = founder'
      <3>1. NoOne \notin Users /\ (member[v] = "owner" <=> v = founder)
        BY <1>1, GroupAssumption DEF Founded
      <3>2. CASE v = u
        BY <1>2, <1>3, <3>1, <3>2
      <3>3. CASE v # u
        BY <1>2, <1>3, <3>1, <3>3
      <3>4. QED
        BY <3>2, <3>3
    <2>2. QED
      BY <2>1 DEF Founded
  <1>7. Follows'
    <2>1. ASSUME NEW c \in C!Linked, NEW v \in Users, <<c, v>> \notin touched'
          PROVE  channel'[c].role[v] \in C!RoleInChannel(member'[v])
      <3>1. c \in Channels
        BY DEF C!Linked
      <3>2. CASE v = u
        BY <1>3, <1>4, <3>1, <3>2 DEF C!RoleInChannel
      <3>3. CASE v # u
        <4>1. <<c, v>> \notin touched
          BY <1>2, <2>1, <3>3
        <4>2. QED
          BY <1>1, <1>3, <1>4, <3>1, <3>3, <4>1 DEF Follows
      <3>4. QED
        BY <3>2, <3>3
    <2>2. QED
      BY <1>5, <2>1 DEF Follows, C!RoleInChannel
  <1>8. \A v \in Users \ people' : /\ member'[v] = "none"
                                   /\ \A c \in Channels : channel'[c].role[v] = "none"
    <2>1. ASSUME NEW v \in Users \ people', v # u
          PROVE  member[v] = "none" /\ \A c \in Channels : channel[c].role[v] = "none"
      BY <1>1, <1>2, <2>1, ChannelTypes
    <2>2. QED
      BY <1>3, <1>4, <2>1
  <1>9. founder' \in people' \cup {NoOne} /\ touched' \subseteq Channels \X Users
    BY <1>1, <1>2 DEF C!TypeOK
  <1>10. ASSUME NEW t \in Txs, work[t] # C!Idle PROVE StillFor(work[t])'
    <2>1. StillFor(work[t]) /\ work[t].op \in {"join", "create"} /\ u # work[t].by
      BY <1>10 DEF ChannelInv, C!DeleteAccount
    <2>2. work[t] \in C!Work
      BY <1>1, <1>10, ChannelTypes
    <2>3. work[t].by \in Users /\ work[t].seen \in [Users -> C!Roles]
      BY <2>2 DEF C!Work
    <2>4. work[t].op = "join" => member'[work[t].by] = "none"
      BY <1>3, <2>1, <2>3 DEF StillFor
    <2>5. ASSUME work[t].op = "create", NEW v \in Users
          PROVE  work[t].seen[v] = member'[v] \/ (work[t].seen[v] # "none" /\ v \notin people')
      BY <1>2, <1>3, <2>1, <2>5 DEF StillFor
    <2>6. QED
      BY <1>2, <2>1, <2>4, <2>5 DEF StillFor
  <1>11. QED
    BY <1>2, <1>3, <1>5, <1>6, <1>7, <1>8, <1>9, <1>10, OutsideFollows

LEMMA ChannelPartInvariance ==
  ChannelInv /\ [PartsNext]_<<part, vars, communityVars>> => ChannelInv'
  <1> SUFFICES ASSUME ChannelInv, [PartsNext]_<<part, vars, communityVars>> PROVE ChannelInv'
    OBVIOUS
  <1>1. CASE UNCHANGED communityVars
    <2>1. C!ChannelsFollow'
      BY <1>1 DEF communityVars, ChannelInv, C!ChannelsFollow, C!TypeOK, C!Linked,
                  C!RoleInChannel
    <2>2. QED
      BY <1>1, <2>1 DEF communityVars, ChannelInv, OneAtWork, StillFor
  <1>2. CASE C!Next
    <2>1. ASSUME NEW t \in Txs, C!Commit(t) PROVE ChannelInv'
      BY <2>1, JoinFollows, EditFollows, RoleFollows, RemovalFollows, TransferFollows,
         CreationFollows DEF C!Commit
    <2>2. QED
      BY <1>2, <2>1, BeginFollows, LockFollows, RollbackFollows, OwnChangeFollows,
         DeletionFollows, AccountFollows DEF C!Next
  <1>3. QED
    BY <1>1, <1>2 DEF PartsNext

(* The invariant of the community among the other parts.                   *)
THEOREM ChannelInvariance == PartsSpec => []ChannelInv
  <1>1. PartsInit => ChannelInv
    BY ChannelInitially DEF PartsInit
  <1>2. QED
    BY <1>1, ChannelPartInvariance, PTL DEF PartsSpec

(* Whatever joins, removals, transfers, new channels and deleted accounts  *)
(* overlap, the members of the community and of its channels agree where   *)
(* the channel itself was left alone (createChannel, joinCommunity,        *)
(* manageCommunity).                                                       *)
THEOREM ChannelsKeepFollowing == PartsSpec => []ChannelsFollow
  <1>1. ChannelInv => ChannelsFollow
    BY DEF ChannelInv, ChannelsFollow
  <1>2. QED
    BY <1>1, ChannelInvariance, PTL

-----------------------------------------------------------------------------
(* The group: its inductive invariant.                                     *)

(* The conversation row is held by one transaction at a time.              *)
OneHolder == \A s, t \in Txs : Holding(s) /\ Holding(t) => s = t

(* What a holder read still holds: its authority, and that the person it   *)
(* admits is not yet a member.                                             *)
HeldInv(t) ==
  Holding(t) => /\ Authorised(tx[t])
                /\ tx[t].op = "add"  => role[tx[t].to] = "none"
                /\ tx[t].op = "join" => role[tx[t].by] = "none"

IInv ==
  /\ TypeOK
  /\ OneOwner
  /\ InviteWithinLimit
  /\ OneHolder
  /\ \A t \in Txs : HeldInv(t)

USE DEF groupVars, vars
USE GroupAssumption

(* What a call in progress carries.                                        *)
LEMMA CallFields ==
  ASSUME TypeOK, NEW t \in Txs
  PROVE  /\ Holding(t) => tx[t] \in Call /\ tx[t].by \in Users
         /\ tx[t].op \in {"add", "remove", "transfer", "role"} => tx[t].to \in Users
         /\ tx[t].op = "role" => tx[t].role \in {"admin", "member"}
         /\ tx[t].op = "policy" => tx[t].restricted \subseteq Actions
         /\ tx[t].op = "edit" => tx[t].info \in Infos
         /\ tx[t].op \in {"invite", "revoke", "join", "hint"} =>
              tx[t].link \in Links /\ tx[t].by \in Users
<1>1. tx[t] \in Call \cup Hint \cup {Idle}
  BY DEF TypeOK
<1>2. CASE tx[t] = Idle
  BY <1>2 DEF Idle, Holding
<1>3. CASE tx[t] \in Hint
  BY <1>3 DEF Hint, Holding
<1>4. CASE tx[t] \in Call
  <2>1. \A r \in Policies : r \subseteq Actions
    BY PolicyAssumption DEF Actions
  <2> QED
    BY <1>4, <2>1 DEF Call, Holding
<1> QED
  BY <1>1, <1>2, <1>3, <1>4

(* A transaction that ends leaves the row to whoever comes next.           *)
LEMMA EndReleases ==
  ASSUME IInv, NEW t \in Txs, Holding(t), tx' = [tx EXCEPT ![t] = Idle]
  PROVE  /\ tx' \in [Txs -> Call \cup Hint \cup {Idle}]
         /\ OneHolder'
         /\ \A s \in Txs : HeldInv(s)'
<1>1. tx' \in [Txs -> Call \cup Hint \cup {Idle}]
  BY DEF IInv, TypeOK
<1>2. ASSUME NEW s \in Txs PROVE ~ Holding(s)'
  <2>1. CASE s = t
    BY <2>1 DEF IInv, TypeOK, Holding, Idle
  <2>2. CASE s # t
    <3>1. ~ Holding(s)
      BY <2>2 DEF IInv, OneHolder
    <3> QED
      BY <2>2, <3>1 DEF IInv, TypeOK, Holding
  <2> QED
    BY <2>1, <2>2
<1> QED
  BY <1>1, <1>2 DEF OneHolder, HeldInv

-----------------------------------------------------------------------------
(* Init                                                                    *)
LEMMA InitInv == Init => IInv
<1> SUFFICES ASSUME Init PROVE IInv
  OBVIOUS
<1>1. TypeOK
  BY DEF Init, TypeOK, Roles, Actions, LinkState
<1>2. OneOwner /\ InviteWithinLimit
  BY DEF Init, OneOwner, InviteWithinLimit
<1>3. \A t \in Txs : ~ Holding(t)
  BY DEF Init, Holding, Idle
<1> QED
  BY <1>1, <1>2, <1>3 DEF IInv, OneHolder, HeldInv

-----------------------------------------------------------------------------
(* The steps before the commit                                             *)

(* A transaction that takes the row while nobody holds it.                 *)
LEMMA TakesRow ==
  ASSUME IInv, NEW t \in Txs, NEW c \in Call, Unlocked,
         Authorised(c), HasEffect(c),
         tx' = [tx EXCEPT ![t] = c], UNCHANGED <<groupVars, accounts>>
  PROVE  IInv'
<1>1. TypeOK'
  BY DEF IInv, TypeOK
<1>2. OneOwner' /\ InviteWithinLimit'
  BY DEF IInv, OneOwner, InviteWithinLimit
<1>3. tx'[t] = c /\ \A s \in Txs \ {t} : tx'[s] = tx[s]
  BY DEF IInv, TypeOK
<1>4. \A s \in Txs : Holding(s)' => s = t
  BY <1>3 DEF Unlocked, Holding
<1>5. HeldInv(t)'
  <2>1. Authorised(c)'
    BY DEF Authorised, GroupAllows, MayRemove, MayJoin
  <2>2. Authorised(tx[t])'
    BY <2>1, <1>3 DEF Authorised, GroupAllows, MayRemove, MayJoin
  <2> QED
    BY <2>2, <1>3 DEF HeldInv, HasEffect
<1>6. OneHolder' /\ \A s \in Txs : HeldInv(s)'
  BY <1>4, <1>5 DEF OneHolder, HeldInv
<1> QED
  BY <1>1, <1>2, <1>6 DEF IInv

(* A transaction that reads without a lock, or gives up.                   *)
LEMMA TouchesNothing ==
  ASSUME IInv, NEW t \in Txs, NEW c \in Hint \cup {Idle},
         tx' = [tx EXCEPT ![t] = c], UNCHANGED <<groupVars, accounts>>
  PROVE  IInv'
<1>1. TypeOK'
  BY DEF IInv, TypeOK
<1>2. OneOwner' /\ InviteWithinLimit'
  BY DEF IInv, OneOwner, InviteWithinLimit
<1>3. c.op \in {"none", "hint"}
  BY DEF Hint, Idle
<1>4. tx'[t] = c /\ \A s \in Txs \ {t} : tx'[s] = tx[s]
  BY DEF IInv, TypeOK
<1>5. ASSUME NEW s \in Txs, Holding(s)'
      PROVE  s # t /\ tx'[s] = tx[s] /\ Holding(s)
  BY <1>3, <1>4, <1>5 DEF Holding
<1>6. OneHolder'
  BY <1>5 DEF IInv, OneHolder
<1>7. ASSUME NEW s \in Txs, Holding(s)' PROVE HeldInv(s)'
  <2>1. tx'[s] = tx[s] /\ Holding(s)
    BY <1>5, <1>7
  <2>2. HeldInv(s)
    BY DEF IInv
  <2>3. Authorised(tx[s])
    BY <2>1, <2>2 DEF HeldInv
  <2>4. Authorised(tx[s])'
    BY <2>1, <2>3 DEF Authorised, GroupAllows, MayRemove, MayJoin
  <2> QED
    BY <2>1, <2>2, <2>4 DEF HeldInv
<1>8. \A s \in Txs : HeldInv(s)'
  BY <1>7 DEF HeldInv
<1> QED
  BY <1>1, <1>2, <1>6, <1>8 DEF IInv

-----------------------------------------------------------------------------
(* The commits                                                             *)

(* What is left to show of a commit once the row is released.              *)
LEMMA CommitKeeps ==
  ASSUME IInv, NEW t \in Txs, Holding(t), Ends(t),
         role' \in [Users -> Roles \cup {"none"}],
         \A u \in Users : role'[u] # "none" => u \in accounts,
         creator' \in Users \cup {NoOne},
         creator' # NoOne => creator' \in accounts,
         deleted' \in BOOLEAN, restricted' \subseteq Actions, info' \in Infos,
         link' \in [Links -> [state : LinkState, by : Users \cup {NoOne},
                              uses : Nat, expired : BOOLEAN]],
         \A l \in Links : link'[l].state = "live" => link'[l].by \in accounts,
         OneOwner', InviteWithinLimit'
  PROVE  IInv'
<1>1. /\ tx' \in [Txs -> Call \cup Hint \cup {Idle}]
      /\ OneHolder'
      /\ \A s \in Txs : HeldInv(s)'
  BY EndReleases DEF Ends
<1>2. TypeOK'
  BY <1>1 DEF IInv, TypeOK, Ends
<1> QED
  BY <1>1, <1>2 DEF IInv

(* A membership row that is written, and whose role is not "owner".        *)
LEMMA RoleKeeps ==
  ASSUME IInv, NEW t \in Txs, Holding(t), Ends(t),
         NEW u \in Users, NEW r \in {"admin", "member", "none"},
         role[u] # "owner", r # "none" => u \in accounts,
         role' = [role EXCEPT ![u] = r],
         link' \in [Links -> [state : LinkState, by : Users \cup {NoOne},
                              uses : Nat, expired : BOOLEAN]],
         \A l \in Links : /\ link'[l].state = link[l].state
                          /\ link'[l].by = link[l].by
                          /\ link'[l].uses <= MaxUses,
         UNCHANGED <<creator, deleted, restricted, info>>
  PROVE  IInv'
<1>1. role' \in [Users -> Roles \cup {"none"}]
  BY DEF IInv, TypeOK, Roles
<1>2. \A v \in Users : role'[v] # "none" => v \in accounts
  BY DEF IInv, TypeOK
<1>3. OneOwner'
  BY DEF IInv, TypeOK, OneOwner
<1>4. InviteWithinLimit'
  BY DEF InviteWithinLimit
<1> QED
  BY <1>1, <1>2, <1>3, <1>4, CommitKeeps DEF IInv, TypeOK

LEMMA SameLinks ==
  ASSUME IInv
  PROVE  /\ link \in [Links -> [state : LinkState, by : Users \cup {NoOne},
                                uses : Nat, expired : BOOLEAN]]
         /\ \A l \in Links : link[l].uses <= MaxUses
BY DEF IInv, TypeOK, InviteWithinLimit

LEMMA AddKeeps ==
  ASSUME IInv, NEW t \in Txs, AddGroupMember(t)
  PROVE  IInv'
<1>1. Holding(t) /\ tx[t].to \in Users
  BY CallFields DEF IInv, AddGroupMember, Holding
<1>2. role[tx[t].to] = "none"
  BY <1>1 DEF IInv, HeldInv, AddGroupMember
<1>3. CASE tx[t].to \in accounts
  BY <1>1, <1>2, <1>3, SameLinks, RoleKeeps DEF AddGroupMember
<1>4. CASE tx[t].to \notin accounts
  <2>1. role' = [role EXCEPT ![tx[t].to] = "none"]
    BY <1>1, <1>2, <1>4 DEF AddGroupMember, IInv, TypeOK
  <2> QED
    BY <1>1, <1>2, <2>1, SameLinks, RoleKeeps DEF AddGroupMember
<1> QED
  BY <1>3, <1>4

LEMMA RemoveKeeps ==
  ASSUME IInv, NEW t \in Txs, RemoveGroupMember(t)
  PROVE  IInv'
<1>1. Holding(t) /\ tx[t].to \in Users
  BY CallFields DEF IInv, RemoveGroupMember, Holding
<1>2. role[tx[t].to] # "owner"
  BY <1>1 DEF IInv, HeldInv, RemoveGroupMember, Authorised, MayRemove
<1> QED
  BY <1>1, <1>2, SameLinks, RoleKeeps DEF RemoveGroupMember

LEMMA RoleChangeKeeps ==
  ASSUME IInv, NEW t \in Txs, ChangeGroupRole(t)
  PROVE  IInv'
<1>1. Holding(t) /\ tx[t].to \in Users /\ tx[t].role \in {"admin", "member"}
  BY CallFields DEF IInv, ChangeGroupRole, Holding
<1>2. role[tx[t].to] \in {"admin", "member"}
  BY <1>1 DEF IInv, HeldInv, ChangeGroupRole, Authorised
<1>3. tx[t].to \in accounts
  BY <1>1, <1>2 DEF IInv, TypeOK
<1> QED
  BY <1>1, <1>2, <1>3, SameLinks, RoleKeeps DEF ChangeGroupRole

LEMMA LeaveKeeps ==
  ASSUME IInv, NEW t \in Txs, LeaveGroup(t)
  PROVE  IInv'
<1>1. Holding(t) /\ tx[t].by \in Users
  BY CallFields DEF IInv, LeaveGroup, Holding
<1>2. role[tx[t].by] # "owner"
  BY <1>1 DEF IInv, HeldInv, LeaveGroup, Authorised
<1> QED
  BY <1>1, <1>2, SameLinks, RoleKeeps DEF LeaveGroup

LEMMA JoinKeeps ==
  ASSUME IInv, NEW t \in Txs, AcceptGroupInvite(t)
  PROVE  IInv'
<1> DEFINE l == tx[t].link
<1>1. Holding(t) /\ tx[t].by \in Users /\ l \in Links
  BY CallFields DEF IInv, AcceptGroupInvite, Holding
<1>2. role[tx[t].by] = "none" /\ link[l].uses < MaxUses
  BY <1>1 DEF IInv, HeldInv, AcceptGroupInvite, Authorised, MayJoin
<1>3. CASE tx[t].by \in accounts
  <2>1. /\ link' = [link EXCEPT ![l].uses = @ + 1]
        /\ role' = [role EXCEPT ![tx[t].by] = "member"]
        /\ Ends(t) /\ UNCHANGED <<creator, deleted, restricted, info>>
    BY <1>3 DEF AcceptGroupInvite
  <2>2. link' \in [Links -> [state : LinkState, by : Users \cup {NoOne},
                             uses : Nat, expired : BOOLEAN]]
    BY <1>1, <2>1, SameLinks
  <2>3. \A k \in Links : /\ link'[k].state = link[k].state
                         /\ link'[k].by = link[k].by
                         /\ link'[k].uses <= MaxUses
    BY <1>1, <1>2, <2>1, SameLinks
  <2> QED
    BY <1>1, <1>2, <1>3, <2>1, <2>2, <2>3, RoleKeeps
<1>4. CASE tx[t].by \notin accounts
  <2>1. role' = [role EXCEPT ![tx[t].by] = "none"]
    BY <1>1, <1>2, <1>4 DEF AcceptGroupInvite, IInv, TypeOK
  <2> QED
    BY <1>1, <1>2, <1>4, <2>1, SameLinks, RoleKeeps DEF AcceptGroupInvite
<1> QED
  BY <1>3, <1>4

(* Ownership moves in one commit: one role up, the other down.             *)
LEMMA TransferKeeps ==
  ASSUME IInv, NEW t \in Txs, TransferGroupOwnership(t)
  PROVE  IInv'
<1> DEFINE a == tx[t].by
           u == tx[t].to
<1>1. Holding(t) /\ a \in Users /\ u \in Users
  BY CallFields DEF IInv, TransferGroupOwnership, Holding
<1>2. role[a] = "owner" /\ role[u] # "none" /\ u # a
  BY <1>1 DEF IInv, HeldInv, TransferGroupOwnership, Authorised
<1>3. a = creator /\ u \in accounts
  BY <1>1, <1>2 DEF IInv, OneOwner, TypeOK
<1>4. role' = [role EXCEPT ![a] = "admin", ![u] = "owner"] /\ creator' = u
  BY DEF TransferGroupOwnership
<1>5. role' \in [Users -> Roles \cup {"none"}]
  BY <1>1, <1>4 DEF IInv, TypeOK, Roles
<1>6. \A v \in Users : role'[v] # "none" => v \in accounts
  BY <1>1, <1>2, <1>3, <1>4 DEF IInv, TypeOK
<1>7. OneOwner'
  <2> SUFFICES ASSUME NEW v \in Users PROVE role'[v] = "owner" <=> v = u
    BY <1>4 DEF OneOwner
  <2>1. CASE v = u
    BY <1>1, <1>2, <1>4, <2>1 DEF IInv, TypeOK
  <2>2. CASE v = a
    BY <1>1, <1>2, <1>4, <2>2 DEF IInv, TypeOK
  <2>3. CASE v # u /\ v # a
    BY <1>1, <1>3, <1>4, <2>3 DEF IInv, TypeOK, OneOwner
  <2> QED
    BY <2>1, <2>2, <2>3
<1>8. Ends(t) /\ UNCHANGED <<deleted, restricted, info, link>>
  BY DEF TransferGroupOwnership
<1>9. InviteWithinLimit'
  BY <1>8 DEF IInv, InviteWithinLimit
<1> QED
  BY <1>1, <1>3, <1>4, <1>5, <1>6, <1>7, <1>8, <1>9, CommitKeeps DEF IInv, TypeOK

(* Commits that leave every role as it is.                                 *)
LEMMA SettingKeeps ==
  ASSUME IInv, NEW t \in Txs,
         DeleteGroup(t) \/ SaveGroupPolicy(t) \/ EditGroupInfo(t)
  PROVE  IInv'
<1>1. Holding(t) /\ Ends(t) /\ UNCHANGED <<role, creator, link>>
  BY DEF Holding, DeleteGroup, SaveGroupPolicy, EditGroupInfo
<1>2. deleted' \in BOOLEAN /\ restricted' \subseteq Actions /\ info' \in Infos
  BY CallFields DEF IInv, TypeOK, DeleteGroup, SaveGroupPolicy, EditGroupInfo
<1>3. OneOwner' /\ InviteWithinLimit'
  BY <1>1 DEF IInv, OneOwner, InviteWithinLimit
<1> QED
  BY <1>1, <1>2, <1>3, CommitKeeps DEF IInv, TypeOK

LEMMA LinkKeeps ==
  ASSUME IInv, NEW t \in Txs, CreateGroupInviteLink(t) \/ RevokeGroupInviteLink(t)
  PROVE  IInv'
<1> DEFINE l == tx[t].link
<1>1. /\ Holding(t) /\ Ends(t) /\ l \in Links /\ tx[t].by \in Users
      /\ tx[t].op # "join"
      /\ UNCHANGED <<role, creator, deleted, restricted, info>>
  BY CallFields DEF IInv, Holding, CreateGroupInviteLink, RevokeGroupInviteLink
<1>2. tx[t].by \in accounts
  BY <1>1 DEF IInv, HeldInv, Authorised, TypeOK
<1>3. OneOwner'
  BY <1>1 DEF IInv, OneOwner
<1>4. CASE CreateGroupInviteLink(t)
  <2>1. link' = [link EXCEPT ![l] = [state |-> "live", by |-> tx[t].by,
                                     uses |-> 0, expired |-> FALSE]]
    BY <1>4 DEF CreateGroupInviteLink
  <2>2. link' \in [Links -> [state : LinkState, by : Users \cup {NoOne},
                             uses : Nat, expired : BOOLEAN]]
    BY <1>1, <2>1, SameLinks DEF LinkState
  <2>3. \A k \in Links : link'[k].state = "live" => link'[k].by \in accounts
    BY <1>1, <1>2, <2>1 DEF IInv, TypeOK
  <2>4. InviteWithinLimit'
    BY <1>1, <2>1, SameLinks DEF InviteWithinLimit
  <2> QED
    BY <1>1, <1>3, <2>2, <2>3, <2>4, CommitKeeps DEF IInv, TypeOK
<1>5. CASE RevokeGroupInviteLink(t)
  <2>1. link' = [link EXCEPT ![l].state = "gone"]
    BY <1>5 DEF RevokeGroupInviteLink
  <2>2. link' \in [Links -> [state : LinkState, by : Users \cup {NoOne},
                             uses : Nat, expired : BOOLEAN]]
    BY <1>1, <2>1, SameLinks DEF LinkState
  <2>3. \A k \in Links : link'[k].state = "live" => link'[k].by \in accounts
    BY <1>1, <2>1 DEF IInv, TypeOK
  <2>4. InviteWithinLimit'
    BY <1>1, <2>1, SameLinks DEF InviteWithinLimit
  <2> QED
    BY <1>1, <1>3, <2>2, <2>3, <2>4, CommitKeeps DEF IInv, TypeOK
<1> QED
  BY <1>4, <1>5

-----------------------------------------------------------------------------
(* Accounts that go, and links that expire                                 *)

LEMMA DeleteAccountKeeps ==
  ASSUME IInv, NEW u \in Users, DeleteAccount(u)
  PROVE  IInv'
<1>1. /\ accounts' = accounts \ {u}
      /\ role' = [role EXCEPT ![u] = "none"]
      /\ creator' = IF creator = u THEN NoOne ELSE creator
      /\ UNCHANGED <<deleted, restricted, info, tx>>
      /\ u = creator => Unlocked
      /\ \A t \in Txs : u \notin LockedRows(tx[t])
  BY DEF DeleteAccount
<1>2. \A l \in Links :
        link'[l] = IF link[l].state = "live" /\ link[l].by = u
                   THEN [link[l] EXCEPT !.state = "gone"] ELSE link[l]
  BY DEF DeleteAccount
<1>3. link' \in [Links -> [state : LinkState, by : Users \cup {NoOne},
                           uses : Nat, expired : BOOLEAN]]
  BY SameLinks DEF DeleteAccount, LinkState
<1>4. \A l \in Links : /\ link'[l].state = "live" => link'[l] = link[l] /\ link[l].by # u
                       /\ link'[l].uses = link[l].uses
                       /\ link[l].by # u => link'[l] = link[l]
  BY <1>2, SameLinks
<1>5. TypeOK'
  BY <1>1, <1>3, <1>4 DEF IInv, TypeOK
<1>6. OneOwner'
  BY <1>1 DEF IInv, TypeOK, OneOwner
<1>7. InviteWithinLimit'
  BY <1>4 DEF IInv, InviteWithinLimit
<1>8. OneHolder'
  BY <1>1 DEF IInv, OneHolder, Holding
<1>9. ASSUME NEW t \in Txs, Holding(t) PROVE HeldInv(t)'
  <2>1. u \notin LockedRows(tx[t]) /\ tx'[t] = tx[t]
    BY <1>1
  <2>2. tx[t].by \in Users
    BY <1>9, CallFields DEF IInv
  <2>3. Authorised(tx[t]) /\ HeldInv(t)
    BY <1>9 DEF IInv, HeldInv
  <2>4. CASE tx[t].op = "join"
    <3>1. tx[t].link \in Links /\ link[tx[t].link].by # u
      BY <2>1, <2>4, CallFields DEF LockedRows, IInv
    <3>2. link'[tx[t].link] = link[tx[t].link]
      BY <3>1, <1>4
    <3>3. Authorised(tx[t])'
      BY <1>1, <2>1, <2>3, <2>4, <3>2 DEF Authorised, MayJoin
    <3>4. role[tx[t].by] = "none" => role'[tx[t].by] = "none"
      BY <1>1, <2>2 DEF IInv, TypeOK
    <3> QED
      BY <1>9, <2>1, <2>3, <2>4, <3>3, <3>4 DEF HeldInv
  <2>5. CASE tx[t].op \in {"remove", "role", "transfer"}
    <3>1. tx[t].by # u /\ tx[t].to # u /\ tx[t].to \in Users
      BY <2>1, <2>5, CallFields DEF LockedRows, IInv
    <3>2. role'[tx[t].by] = role[tx[t].by] /\ role'[tx[t].to] = role[tx[t].to]
      BY <1>1, <2>2, <3>1 DEF IInv, TypeOK
    <3>3. Authorised(tx[t])'
      BY <1>1, <2>1, <2>3, <2>5, <3>2 DEF Authorised, MayRemove
    <3> QED
      BY <2>1, <2>5, <3>3 DEF HeldInv
  <2>6. CASE tx[t].op \notin {"join", "remove", "role", "transfer"}
    <3>1. tx[t].by # u
      BY <1>9, <2>1, <2>6 DEF LockedRows, Holding
    <3>2. role'[tx[t].by] = role[tx[t].by]
      BY <1>1, <2>2, <3>1 DEF IInv, TypeOK
    <3>3. Authorised(tx[t])'
      BY <1>1, <2>1, <2>3, <2>6, <3>2 DEF Authorised, GroupAllows
    <3>4. tx[t].op = "add" => role'[tx[t].to] = "none"
      BY <1>1, <1>9, <2>3, CallFields DEF HeldInv, IInv, TypeOK
    <3> QED
      BY <2>1, <2>6, <3>3, <3>4 DEF HeldInv
  <2> QED
    BY <2>4, <2>5, <2>6
<1>10. ASSUME NEW t \in Txs PROVE HeldInv(t)'
  BY <1>1, <1>9 DEF HeldInv, Holding
<1> QED
  BY <1>5, <1>6, <1>7, <1>8, <1>10 DEF IInv

LEMMA ExpireKeeps ==
  ASSUME IInv, NEW l \in Links, Expire(l)
  PROVE  IInv'
<1>1. /\ link' = [link EXCEPT ![l].expired = TRUE]
      /\ UNCHANGED <<role, creator, deleted, restricted, info, accounts, tx>>
  BY DEF Expire
<1>2. \A k \in Links : /\ link'[k].state = link[k].state
                       /\ link'[k].by = link[k].by
                       /\ link'[k].uses = link[k].uses
  BY <1>1, SameLinks
<1>3. link' \in [Links -> [state : LinkState, by : Users \cup {NoOne},
                           uses : Nat, expired : BOOLEAN]]
  BY <1>1, SameLinks
<1>4. TypeOK'
  BY <1>1, <1>2, <1>3 DEF IInv, TypeOK
<1>5. OneOwner' /\ InviteWithinLimit' /\ OneHolder'
  BY <1>1, <1>2 DEF IInv, OneOwner, InviteWithinLimit, OneHolder, Holding
<1>6. ASSUME NEW t \in Txs, Holding(t) PROVE Authorised(tx[t])'
  <2>1. Authorised(tx[t])
    BY <1>6 DEF IInv, HeldInv
  <2>2. tx[t].op = "join" => tx[t].link \in Links
    BY CallFields DEF IInv
  <2> QED
    BY <1>1, <1>2, <2>1, <2>2 DEF Authorised, GroupAllows, MayRemove, MayJoin
<1>7. \A t \in Txs : HeldInv(t)'
  BY <1>1, <1>6 DEF IInv, HeldInv, Holding
<1> QED
  BY <1>4, <1>5, <1>7 DEF IInv

-----------------------------------------------------------------------------
(* Every step                                                              *)

LEMMA StepInv == IInv /\ [Next]_vars => IInv'
<1> SUFFICES ASSUME IInv, [Next]_vars PROVE IInv'
  OBVIOUS
<1>1. ASSUME NEW t \in Txs, Begin(t) PROVE IInv'
  BY <1>1, TakesRow DEF Begin
<1>2. ASSUME NEW t \in Txs, ReadHint(t) PROVE IInv'
  <2>1. PICK u \in accounts, l \in Links :
          tx' = [tx EXCEPT ![t] = [op |-> "hint", by |-> u, link |-> l]]
    BY <1>2 DEF ReadHint
  <2>2. [op |-> "hint", by |-> u, link |-> l] \in Hint
    BY DEF Hint, IInv, TypeOK
  <2> QED
    BY <1>2, <2>1, <2>2, TouchesNothing DEF ReadHint
<1>3. ASSUME NEW t \in Txs, BeginJoin(t) PROVE IInv'
  <2> DEFINE c == [op |-> "join", by |-> tx[t].by, link |-> tx[t].link]
  <2>1. c \in Call
    BY <1>3, CallFields DEF IInv, BeginJoin, Call
  <2>2. CASE Authorised(c) /\ HasEffect(c)
    <3>1. Unlocked /\ tx' = [tx EXCEPT ![t] = c] /\ UNCHANGED <<groupVars, accounts>>
      BY <1>3, <2>2 DEF BeginJoin
    <3> HIDE DEF c
    <3> QED
      BY <2>1, <2>2, <3>1, TakesRow
  <2>3. CASE ~ (Authorised(c) /\ HasEffect(c))
    BY <1>3, <2>3, TouchesNothing DEF BeginJoin
  <2> QED
    BY <2>2, <2>3
<1>4. ASSUME NEW t \in Txs, Commit(t) PROVE IInv'
  BY <1>4, AddKeeps, RemoveKeeps, RoleChangeKeeps, LeaveKeeps, JoinKeeps,
     TransferKeeps, SettingKeeps, LinkKeeps DEF Commit
<1>5. ASSUME NEW t \in Txs, Rollback(t) PROVE IInv'
  BY <1>5, TouchesNothing DEF Rollback
<1>6. CASE UNCHANGED vars
  <2>1. (TypeOK /\ OneOwner /\ InviteWithinLimit /\ OneHolder)'
    BY <1>6 DEF IInv, TypeOK, OneOwner, InviteWithinLimit, OneHolder, Holding
  <2>2. ASSUME NEW t \in Txs PROVE HeldInv(t)'
    BY <1>6 DEF IInv, HeldInv, Holding, Authorised, GroupAllows, MayRemove, MayJoin
  <2> QED
    BY <2>1, <2>2 DEF IInv
<1> QED
  BY <1>1, <1>2, <1>3, <1>4, <1>5, <1>6, DeleteAccountKeeps, ExpireKeeps DEF Next

THEOREM Invariance == Spec => []IInv
<1>1. Init => IInv
  BY InitInv
<1>2. IInv /\ [Next]_vars => IInv'
  BY StepInv
<1> QED
  BY <1>1, <1>2, PTL DEF Spec

(* Types and foreign keys.                                                 *)
THEOREM TypeCorrect == Spec => []TypeOK
<1>1. IInv => TypeOK
  BY DEF IInv
<1> QED
  BY <1>1, Invariance, PTL

(* One owner, who is the group's creator, whatever runs concurrently.      *)
THEOREM SingleOwner == Spec => []OneOwner
<1>1. IInv => OneOwner
  BY DEF IInv
<1> QED
  BY <1>1, Invariance, PTL

(* No more joins through a link than it allows.                            *)
THEOREM InvitesAreLimited == Spec => []InviteWithinLimit
<1>1. IInv => InviteWithinLimit
  BY DEF IInv
<1> QED
  BY <1>1, Invariance, PTL

(* A call that takes effect has the authority it needs at that moment.     *)
LEMMA AuthorityStep ==
  IInv /\ [Next]_vars =>
    [\A t \in Txs : (tx[t].op # "none" /\ groupVars' # groupVars /\ tx'[t] = Idle)
                      => Authorised(tx[t])]_vars
<1> SUFFICES ASSUME IInv, Next, NEW t \in Txs,
                    tx[t].op # "none", groupVars' # groupVars, tx'[t] = Idle
             PROVE  Authorised(tx[t])
  OBVIOUS
<1>1. tx'[t] # tx[t]
  BY DEF Idle
<1>2. PICK s \in Txs : Commit(s)
  BY <1>1 DEF Next, Begin, ReadHint, BeginJoin, Rollback, DeleteAccount, Expire
<1>3. Holding(s) /\ tx' = [tx EXCEPT ![s] = Idle]
  BY <1>2 DEF Commit, Ends, Holding, AddGroupMember, RemoveGroupMember,
     ChangeGroupRole, TransferGroupOwnership, LeaveGroup, DeleteGroup,
     SaveGroupPolicy, EditGroupInfo, CreateGroupInviteLink,
     RevokeGroupInviteLink, AcceptGroupInvite
<1>4. s = t
  BY <1>1, <1>3 DEF IInv, TypeOK
<1> QED
  BY <1>3, <1>4 DEF IInv, HeldInv

THEOREM AuthorityHolds == Spec => AuthorityIsCurrent
<1>1. IInv /\ [Next]_vars =>
        [\A t \in Txs : (tx[t].op # "none" /\ groupVars' # groupVars /\ tx'[t] = Idle)
                          => Authorised(tx[t])]_vars
  BY AuthorityStep
<1> QED
  BY <1>1, Invariance, PTL DEF Spec, AuthorityIsCurrent

(* A deleted group stays as its owner left it.                             *)
LEMMA FrozenStep ==
  IInv /\ [Next]_vars =>
    [deleted => /\ UNCHANGED <<deleted, restricted, info>>
                /\ \A u \in accounts' : role'[u] = role[u]]_vars
<1> SUFFICES ASSUME IInv, Next, deleted
             PROVE  /\ UNCHANGED <<deleted, restricted, info>>
                    /\ \A u \in accounts' : role'[u] = role[u]
  OBVIOUS
<1>1. ASSUME NEW t \in Txs, Commit(t) PROVE FALSE
  <2>1. Holding(t)
    BY <1>1 DEF Commit, Holding, AddGroupMember, RemoveGroupMember,
       ChangeGroupRole, TransferGroupOwnership, LeaveGroup, DeleteGroup,
       SaveGroupPolicy, EditGroupInfo, CreateGroupInviteLink,
       RevokeGroupInviteLink, AcceptGroupInvite
  <2> QED
    BY <2>1 DEF IInv, HeldInv, Authorised
<1>2. ASSUME NEW u \in Users, DeleteAccount(u)
      PROVE  /\ UNCHANGED <<deleted, restricted, info>>
             /\ \A v \in accounts' : role'[v] = role[v]
  BY <1>2 DEF DeleteAccount, IInv, TypeOK
<1>3. CASE UNCHANGED <<role, deleted, restricted, info>>
  BY <1>3
<1> QED
  BY <1>1, <1>2, <1>3 DEF Next, Begin, ReadHint, BeginJoin, Rollback, Expire

THEOREM DeletedStays == Spec => DeletedIsFrozen
<1>1. IInv /\ [Next]_vars =>
        [deleted => /\ UNCHANGED <<deleted, restricted, info>>
                    /\ \A u \in accounts' : role'[u] = role[u]]_vars
  BY FrozenStep
<1> QED
  BY <1>1, Invariance, PTL DEF Spec, DeletedIsFrozen
=============================================================================
