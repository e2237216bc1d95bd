------------------------ MODULE MCGroupMembership ------------------------
(* A small instance of GroupMembership, one group, and of Communities, one *)
(* community and the groups that are its channels.  The two share no       *)
(* variable; part says which of them a behaviour is about.                 *)
EXTENDS GroupMembership, TLC

CONSTANTS Channels, MaxOwn
VARIABLES part, people, member, founder, public, channel, work, touched

ASSUME BoundAssumption == MaxOwn \in Nat

communityVars == <<people, member, founder, public, channel, work, touched>>
C == INSTANCE Communities

(* The part that is not looked at keeps one state.                         *)
PartsInit ==
  /\ part \in {"group", "community"} /\ Init /\ C!Init
  /\ part = "group" => founder = creator /\ public
  /\ part = "community" =>
       /\ creator = founder /\ info = (CHOOSE i \in Infos : TRUE)
       /\ \A u \in Users : role[u] # "none"

PartsNext ==
  \/ part = "group" /\ Next /\ UNCHANGED <<part, communityVars>>
  \/ part = "community" /\ C!Next /\ UNCHANGED <<part, vars>>

PartsSpec == PartsInit /\ [][PartsNext]_<<part, vars, communityVars>>

(* Members of the community and of its channels agree (createChannel,      *)
(* joinCommunity, manageCommunity).                                        *)
ChannelsFollow == C!ChannelsFollow

Symmetry == Permutations(Users) \cup Permutations(Txs) \cup Permutations(Channels)
=============================================================================
