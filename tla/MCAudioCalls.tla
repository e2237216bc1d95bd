---------------------------- MODULE MCAudioCalls ----------------------------
(* Two ways for two people to meet for a limited time: AudioCalls, for two *)
(* people, one of them with two browsers, and TemporaryRooms.  The two     *)
(* share no variable; part says which of them a behaviour is about, and    *)
(* Looked which of them a run looks at.                                    *)
EXTENDS AudioCalls, TLC

CONSTANTS Looked, Host, Joiners, Author, Nobody, Life, Extra, MaxLife, Page, Scenes
VARIABLES part, scene, room, log, posts, tab, asked, acked, granted

roomVars == <<scene, room, log, posts, tab, asked, acked, granted>>
R == INSTANCE TemporaryRooms WITH req <- posts

ASSUME RoomsAssumption ==
  /\ Host \notin Joiners /\ Nobody \notin R!People
  /\ Author \in [R!Messages -> {"host", "guest"}]
  /\ Extra \subseteq Nat \ {0} /\ Life \in Nat \ {0} /\ Life <= MaxLife /\ Page \in Nat \ {0}
  /\ MaxLife \in Nat /\ Scenes \subseteq [watched : SUBSET R!People, asks : Nat]

(* The part that is not looked at keeps one state.                         *)
PartsInit ==
  /\ part \in Looked \cap {"calls", "rooms"} /\ Init /\ R!Init
  /\ part = "calls" => scene = (CHOOSE s \in Scenes : TRUE)

PartsNext ==
  \/ part = "calls" /\ Next /\ UNCHANGED <<part, roomVars>>
  \/ part = "rooms" /\ R!Next /\ UNCHANGED <<part, vars>>

PartsSpec == PartsInit /\ [][PartsNext]_<<part, vars, roomVars>>

(* The two who are in the room see what was sent, all of it, in order and  *)
(* once (temporary-room.tsx: refresh, suspend; actOnTemporaryRoom).        *)
RoomIsSound == R!RoomIsSound

(* The room lives as long as its creator chose and somebody else than the  *)
(* asker approved (actOnTemporaryRoom: extend, approve).                   *)
LifeIsConsented == R!LifeIsConsented

(* A visible tab that does not show the room as it is has a reason to look *)
(* again (temporary-room.tsx: refresh and its effects, events/route.ts).   *)
CaughtUp == R!CaughtUp

-----------------------------------------------------------------------------
CONSTANTS ada, bob, a1, b1, b2, m1, m2

OneChat  == {{ada, bob}}
Browsers == {a1, b1, b2}
OwnerOf  == [c \in Browsers |-> IF c = a1 THEN ada ELSE bob]

OneEach == m1 :> "host" @@ m2 :> "guest"
SmallScenes == {[watched |-> {}, asks |-> 2], [watched |-> {Host}, asks |-> 0]}

CallSymmetry == Permutations(Requests) \cup Permutations(Calls) \cup Permutations({b1, b2})
RoomSymmetry == Permutations(Requests) \cup Permutations(Joiners)
=============================================================================
