-------------------------- MODULE MCRealtimeStream --------------------------
(* The server's streams from four sides: one event in all of               *)
(* RealtimeStream, several rows under ListenerPoll's cursors, several      *)
(* streams in Presence's registry, and what MessageView shows of one       *)
(* message.  The four share no variable; part says which of them a         *)
(* behaviour is about, and Looked which of them a run looks at.            *)
EXTENDS RealtimeStream, Naturals, FiniteSets, Sequences

CONSTANTS Looked
CONSTANTS Users, MaxRows, Limit, PerMs, MaxClock
CONSTANTS Tabs, Entries, Cap, NoEntry
CONSTANTS MaxEdits, Lives, Hideable, Nothing
VARIABLES part, clock, rows, cursor, emitted, late
VARIABLES registry, count, tab, leaves, owing
VARIABLES life, text, deleted, hidden, deadline, cleaned, owed, published, transit, chain, read,
          socket, received, behind, page, reply, view, overtaken, ahead

pollVars == <<clock, rows, cursor, emitted, late>>
presenceVars == <<registry, count, tab, leaves, owing>>
viewVars == <<life, text, deleted, hidden, deadline, cleaned, owed, published, transit, chain, read,
              socket, received, behind, page, reply, view, overtaken, ahead>>
L == INSTANCE ListenerPoll WITH row <- rows
P == INSTANCE Presence
V == INSTANCE MessageView

ASSUME SizesAssumption ==
  /\ MaxRows \in Nat /\ MaxClock \in Nat /\ Cap \in Nat
  /\ Limit \in Nat \ {0} /\ PerMs \in Nat \ {0}
  /\ IsFiniteSet(Tabs) /\ NoEntry \notin Entries

ASSUME ViewAssumption ==
  /\ MaxEdits \in Nat /\ Hideable \subseteq Lives
  /\ Lives \subseteq {"plain", "disappearing", "selfDestruct"}
  /\ Nothing \notin [text : 0..MaxEdits, veiled : BOOLEAN, deleted : BOOLEAN, due : BOOLEAN]

Parts == <<part, vars, pollVars, presenceVars, viewVars>>

(* The rows' users matter to the poll alone, and the beginnings of a       *)
(* message to its view.                                                    *)
PartsInit ==
  /\ part \in Looked \cap {"stream", "poll", "presence", "view"}
  /\ Init /\ L!Init /\ P!Init /\ V!Init
  /\ part # "poll" => \A r, q \in L!Ids : rows[r].user = rows[q].user
  /\ part # "view" => life = (CHOOSE l \in Lives : TRUE) /\ published = {} /\ view = Nothing

PartsNext ==
  \/ part = "stream" /\ Next /\ UNCHANGED <<part, pollVars, presenceVars, viewVars>>
  \/ part = "poll" /\ L!Next /\ UNCHANGED <<part, vars, presenceVars, viewVars>>
  \/ part = "presence" /\ P!Next /\ UNCHANGED <<part, vars, pollVars, viewVars>>
  \/ part = "view" /\ V!Next /\ UNCHANGED <<part, vars, pollVars, presenceVars>>

(* The fairness of RealtimeStream, in its part.                            *)
PartsSpec ==
  /\ PartsInit /\ [][PartsNext]_Parts
  /\ WF_vars(part = "stream" /\ FlushRead) /\ WF_vars(part = "stream" /\ FlushEmit)
  /\ WF_vars(part = "stream" /\ Subscribe)
  /\ SF_vars(part = "stream" /\ Replay) /\ SF_vars(part = "stream" /\ GoLive)
  /\ \A e \in Events : /\ WF_vars(part = "stream" /\ Notify(e))
                       /\ SF_vars(part = "stream" /\ Receive(e))

(* A row not yet handed on is ahead of its user's cursor, unless its       *)
(* transaction was open during a poll (RealtimeListener.poll).             *)
NothingPassed == L!NothingPassed

(* The registry of streams counts what there is, and the peers learn of    *)
(* the last one's end (addConnection, removeConnection, cleanup).          *)
PresenceIsTrue == P!PresenceIsTrue

(* Once every event has arrived and the history was read, the tab shows    *)
(* the message as it is (currentMessageEvent, reconcileRecentMessages).    *)
Converges == V!Converges

(* No late or replayed event brings back what was changed or deleted       *)
(* (messageDelivery, onmessage).                                           *)
NeverReverts == V!NeverReverts

(* A text with a deadline is shown only where the deadline is known, so    *)
(* that it is removed in time (getMessageDTO, message:lifetime).           *)
DeadlineIsKnown == V!DeadlineIsKnown

=============================================================================
