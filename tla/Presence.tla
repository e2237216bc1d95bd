------------------------------ MODULE Presence ------------------------------
(* How many streams one user has open on this server.  The registry holds  *)
(* an entry per user; opening and closing a stream change its count and    *)
(* then wait for the database, while other streams open and close.  A      *)
(* definition named Bug... is a plausible defect of one below it, for the  *)
(* mutants.                                                                *)
EXTENDS Naturals, FiniteSets

CONSTANTS
  Tabs,     \* streams the user may have at a time, open or not
  Entries,  \* objects the registry may hold
  Cap,      \* streams allowed (5 in the code)
  NoEntry   \* the registry has no entry of the user

VARIABLES
  registry, \* the user's entry
  count,    \* connections of each entry
  tab,      \* what each stream is doing
  leaves,   \* the entry it saw when it closed
  owing     \* history: the user came online and nobody was told of the end

vars == <<registry, count, tab, leaves, owing>>

Registered == {t \in Tabs : tab[t] \in {"joining", "open"}}

(* The type of every variable; an entry whose count is 0 is on its way out *)
(* of the registry.                                                        *)
TypeOK ==
  /\ registry \in Entries \cup {NoEntry} /\ owing \in BOOLEAN
  /\ count \in [Entries -> 0..Cardinality(Tabs)]
  /\ tab \in [Tabs -> {"none", "admitted", "joining", "open", "leaving", "announcing"}]
  /\ leaves \in [Tabs -> Entries \cup {NoEntry}]
  /\ registry # NoEntry /\ count[registry] = 0 => \E t \in Tabs : leaves[t] = registry

Init ==
  /\ registry = NoEntry /\ count = [e \in Entries |-> 0]
  /\ tab = [t \in Tabs |-> "none"] /\ leaves = [t \in Tabs |-> NoEntry]
  /\ owing = FALSE

ConnectionCount == IF registry = NoEntry THEN 0 ELSE count[registry]
Goes(t, stage) == tab' = [tab EXCEPT ![t] = stage]

(* GET: the count is read before the listener subscribes.                  *)
Admit(t) ==
  /\ tab[t] = "none" /\ ConnectionCount < Cap
  /\ Goes(t, "admitted")
  /\ UNCHANGED <<registry, count, leaves, owing>>

(* addConnection: an entry that is about to go is replaced.                *)
AddConnection(t) ==
  /\ tab[t] = "admitted" /\ Goes(t, "joining")
  /\ IF ConnectionCount > 0
     THEN /\ count' = [count EXCEPT ![registry] = @ + 1]
          /\ UNCHANGED <<registry, owing>>
     ELSE \E e \in Entries \ ({registry} \cup {leaves[s] : s \in Tabs}) :
            registry' = e /\ count' = [count EXCEPT ![e] = 1] /\ owing' = TRUE
  /\ UNCHANGED leaves

(* The registration is done; too many streams may have come this far.      *)
Open(t) ==
  /\ tab[t] = "joining" /\ ConnectionCount <= Cap /\ Goes(t, "open")
  /\ UNCHANGED <<registry, count, leaves, owing>>

(* For the mutants: a stream counts as registered when its registration is *)
(* done.                                                                   *)
BugRemoveConnection(t) ==
  LET left == count[registry] - 1 IN
  /\ tab[t] \in {"joining", "open"}
  /\ IF tab[t] = "joining" THEN UNCHANGED <<count, leaves>> /\ Goes(t, "none")
     ELSE /\ count' = [count EXCEPT ![registry] = left]
          /\ IF left > 0 THEN Goes(t, "none") /\ UNCHANGED leaves
             ELSE Goes(t, "leaving") /\ leaves' = [leaves EXCEPT ![t] = registry]
  /\ UNCHANGED <<registry, owing>>

(* removeConnection, from cleanup: the browser goes away, the session or   *)
(* the stream's time is over, a buffer is full, or there are too many.     *)
RemoveConnection(t) ==
  LET left == count[registry] - 1 IN
  /\ tab[t] \in {"joining", "open"}
  /\ count' = [count EXCEPT ![registry] = left]
  /\ IF left > 0 THEN Goes(t, "none") /\ UNCHANGED leaves
     ELSE Goes(t, "leaving") /\ leaves' = [leaves EXCEPT ![t] = registry]
  /\ UNCHANGED <<registry, owing>>

(* A request that was admitted is given up before it is registered.        *)
Abort(t) ==
  /\ tab[t] = "admitted" /\ Goes(t, "none")
  /\ UNCHANGED <<registry, count, leaves, owing>>

(* removeConnection, when the time last seen is written.                   *)
Forget(t) ==
  /\ tab[t] = "leaving" /\ leaves' = [leaves EXCEPT ![t] = NoEntry]
  /\ IF count[leaves[t]] > 0 \/ registry # leaves[t]
     THEN Goes(t, "none") /\ UNCHANGED <<registry, owing>>
     ELSE registry' = NoEntry /\ owing' = FALSE /\ Goes(t, "announcing")
  /\ UNCHANGED count

(* publishToUsers(peersOf): the user's peers are told.                     *)
Announce(t) ==
  /\ tab[t] = "announcing" /\ Goes(t, "none")
  /\ UNCHANGED <<registry, count, leaves, owing>>

Next == \E t \in Tabs : \/ Admit(t) \/ AddConnection(t) \/ Open(t) \/ RemoveConnection(t)
                        \/ Abort(t) \/ Forget(t) \/ Announce(t)

Spec == Init /\ [][Next]_vars

-----------------------------------------------------------------------------
(* However streams open and close around the writes, when the last one is  *)
(* gone the user's peers have been told (cleanup).                         *)
EndIsAnnounced == (\A t \in Tabs : tab[t] \in {"none", "admitted"}) => ~ owing

(* The registry counts the registered streams, across entries that are     *)
(* replaced while they leave (addConnection, removeConnection).            *)
CountIsTrue == ConnectionCount = Cardinality(Registered)

(* Although the count is read before the stream is registered, no more     *)
(* streams than allowed ever open (GET).                                   *)
WithinCap == Cardinality({t \in Tabs : tab[t] = "open"}) <= Cap

(* PresenceIsTrue: in every order in which streams join, leave and come    *)
(* back while the database is asked, the registry stays sound and no end   *)
(* is kept from the peers.                                                 *)
PresenceIsTrue == TypeOK /\ CountIsTrue /\ WithinCap /\ EndIsAnnounced
=============================================================================
