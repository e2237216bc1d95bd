--------------------------- MODULE RealtimeStream ---------------------------
(* How one user's events reach one browser tab.  Events are rows of        *)
(* realtime_events; a trigger notifies the server process that listens,    *)
(* whose listener reads the rows and hands them to the user's stream       *)
(* (server-sent events); a poll of the table does the same for whatever    *)
(* rows it finds.  A stream first replays the table, then goes live.  The  *)
(* listening connection, the stream and the network may break at any       *)
(* moment; the browser then opens a new stream.                            *)
(*                                                                         *)
(* A definition named Bug... is a variant of the one after it with a       *)
(* plausible defect, for the mutants.                                      *)

CONSTANTS
  Events,      \* rows of realtime_events for this user
  Failure,     \* the listener's message to its streams that it failed
  Snapshot     \* a presence event of the connection's start

ASSUME StreamAssumption ==
  Failure \notin Events /\ Snapshot \notin Events

VARIABLES
  row,        \* the event's row
  since,      \* what the browser was when the row was written
  listening,  \* the process has its LISTEN connection
  wire,       \* notifications under way to the process
  pending,    \* identifiers the listener will read
  fetched,    \* rows a flush has read
  polled,     \* rows a poll has read
  delivered,  \* rows the listener has handed on
  stream,     \* the state of the user's stream
  early,      \* what the listener handed to a stream that still replays
  seen,       \* rows this stream has dealt with
  out,        \* rows authorised or on their way to the browser
  browser,    \* the EventSource
  hasId,      \* the EventSource has a Last-Event-ID to send
  known       \* events the browser has handled

tableVars == <<row, since>>
listenerVars == <<listening, wire, pending, fetched, polled, delivered>>
streamVars == <<stream, early, seen, out>>
browserVars == <<browser, hasId, known>>
vars == <<tableVars, listenerVars, streamVars, browserVars>>

Rows == {"none", "stored", "gone"}
Stages == {"none", "subscribed", "replayed", "ready"}

(* The type of every variable; an open EventSource has a stream.           *)
TypeOK ==
  /\ row \in [Events -> Rows]
  /\ since \in [Events -> {"before", "anonymous", "resumable"}]
  /\ listening \in BOOLEAN
  /\ wire \subseteq Events /\ pending \subseteq Events /\ fetched \subseteq Events
  /\ polled \subseteq Events /\ delivered \subseteq Events
  /\ stream \in Stages
  /\ early \subseteq Events \cup {Failure}
  /\ seen \subseteq Events /\ out \subseteq Events \cup {Snapshot}
  /\ browser \in {"new", "retrying", "open", "dead"}
  /\ hasId \in BOOLEAN /\ known \subseteq Events
  /\ browser = "open" <=> stream # "none"

Stored == {e \in Events : row[e] = "stored"}

Init ==
  /\ row = [e \in Events |-> "none"]
  /\ since = [e \in Events |-> "before"]
  /\ listening = FALSE
  /\ wire = {} /\ pending = {} /\ fetched = {} /\ polled = {} /\ delivered = {}
  /\ stream = "none" /\ early = {} /\ seen = {} /\ out = {}
  /\ browser = "new" /\ hasId = FALSE /\ known = {}

-----------------------------------------------------------------------------
(* The table                                                               *)

(* publishToUsers commits; the trigger's notification reaches a process    *)
(* that listens at that moment.                                            *)
PublishToUsers(e) ==
  /\ row[e] = "none"
  /\ row' = [row EXCEPT ![e] = "stored"]
  /\ since' = [since EXCEPT ![e] = IF browser = "new" THEN "before"
                                   ELSE IF hasId THEN "resumable" ELSE "anonymous"]
  /\ wire' = IF listening THEN wire \cup {e} ELSE wire
  /\ UNCHANGED <<listening, pending, fetched, polled, delivered, streamVars, browserVars>>

(* The row is older than ten minutes: neither kept nor replayed.           *)
CleanupRealtimeEvents(e) ==
  /\ row[e] = "stored"
  /\ row' = [row EXCEPT ![e] = "gone"]
  /\ UNCHANGED <<since, listenerVars, streamVars, browserVars>>

-----------------------------------------------------------------------------
(* The stream's end: the tab is told by its network, the listener forgets  *)
(* the subscriber and the browser will ask for a new stream.               *)
Closed ==
  /\ stream' = "none" /\ early' = {} /\ seen' = {} /\ out' = {}
  /\ browser' = "retrying"
  /\ UNCHANGED <<hasId, known>>

(* Deliver: a row the stream has seen is not sent again.                   *)
Sends(S) ==
  /\ out' = out \cup (S \ seen)
  /\ seen' = seen \cup S

(* The subscriber's callback, with rows or with Failure.  The buffer of a  *)
(* stream that still replays holds 4000 rows; the user's typing and        *)
(* presence, not modelled, may have filled it, and then its first row      *)
(* becomes Failure.                                                        *)
HandsOver(S) ==
  \/ /\ stream = "none"
     /\ UNCHANGED <<streamVars, browserVars>>
  \/ /\ stream \in {"subscribed", "replayed"}
     /\ early' \in {early \cup S, early \cup {Failure}}
     /\ UNCHANGED <<stream, seen, out, browserVars>>
  \/ /\ stream = "ready"
     /\ IF Failure \in S
        THEN Closed
        ELSE Sends(S) /\ UNCHANGED <<stream, early, browserVars>>

(* Emit: a row is handed on once per process.                              *)
Emits(S) ==
  /\ HandsOver(S \ delivered)
  /\ delivered' = delivered \cup S

(* The failure is noticed, but the streams are left open.                  *)
BugFailsQuietly ==
  /\ listening' = FALSE /\ wire' = {} /\ pending' = {}
  /\ UNCHANGED <<streamVars, browserVars>>

(* The listener's fail: everything it had yet to read is dropped, and its  *)
(* streams are closed so that their browsers replay.                       *)
Fails ==
  /\ listening' = FALSE /\ wire' = {} /\ pending' = {}
  /\ HandsOver({Failure})

-----------------------------------------------------------------------------
(* The listener                                                            *)

(* A notification of a user without a stream is ignored.  The listener     *)
(* gives up when it has 4000 identifiers to read, of whatever users.       *)
Notify(e) ==
  /\ e \in wire
  /\ \/ /\ stream = "none"
        /\ wire' = wire \ {e}
        /\ UNCHANGED <<listening, pending, streamVars, browserVars>>
     \/ /\ stream # "none"
        /\ wire' = wire \ {e} /\ pending' = pending \cup {e}
        /\ UNCHANGED <<listening, streamVars, browserVars>>
     \/ /\ stream # "none"
        /\ Fails
  /\ UNCHANGED <<tableVars, fetched, polled, delivered>>

(* Flush reads the rows of the identifiers, if the user still has a        *)
(* stream, ...                                                             *)
FlushRead ==
  /\ pending # {} /\ fetched = {} /\ listening
  /\ fetched' = IF stream = "none" THEN {} ELSE pending \cap Stored
  /\ pending' = {}
  /\ UNCHANGED <<tableVars, listening, wire, polled, delivered, streamVars, browserVars>>

(* ... and hands them on, ...                                              *)
FlushEmit ==
  /\ fetched # {}
  /\ Emits(fetched)
  /\ fetched' = {}
  /\ UNCHANGED <<tableVars, listening, wire, pending, polled>>

(* ... or the query fails.                                                 *)
FlushFails ==
  /\ fetched # {}
  /\ fetched' = {}
  /\ IF listening THEN Fails ELSE UNCHANGED <<listening, wire, pending, streamVars, browserVars>>
  /\ UNCHANGED <<tableVars, polled, delivered>>

(* The poll reads whatever rows its cursor and its limit leave.            *)
PollRead ==
  /\ stream # "none" /\ polled = {}
  /\ polled' \in SUBSET Stored /\ polled' # {}
  /\ UNCHANGED <<tableVars, listening, wire, pending, fetched, delivered, streamVars, browserVars>>

PollEmit ==
  /\ polled # {}
  /\ Emits(polled)
  /\ polled' = {}
  /\ UNCHANGED <<tableVars, listening, wire, pending, fetched>>

(* The LISTEN connection breaks.                                           *)
ConnectionFails ==
  /\ listening
  /\ Fails
  /\ UNCHANGED <<tableVars, fetched, polled, delivered>>

(* Another user's stream makes the process listen again.                   *)
OtherSubscribes ==
  /\ ~ listening
  /\ listening' = TRUE
  /\ UNCHANGED <<tableVars, wire, pending, fetched, polled, delivered, streamVars, browserVars>>

-----------------------------------------------------------------------------
(* The stream                                                              *)

(* The process listens before the stream replays, and the presence of the  *)
(* user's peers, if any, is sent first, under identifiers of its own.      *)
Subscribe ==
  /\ browser \in {"new", "retrying"}
  /\ listening' = TRUE
  /\ stream' = "subscribed" /\ browser' = "open"
  /\ early' = {} /\ seen' = {}
  /\ out' \in {{}, {Snapshot}}
  /\ UNCHANGED <<tableVars, wire, pending, fetched, polled, delivered, hasId, known>>

(* Too many streams, or no LISTEN connection to be had: an answer that is  *)
(* not 200 ends an EventSource for good.                                   *)
Refuse ==
  /\ browser \in {"new", "retrying"}
  /\ browser' = "dead"
  /\ UNCHANGED <<tableVars, listenerVars, streamVars, hasId, known>>

(* A browser with a Last-Event-ID is sent every row that is kept, another  *)
(* one the rows of the last second.                                        *)
Replay ==
  /\ stream = "subscribed"
  /\ \E S \in SUBSET Stored : (hasId => S = Stored) /\ Sends(S)
  /\ stream' = "replayed"
  /\ UNCHANGED <<tableVars, listenerVars, early, browserVars>>

(* The rows that came in meanwhile are forgotten.                          *)
BugForgetsEarly ==
  /\ stream = "replayed"
  /\ IF Failure \in early
     THEN Closed
     ELSE stream' = "ready" /\ early' = {} /\ UNCHANGED <<seen, out, browserVars>>
  /\ UNCHANGED <<tableVars, listenerVars>>

(* The rows that came in meanwhile; a failure among them ends the stream.  *)
GoLive ==
  /\ stream = "replayed"
  /\ IF Failure \in early
     THEN Closed
     ELSE /\ stream' = "ready" /\ early' = {}
          /\ Sends(early)
          /\ UNCHANGED browserVars
  /\ UNCHANGED <<tableVars, listenerVars>>

(* The session, the stream's lifetime, a slow tab, a failed authorisation, *)
(* the network or the tab ends the stream.                                 *)
Close ==
  /\ stream # "none"
  /\ Closed
  /\ UNCHANGED <<tableVars, listenerVars>>

(* onmessage                                                               *)
Receive(e) ==
  /\ e \in out
  /\ out' = out \ {e}
  /\ hasId' = TRUE
  /\ known' = known \cup ({e} \cap Events)
  /\ UNCHANGED <<tableVars, listenerVars, stream, early, seen, browser>>

Next ==
  \/ \E e \in Events : PublishToUsers(e) \/ CleanupRealtimeEvents(e) \/ Notify(e)
  \/ FlushRead \/ FlushEmit \/ FlushFails \/ PollRead \/ PollEmit
  \/ ConnectionFails \/ OtherSubscribes
  \/ Subscribe \/ Refuse \/ Replay \/ GoLive \/ Close
  \/ \E e \in Events \cup {Snapshot} : Receive(e)

Spec == Init /\ [][Next]_vars

(* The process and the browser keep going; a stream does not always break  *)
(* before a row it was given has reached the tab.                          *)
Fairness ==
  /\ WF_vars(FlushRead) /\ WF_vars(FlushEmit) /\ WF_vars(Subscribe)
  /\ SF_vars(Replay) /\ SF_vars(GoLive)
  /\ \A e \in Events : WF_vars(Notify(e)) /\ SF_vars(Receive(e))

FairSpec == Spec /\ Fairness

-----------------------------------------------------------------------------
(* The event is on its way to the tab: it is in the stream, or the         *)
(* listener still has to hand it on, or the stream is about to close.      *)
OnItsWay(e) ==
  \/ e \in out \cup early \/ Failure \in early
  \/ e \notin delivered /\ e \in wire \cup pending \cup fetched

(* NothingStranded: an event that was published after the tab had received *)
(* its first one is never left behind by an open stream: until it is too   *)
(* old, the tab knows it, or it is on its way, or a replay is to come that *)
(* includes it.  Failures of the listener, of its queries and of streams,  *)
(* and their order with the replay, are what could leave it behind.        *)
NothingStranded ==
  \A e \in Stored \ known :
    since[e] = "resumable" => browser # "open" \/ stream = "subscribed" \/ OnItsWay(e)

(* EventuallyKnown: such an event reaches the tab, unless it gets too old  *)
(* or the browser has given up on the stream.                              *)
EventuallyKnown ==
  \A e \in Events :
    (row[e] = "stored" /\ since[e] = "resumable")
      ~> (e \in known \/ row[e] = "gone" \/ browser = "dead")

=============================================================================
