---------------------------- MODULE ListenerPoll ----------------------------
(* The poll of the realtime listener: once a second it reads the events of *)
(* all users who have a stream, in order of creation, from a cursor per    *)
(* user, so that a notification that was lost does no harm.  An event is   *)
(* created when its transaction begins and becomes visible when it         *)
(* commits; the database keeps microseconds, the cursor milliseconds.      *)
(*                                                                         *)
(* A definition named Bug... is a variant of the one after it with a       *)
(* plausible defect, for the mutants.                                      *)
EXTENDS Naturals, FiniteSets

CONSTANTS
  Users,     \* users with a stream
  MaxRows,   \* bound on the rows of realtime_events
  Limit,     \* rows read by one poll (400 in the code)
  PerMs,     \* instants of the database clock in a millisecond
  MaxClock   \* bound on the clock

VARIABLES
  clock,    \* now() of the database
  row,      \* row[r]: its state, its user and its created_at
  cursor,   \* cursor[u]: the created_at and id of the last row read for u
  emitted,  \* rows handed to their streams
  late      \* rows whose transaction was open during a poll

vars == <<clock, row, cursor, emitted, late>>

Ids == 1..MaxRows
Position == [at : 0..MaxClock, id : 0..MaxRows]

(* The type of every variable; only rows that were committed are emitted.  *)
TypeOK ==
  /\ clock \in 0..MaxClock
  /\ row \in [Ids -> [state : {"none", "open", "stored"}, user : Users, at : 0..MaxClock]]
  /\ cursor \in [Users -> Position]
  /\ emitted \subseteq {r \in Ids : row[r].state = "stored"}
  /\ late \subseteq Ids

Init ==
  /\ clock = 0
  /\ row \in [Ids -> [state : {"none"}, user : Users, at : {0}]]
  /\ cursor = [u \in Users |-> [at |-> 0, id |-> 0]]
  /\ emitted = {} /\ late = {}

(* (created_at, id) > (cursor.created_at, cursor.id)                       *)
Past(p, c) == p.at > c.at \/ (p.at = c.at /\ p.id > c.id)
Place(r) == [at |-> row[r].at, id |-> r]

(* A Date has no microseconds.                                             *)
Truncated(r) == [at |-> row[r].at - (row[r].at % PerMs), id |-> r]

-----------------------------------------------------------------------------
Tick ==
  /\ clock < MaxClock
  /\ clock' = clock + 1
  /\ UNCHANGED <<row, cursor, emitted, late>>

(* publishToUsers, alone or in a longer transaction, which begins at an    *)
(* instant of its own: a row for each of several users.                    *)
Begin(R) ==
  /\ \A r \in R : row[r].state = "none"
  /\ \A q, r \in R : q # r => row[q].user # row[r].user
  /\ clock < MaxClock
  /\ row' = [r \in Ids |-> IF r \in R THEN [row[r] EXCEPT !.state = "open", !.at = clock]
                           ELSE row[r]]
  /\ clock' = clock + 1
  /\ UNCHANGED <<cursor, emitted, late>>

(* The transaction that began at t.                                        *)
Commit(t) ==
  /\ \E r \in Ids : row[r].state = "open" /\ row[r].at = t
  /\ row' = [r \in Ids |-> IF row[r].state = "open" /\ row[r].at = t
                           THEN [row[r] EXCEPT !.state = "stored"] ELSE row[r]]
  /\ UNCHANGED <<clock, cursor, emitted, late>>

(* The notification's flush moves the cursor as well.                      *)
BugFlushMovesCursor(r) ==
  /\ row[r].state = "stored"
  /\ emitted' = emitted \cup {r}
  /\ cursor' = [cursor EXCEPT ![row[r].user] = Truncated(r)]
  /\ UNCHANGED <<clock, row, late>>

(* The notification arrived, and its flush emits the row.                  *)
Flush(r) ==
  /\ row[r].state = "stored"
  /\ emitted' = emitted \cup {r}
  /\ UNCHANGED <<clock, row, cursor, late>>

Ahead == {r \in Ids : row[r].state = "stored" /\ Past(Place(r), cursor[row[r].user])}

(* The first Limit rows past their users' cursors.                         *)
IsPage(P) ==
  /\ P \subseteq Ahead
  /\ Cardinality(P) = IF Cardinality(Ahead) < Limit THEN Cardinality(Ahead) ELSE Limit
  /\ \A r \in P, q \in Ahead \ P : Past(Place(q), Place(r))

(* Each user's cursor moves to the last row of the user's in the page.     *)
CursorAfter(P) ==
  [u \in Users |->
     LET mine == {r \in P : row[r].user = u}
     IN IF mine = {} THEN cursor[u]
        ELSE Truncated(CHOOSE r \in mine : \A q \in mine \ {r} : Past(Place(r), Place(q)))]

Poll ==
  /\ \E P \in SUBSET Ahead :
       /\ P # {} /\ IsPage(P)
       /\ emitted' = emitted \cup P
       /\ cursor' = CursorAfter(P)
  /\ late' = late \cup {r \in Ids : row[r].state = "open"}
  /\ UNCHANGED <<clock, row>>

Next ==
  \/ Tick \/ Poll
  \/ \E R \in SUBSET Ids \ {{}} : Begin(R)
  \/ \E t \in 0..MaxClock : Commit(t)
  \/ \E r \in Ids : Flush(r)

Spec == Init /\ [][Next]_vars

-----------------------------------------------------------------------------
(* NothingPassed: a row that was not handed to its stream is ahead of its  *)
(* user's cursor, so that the poll will still find it, whichever           *)
(* notifications arrive or not.  The exception is a row whose transaction  *)
(* was open while a poll went by.                                          *)
NothingPassed ==
  \A r \in Ids : row[r].state = "stored" => r \in emitted \cup Ahead \cup late
=============================================================================
