------------------------ MODULE RealtimeStream_proofs ------------------------
(* No event is stranded by an open stream, for every set of events and     *)
(* every history of its failures; no row is passed by the poll's cursors;  *)
(* the registry of streams counts what there is; and what a tab shows of a *)
(* message follows the message.                                            *)
EXTENDS MCRealtimeStream, FiniteSetTheorems, TLAPS

(* What the listener holds are rows that were written.                     *)
Written ==
  \A e \in Events :
    e \in wire \cup pending \cup fetched \cup polled \cup delivered => row[e] # "none"

(* An event counts as resumable only for a browser that can resume.        *)
Resumes == \A e \in Events : since[e] = "resumable" => hasId

(* A stream of a process that does not listen is about to close; a live    *)
(* stream buffers nothing.                                                 *)
Closing ==
  /\ stream # "none" /\ ~ listening => Failure \in early /\ stream # "ready"
  /\ stream = "ready" => early = {}

(* What a stream has dealt with is on its way to the tab or there.         *)
Dealt == seen \subseteq out \cup known

(* After the replay, whatever the tab misses is on its way.                *)
Covered ==
  \A e \in Stored \ known :
    since[e] = "resumable" /\ stream \in {"replayed", "ready"} => OnItsWay(e)

IInv == TypeOK /\ Written /\ Resumes /\ Closing /\ Dealt /\ Covered

USE StreamAssumption

LEMMA Initially == Init => IInv
  BY DEF Init, IInv, TypeOK, Rows, Stages, Written, Resumes, Closing, Dealt, Covered, Stored

(* What the end of a stream does, and what handing rows over does, to the  *)
(* parts of the invariant that speak of the stream.                        *)
LEMMA ClosedKeeps ==
  ASSUME IInv, Closed
  PROVE  /\ stream' = "none" /\ browser' = "retrying" /\ hasId' = hasId /\ known' = known
         /\ early' \subseteq Events \cup {Failure}
         /\ seen' \subseteq Events /\ out' \subseteq Events \cup {Snapshot}
         /\ Dealt'
  BY DEF Closed, Dealt

LEMMA HandsOverKeeps ==
  ASSUME IInv, NEW S, S \subseteq Events \cup {Failure}, HandsOver(S)
  PROVE  /\ stream' \in Stages /\ stream' \in {stream, "none"}
         /\ early' \subseteq Events \cup {Failure}
         /\ seen' \subseteq Events /\ out' \subseteq Events \cup {Snapshot}
         /\ browser' \in {"new", "retrying", "open", "dead"}
         /\ browser' = "open" <=> stream' # "none"
         /\ hasId' = hasId /\ known' = known
         /\ Dealt'
         /\ stream' = "ready" => early' = {} /\ Failure \notin S
         /\ stream' # "none" => /\ early \subseteq early' /\ out \subseteq out'
                                /\ \/ S \subseteq early' \cup out' \cup known'
                                   \/ Failure \in early'
  <1>1. CASE stream = "none"
    BY <1>1 DEF HandsOver, IInv, TypeOK, streamVars, browserVars, Dealt, Closing
  <1>2. CASE stream \in {"subscribed", "replayed"}
    BY <1>2 DEF HandsOver, IInv, TypeOK, Stages, streamVars, browserVars, Dealt, Closing
  <1>3. CASE stream = "ready" /\ Failure \in S
    BY <1>3 DEF HandsOver, Closed, IInv, TypeOK, Stages, Dealt, Closing
  <1>4. CASE stream = "ready" /\ Failure \notin S
    BY <1>4 DEF HandsOver, Sends, IInv, TypeOK, Stages, browserVars, Dealt, Closing
  <1>5. QED
    BY <1>1, <1>2, <1>3, <1>4 DEF IInv, TypeOK, Stages

LEMMA FailsKeeps ==
  ASSUME IInv, Fails, UNCHANGED <<tableVars, polled, delivered>>,
         fetched' \subseteq fetched
  PROVE  IInv'
  <1>1. /\ stream' \in Stages /\ stream' \in {stream, "none"}
        /\ early' \subseteq Events \cup {Failure}
        /\ seen' \subseteq Events /\ out' \subseteq Events \cup {Snapshot}
        /\ browser' \in {"new", "retrying", "open", "dead"}
        /\ browser' = "open" <=> stream' # "none"
        /\ hasId' = hasId /\ known' = known
        /\ Dealt'
        /\ stream' = "ready" => early' = {} /\ Failure \notin {Failure}
        /\ stream' # "none" => /\ early \subseteq early' /\ out \subseteq out'
                               /\ \/ {Failure} \subseteq early' \cup out' \cup known'
                                  \/ Failure \in early'
    BY HandsOverKeeps DEF Fails
  <1>2. stream' # "none" => Failure \in early' /\ stream' # "ready"
    BY <1>1 DEF Fails, HandsOver, Closed, streamVars, IInv, TypeOK, Stages
  <1>3. TypeOK'
    BY <1>1 DEF Fails, IInv, TypeOK, tableVars
  <1>4. Written' /\ Resumes' /\ Closing'
    BY <1>1, <1>2 DEF Fails, IInv, Written, Resumes, Closing, tableVars
  <1>5. Covered'
    BY <1>2 DEF Covered, OnItsWay
  <1>6. QED
    BY <1>1, <1>3, <1>4, <1>5 DEF IInv

LEMMA EmitsKeeps ==
  ASSUME IInv, NEW S, S \subseteq Events, \A e \in S : row[e] # "none", Emits(S),
         UNCHANGED <<tableVars, listening, wire, pending>>,
         fetched' \subseteq fetched, fetched \ S \subseteq fetched',
         polled' \subseteq polled
  PROVE  IInv'
  <1> DEFINE R == S \ delivered
  <1>1. /\ stream' \in Stages /\ stream' \in {stream, "none"}
        /\ early' \subseteq Events \cup {Failure}
        /\ seen' \subseteq Events /\ out' \subseteq Events \cup {Snapshot}
        /\ browser' \in {"new", "retrying", "open", "dead"}
        /\ browser' = "open" <=> stream' # "none"
        /\ hasId' = hasId /\ known' = known
        /\ Dealt'
        /\ stream' = "ready" => early' = {} /\ Failure \notin R
        /\ stream' # "none" => /\ early \subseteq early' /\ out \subseteq out'
                               /\ \/ R \subseteq early' \cup out' \cup known'
                                  \/ Failure \in early'
    BY HandsOverKeeps DEF Emits
  <1>2. delivered' = delivered \cup S
    BY DEF Emits
  <1>3. TypeOK'
    BY <1>1, <1>2 DEF IInv, TypeOK, tableVars
  <1>4. Written' /\ Resumes'
    BY <1>1, <1>2 DEF IInv, TypeOK, Written, Resumes, tableVars
  <1>5. Closing'
    BY <1>1 DEF IInv, Closing
  <1>6. Covered'
    <2> SUFFICES ASSUME NEW e \in Events, row'[e] = "stored", e \notin known',
                        since'[e] = "resumable", stream' \in {"replayed", "ready"}
                 PROVE  OnItsWay(e)'
      BY DEF Covered, Stored
    <2>1. OnItsWay(e) /\ stream' # "none"
      BY <1>1 DEF IInv, Covered, Stored, tableVars
    <2>2. CASE e \in R
      BY <1>1, <2>1, <2>2 DEF OnItsWay
    <2>3. CASE e \notin R
      BY <1>1, <1>2, <2>1, <2>3 DEF OnItsWay
    <2>4. QED
      BY <2>2, <2>3
  <1>7. QED
    BY <1>1, <1>3, <1>4, <1>5, <1>6 DEF IInv

-----------------------------------------------------------------------------
LEMMA TableStep ==
  ASSUME IInv, NEW e \in Events, PublishToUsers(e) \/ CleanupRealtimeEvents(e)
  PROVE  IInv'
  <1>1. CASE PublishToUsers(e)
    <2> USE <1>1 DEF PublishToUsers, streamVars, browserVars
    <2>1. TypeOK'
      BY DEF IInv, TypeOK, Rows
    <2>2. Written' /\ Resumes' /\ Closing' /\ Dealt'
      BY DEF IInv, TypeOK, Written, Resumes, Closing, Dealt
    <2>3. Covered'
      <3> SUFFICES ASSUME NEW f \in Events, row'[f] = "stored", f \notin known',
                          since'[f] = "resumable", stream' \in {"replayed", "ready"}
                   PROVE  OnItsWay(f)'
        BY DEF Covered, Stored
      <3>1. CASE f = e
        BY <3>1 DEF IInv, TypeOK, Written, Closing, OnItsWay
      <3>2. CASE f # e
        BY <3>2 DEF IInv, TypeOK, Covered, Stored, OnItsWay
      <3>3. QED
        BY <3>1, <3>2
    <2>4. QED
      BY <2>1, <2>2, <2>3 DEF IInv
  <1>2. CASE CleanupRealtimeEvents(e)
    <2> USE <1>2 DEF CleanupRealtimeEvents, listenerVars, streamVars, browserVars
    <2>1. TypeOK'
      BY DEF IInv, TypeOK, Rows
    <2>2. Written' /\ Resumes' /\ Closing' /\ Dealt'
      BY DEF IInv, TypeOK, Written, Resumes, Closing, Dealt
    <2>3. Covered'
      BY DEF IInv, TypeOK, Covered, Stored, OnItsWay
    <2>4. QED
      BY <2>1, <2>2, <2>3 DEF IInv
  <1>3. QED
    BY <1>1, <1>2

LEMMA ListenerStep ==
  ASSUME IInv,
         \/ \E e \in Events : Notify(e)
         \/ FlushRead \/ FlushEmit \/ FlushFails \/ PollRead \/ PollEmit
         \/ ConnectionFails \/ OtherSubscribes
  PROVE  IInv'
  <1>1. ASSUME NEW e \in Events, Notify(e) PROVE IInv'
    <2>1. CASE Fails
      BY <1>1, <2>1, FailsKeeps DEF Notify
    <2>2. CASE /\ wire' = wire \ {e} /\ pending' = pending \cup {e} /\ stream # "none"
               /\ UNCHANGED <<listening, streamVars, browserVars>>
      <3> USE <1>1, <2>2 DEF Notify, tableVars, streamVars, browserVars
      <3>1. TypeOK'
        BY DEF IInv, TypeOK
      <3>2. Written' /\ Resumes' /\ Closing' /\ Dealt'
        BY DEF IInv, TypeOK, Written, Resumes, Closing, Dealt
      <3>3. Covered'
        BY DEF IInv, Covered, Stored, OnItsWay
      <3>4. QED
        BY <3>1, <3>2, <3>3 DEF IInv
    <2>3. CASE /\ stream = "none" /\ wire' = wire \ {e}
               /\ UNCHANGED <<listening, pending, streamVars, browserVars>>
      <3> USE <1>1, <2>3 DEF Notify, tableVars, streamVars, browserVars
      <3>1. TypeOK'
        BY DEF IInv, TypeOK
      <3>2. Written' /\ Resumes' /\ Closing' /\ Dealt' /\ Covered'
        BY DEF IInv, TypeOK, Written, Resumes, Closing, Dealt, Covered
      <3>3. QED
        BY <3>1, <3>2 DEF IInv
    <2>4. QED
      BY <1>1, <2>1, <2>2, <2>3 DEF Notify
  <1>2. CASE FlushRead
    <2> USE <1>2 DEF FlushRead, tableVars, streamVars, browserVars
    <2>1. TypeOK'
      BY DEF IInv, TypeOK, Stored
    <2>2. Written' /\ Resumes' /\ Closing' /\ Dealt'
      BY DEF IInv, TypeOK, Written, Resumes, Closing, Dealt
    <2>3. Covered'
      BY DEF IInv, Covered, Stored, OnItsWay
    <2>4. QED
      BY <2>1, <2>2, <2>3 DEF IInv
  <1>3. CASE FlushEmit
    <2>1. \A e \in fetched : row[e] # "none"
      BY DEF IInv, TypeOK, Written
    <2>2. QED
      BY <1>3, <2>1, EmitsKeeps DEF FlushEmit, IInv, TypeOK
  <1>4. CASE FlushFails
    <2>1. CASE listening
      BY <1>4, <2>1, FailsKeeps DEF FlushFails
    <2>2. CASE ~ listening
      <3> USE <1>4, <2>2 DEF FlushFails, tableVars, streamVars, browserVars
      <3>1. TypeOK'
        BY DEF IInv, TypeOK
      <3>2. Written' /\ Resumes' /\ Closing' /\ Dealt'
        BY DEF IInv, TypeOK, Written, Resumes, Closing, Dealt
      <3>3. Covered'
        BY DEF IInv, Closing, Covered, OnItsWay
      <3>4. QED
        BY <3>1, <3>2, <3>3 DEF IInv
    <2>3. QED
      BY <2>1, <2>2
  <1>5. CASE PollRead
    <2> USE <1>5 DEF PollRead, tableVars, streamVars, browserVars
    <2>1. TypeOK'
      BY DEF IInv, TypeOK, Stored
    <2>2. Written' /\ Resumes' /\ Closing' /\ Dealt'
      BY DEF IInv, TypeOK, Written, Resumes, Closing, Dealt, Stored
    <2>3. Covered'
      BY DEF IInv, Covered, Stored, OnItsWay
    <2>4. QED
      BY <2>1, <2>2, <2>3 DEF IInv
  <1>6. CASE PollEmit
    <2>1. \A e \in polled : row[e] # "none"
      BY DEF IInv, TypeOK, Written
    <2>2. QED
      BY <1>6, <2>1, EmitsKeeps DEF PollEmit, IInv, TypeOK
  <1>7. CASE ConnectionFails
    BY <1>7, FailsKeeps DEF ConnectionFails
  <1>8. CASE OtherSubscribes
    <2> USE <1>8 DEF OtherSubscribes, tableVars, streamVars, browserVars
    <2>1. TypeOK'
      BY DEF IInv, TypeOK
    <2>2. Written' /\ Resumes' /\ Closing' /\ Dealt'
      BY DEF IInv, TypeOK, Written, Resumes, Closing, Dealt
    <2>3. Covered'
      BY DEF IInv, Covered, Stored, OnItsWay
    <2>4. QED
      BY <2>1, <2>2, <2>3 DEF IInv
  <1>9. QED
    BY <1>1, <1>2, <1>3, <1>4, <1>5, <1>6, <1>7, <1>8

LEMMA StreamStep ==
  ASSUME IInv, Subscribe \/ Refuse \/ Replay \/ GoLive \/ Close
  PROVE  IInv'
  <1>1. CASE Subscribe
    <2> USE <1>1 DEF Subscribe, tableVars
    <2>1. TypeOK'
      BY DEF IInv, TypeOK, Stages
    <2>2. Written' /\ Resumes' /\ Closing' /\ Dealt' /\ Covered'
      BY DEF IInv, TypeOK, Written, Resumes, Closing, Dealt, Covered
    <2>3. QED
      BY <2>1, <2>2 DEF IInv
  <1>2. CASE Refuse
    <2> USE <1>2 DEF Refuse, tableVars, listenerVars, streamVars
    <2>1. TypeOK'
      BY DEF IInv, TypeOK
    <2>2. Written' /\ Resumes' /\ Closing' /\ Dealt'
      BY DEF IInv, Written, Resumes, Closing, Dealt
    <2>3. Covered'
      BY DEF IInv, Covered, Stored, OnItsWay
    <2>4. QED
      BY <2>1, <2>2, <2>3 DEF IInv
  <1>3. CASE Replay
    <2> USE <1>3 DEF Replay, Sends, tableVars, listenerVars, browserVars
    <2>1. TypeOK'
      BY DEF IInv, TypeOK, Stages, Stored
    <2>2. Written' /\ Resumes' /\ Closing'
      BY DEF IInv, Written, Resumes, Closing
    <2>3. Dealt'
      BY DEF IInv, Dealt
    <2>4. Covered'
      BY DEF IInv, Covered, Stored, OnItsWay, Resumes, Dealt
    <2>5. QED
      BY <2>1, <2>2, <2>3, <2>4 DEF IInv
  <1>4. CASE GoLive /\ Failure \notin early
    <2> USE <1>4 DEF GoLive, Sends, tableVars, listenerVars, browserVars
    <2>1. TypeOK'
      BY DEF IInv, TypeOK, Stages
    <2>2. Written' /\ Resumes' /\ Closing'
      BY DEF IInv, TypeOK, Written, Resumes, Closing
    <2>3. Dealt'
      BY DEF IInv, Dealt
    <2>4. Covered'
      BY DEF IInv, Covered, Stored, OnItsWay, Dealt
    <2>5. QED
      BY <2>1, <2>2, <2>3, <2>4 DEF IInv
  <1>5. CASE Closed /\ UNCHANGED <<tableVars, listenerVars>>
    <2>1. TypeOK'
      BY <1>5, ClosedKeeps DEF IInv, TypeOK, Stages, tableVars, listenerVars
    <2>2. Written' /\ Resumes' /\ Closing' /\ Dealt' /\ Covered'
      BY <1>5, ClosedKeeps DEF IInv, Written, Resumes, Closing, Covered, tableVars, listenerVars
    <2>3. QED
      BY <2>1, <2>2 DEF IInv
  <1>6. QED
    BY <1>1, <1>2, <1>3, <1>4, <1>5 DEF GoLive, Close

LEMMA BrowserStep ==
  ASSUME IInv, NEW e \in Events \cup {Snapshot}, Receive(e)
  PROVE  IInv'
  <1> USE DEF Receive, tableVars, listenerVars
  <1>1. TypeOK'
    BY DEF IInv, TypeOK
  <1>2. Written' /\ Resumes' /\ Closing'
    BY DEF IInv, TypeOK, Written, Resumes, Closing
  <1>3. Dealt'
    BY DEF IInv, TypeOK, Dealt
  <1>4. Covered'
    BY DEF IInv, Covered, Stored, OnItsWay
  <1>5. QED
    BY <1>1, <1>2, <1>3, <1>4 DEF IInv

LEMMA Stutter ==
  ASSUME IInv, UNCHANGED vars
  PROVE  IInv'
  BY DEF vars, tableVars, listenerVars, streamVars, browserVars, IInv, TypeOK, Written,
         Resumes, Closing, Dealt, Covered, Stored, OnItsWay

LEMMA NextKeeps == IInv /\ [Next]_vars => IInv'
  BY TableStep, ListenerStep, StreamStep, BrowserStep, Stutter DEF Next

(* The inductive invariant.                                                *)
THEOREM Invariance == Spec => []IInv
  <1>1. Init => IInv
    BY Initially
  <1>2. QED
    BY <1>1, NextKeeps, PTL DEF Spec

(* Every variable keeps its type; an open EventSource has a stream.        *)
THEOREM TypeCorrect == Spec => []TypeOK
  BY Invariance, PTL DEF IInv

(* No event is left behind by an open stream, whatever fails and in        *)
(* whatever order: fail, flush, poll, subscribe and the stream's replay.   *)
THEOREM Complete == Spec => []NothingStranded
  <1>1. IInv => NothingStranded
    BY DEF IInv, TypeOK, Stages, Covered, Stored, NothingStranded
  <1>2. QED
    BY <1>1, Invariance, PTL
-----------------------------------------------------------------------------
(* The cursors of ListenerPoll.                                            *)

(* A finite set that is ordered totally has a first element.               *)
LEMMA FirstExists ==
  ASSUME NEW S, IsFiniteSet(S), S # {}, NEW R,
         \A x, y, z \in S : <<x, y>> \in R /\ <<y, z>> \in R => <<x, z>> \in R,
         \A x, y \in S : x # y => <<x, y>> \in R \/ <<y, x>> \in R
  PROVE  \E m \in S : \A x \in S \ {m} : <<m, x>> \in R
  <1> DEFINE First(T) == \E m \in T : \A x \in T \ {m} : <<m, x>> \in R
             Bad == {T \in SUBSET S : T # {} /\ ~ First(T)}
  <1>1. SUFFICES ASSUME S \in Bad PROVE FALSE
    OBVIOUS
  <1>2. Bad \subseteq FiniteSubsetsOf(S)
    BY FS_FiniteSubsetsOfFinite
  <1>3. PICK T \in Bad : \A U \in Bad : ~ (<<U, T>> \in StrictSubsetOrdering(S))
    <2> HIDE DEF Bad
    <2>1. Bad # {}
      BY <1>1
    <2>2. QED
      BY <1>2, <2>1, WFMin, FS_StrictSubsetOrderingWellFounded
  <1>4. PICK a \in T : TRUE
    OBVIOUS
  <1>5. T \ {a} \notin Bad
    <2>1. <<T \ {a}, T>> \in StrictSubsetOrdering(S)
      BY <1>4 DEF StrictSubsetOrdering
    <2>2. QED
      BY <2>1, <1>3
  <1>6. T # {a}
    OBVIOUS
  <1>7. PICK m \in T \ {a} : \A x \in (T \ {a}) \ {m} : <<m, x>> \in R
    BY <1>4, <1>5, <1>6
  <1>8. CASE <<m, a>> \in R
    BY <1>7, <1>8
  <1>9. CASE <<a, m>> \in R
    <2>1. \A x \in T \ {a} : <<a, x>> \in R
      BY <1>4, <1>7, <1>9
    <2>2. QED
      BY <1>4, <2>1
  <1>10. QED
    BY <1>4, <1>7, <1>8, <1>9

(* Cutting a time down to its millisecond never moves it forward.          *)
LEMMA CutDown ==
  ASSUME NEW a \in Nat
  PROVE  a - (a % PerMs) \in 0..a
  BY SizesAssumption

(* A row gets its time before the clock moves on; no cursor is ahead of    *)
(* the clock; and no row that is open, or stored and not handed on, is     *)
(* behind its user's cursor, but for those that a poll saw open.           *)
Timely ==
  /\ \A r \in L!Ids : rows[r].state = "none" \/ rows[r].at < clock
  /\ \A u \in Users : cursor[u].at < clock \/ (cursor[u].at = 0 /\ cursor[u].id = 0)

Waiting == {r \in L!Ids : rows[r].state # "none" /\ r \notin emitted \cup late}

StillAhead == \A r \in Waiting : L!Past(L!Place(r), cursor[rows[r].user])

PollInv == L!TypeOK /\ Timely /\ StillAhead

LEMMA PollInitially == L!Init => PollInv
  BY SizesAssumption
  DEF L!Init, PollInv, L!TypeOK, Timely, StillAhead, Waiting, L!Ids, L!Position, L!Past, L!Place

LEMMA TickKeeps ==
  ASSUME PollInv, L!Tick
  PROVE  PollInv'
  <1>1. /\ clock' = clock + 1 /\ clock' \in 0..MaxClock /\ clock \in Nat
        /\ UNCHANGED <<rows, cursor, emitted, late>>
    BY SizesAssumption DEF L!Tick, PollInv, L!TypeOK
  <1>2. L!TypeOK'
    BY <1>1 DEF PollInv, L!TypeOK
  <1>3. Timely'
    <2>1. \A r \in L!Ids : rows[r].at \in Nat
      BY SizesAssumption DEF PollInv, L!TypeOK
    <2>2. \A u \in Users : cursor[u].at \in Nat
      BY SizesAssumption DEF PollInv, L!TypeOK, L!Position
    <2>3. QED
      BY <1>1, <2>1, <2>2 DEF PollInv, Timely
  <1>4. StillAhead'
    BY <1>1 DEF PollInv, StillAhead, Waiting, L!Past, L!Place
  <1>5. QED
    BY <1>2, <1>3, <1>4 DEF PollInv

Row == [state : {"none", "open", "stored"}, user : Users, at : 0..MaxClock]

(* The rows after a transaction began with those of S.                     *)
LEMMA BegunRows ==
  ASSUME PollInv, NEW S \in SUBSET L!Ids, L!Begin(S)
  PROVE  /\ rows' \in [L!Ids -> Row] /\ clock \in 0..MaxClock /\ clock < MaxClock
         /\ \A r \in S : /\ rows'[r].state = "open" /\ rows'[r].at = clock
                         /\ rows'[r].user \in Users /\ rows[r].state = "none"
         /\ \A r \in L!Ids \ S : rows'[r] = rows[r]
         /\ clock' = clock + 1 /\ UNCHANGED <<cursor, emitted, late>>
  <1>1. rows \in [L!Ids -> Row] /\ clock \in 0..MaxClock /\ clock < MaxClock
    BY DEF PollInv, L!TypeOK, Row, L!Begin
  <1>2. /\ rows' = [r \in L!Ids |->
              IF r \in S THEN [rows[r] EXCEPT !.state = "open", !.at = clock] ELSE rows[r]]
        /\ clock' = clock + 1 /\ UNCHANGED <<cursor, emitted, late>>
        /\ \A r \in S : rows[r].state = "none"
    BY DEF L!Begin
  <1>3. ASSUME NEW r \in S
        PROVE  /\ rows'[r] = [rows[r] EXCEPT !.state = "open", !.at = clock]
               /\ rows[r] \in Row
    BY <1>1, <1>2
  <1>4. ASSUME NEW r \in S
        PROVE  /\ rows'[r] \in Row /\ rows'[r].state = "open" /\ rows'[r].at = clock
               /\ rows'[r].user \in Users
    BY <1>1, <1>3 DEF Row
  <1>5. \A r \in L!Ids \ S : rows'[r] = rows[r]
    BY <1>2
  <1>6. rows' \in [L!Ids -> Row]
    <2>1. \A r \in L!Ids : rows'[r] \in Row
      BY <1>1, <1>4, <1>5
    <2>2. rows' = [r \in L!Ids |-> rows'[r]]
      BY <1>2
    <2>3. QED
      BY <2>1, <2>2
  <1>7. QED
    BY <1>1, <1>2, <1>4, <1>5, <1>6

LEMMA BeginKeeps ==
  ASSUME PollInv, NEW S \in SUBSET L!Ids, L!Begin(S)
  PROVE  PollInv'
  <1> USE SizesAssumption
  <1>1. L!TypeOK'
    <2>1. \A r \in L!Ids : rows[r].state = "stored" => rows'[r].state = "stored"
      BY BegunRows
    <2>2. QED
      BY <2>1, BegunRows DEF PollInv, L!TypeOK, Row
  <1>2. Timely'
    <2>1. \A r \in L!Ids : rows[r].at \in Nat
      BY DEF PollInv, L!TypeOK
    <2>2. \A u \in Users : cursor[u].at \in Nat
      BY DEF PollInv, L!TypeOK, L!Position
    <2>3. \A r \in L!Ids : rows'[r].state = "none" \/ rows'[r].at < clock + 1
      BY <2>1, BegunRows DEF PollInv, Timely
    <2>4. QED
      BY <2>2, <2>3, BegunRows DEF PollInv, Timely
  <1>3. StillAhead'
    <2> SUFFICES ASSUME NEW r \in Waiting'
                 PROVE  L!Past(L!Place(r)', cursor[rows'[r].user])
      BY BegunRows DEF StillAhead, L!Past, L!Place
    <2>1. CASE r \in S
      <3>1. /\ rows'[r].at = clock /\ rows'[r].user \in Users
            /\ clock \in Nat /\ r \in Nat \ {0}
        <4>1. rows'[r].at = clock /\ rows'[r].user \in Users /\ clock \in 0..MaxClock
          BY <2>1, BegunRows
        <4>2. r \in L!Ids
          BY <2>1
        <4> QED
          BY <4>1, <4>2 DEF L!Ids
      <3>2. /\ cursor[rows'[r].user].at \in Nat
            /\ \/ cursor[rows'[r].user].at < clock
               \/ cursor[rows'[r].user].at = 0 /\ cursor[rows'[r].user].id = 0
        BY <3>1 DEF PollInv, L!TypeOK, L!Position, Timely
      <3>3. QED
        BY <3>1, <3>2 DEF L!Past, L!Place
    <2>2. CASE r \notin S
      <3>1. rows'[r] = rows[r] /\ r \in Waiting
        BY <2>2, BegunRows DEF Waiting
      <3>2. QED
        BY <3>1 DEF PollInv, StillAhead, L!Past, L!Place
    <2>3. QED
      BY <2>1, <2>2
  <1>4. QED
    BY <1>1, <1>2, <1>3 DEF PollInv

LEMMA CommitKeeps ==
  ASSUME PollInv, NEW t \in 0..MaxClock, L!Commit(t)
  PROVE  PollInv'
  <1> USE SizesAssumption DEF L!Ids
  <1>0. /\ \A r \in L!Ids : /\ rows[r].state = "stored" => rows'[r] = rows[r]
                            /\ rows'[r] \in [state : {"none", "open", "stored"}, user : Users,
                                            at : 0..MaxClock]
        /\ DOMAIN rows' = L!Ids /\ rows' = [r \in L!Ids |-> rows'[r]]
    BY DEF L!Commit, PollInv, L!TypeOK
  <1>1. L!TypeOK'
    <2>1. rows' \in [L!Ids -> [state : {"none", "open", "stored"}, user : Users, at : 0..MaxClock]]
      BY <1>0
    <2>2. emitted' \subseteq {r \in L!Ids : rows'[r].state = "stored"}
      BY <1>0 DEF L!Commit, PollInv, L!TypeOK
    <2>3. QED
      BY <2>1, <2>2 DEF L!Commit, PollInv, L!TypeOK, L!Position
  <1>2. Timely'
    BY DEF L!Commit, PollInv, L!TypeOK, L!Position, Timely
  <1>3. StillAhead'
    <2>1. /\ cursor' = cursor /\ emitted' = emitted /\ late' = late
          /\ \A r \in L!Ids : /\ rows'[r].at = rows[r].at /\ rows'[r].user = rows[r].user
                              /\ rows'[r].state # "none" => rows[r].state # "none"
      BY DEF L!Commit, PollInv, L!TypeOK
    <2>2. QED
      BY <2>1 DEF PollInv, StillAhead, Waiting, L!Past, L!Place
  <1>4. QED
    BY <1>1, <1>2, <1>3 DEF PollInv

LEMMA FlushKeeps ==
  ASSUME PollInv, NEW r \in L!Ids, L!Flush(r)
  PROVE  PollInv'
  <1>1. L!TypeOK'
    BY DEF L!Flush, PollInv, L!TypeOK, L!Position
  <1>2. Timely' /\ StillAhead'
    BY DEF L!Flush, PollInv, Timely, StillAhead, Waiting, L!Past, L!Place, L!Ids
  <1>3. QED
    BY <1>1, <1>2 DEF PollInv

(* Where a user's cursor goes: it stays, or goes to the last row that was  *)
(* read for the user, cut down to its millisecond.                         *)
LEMMA CursorMoves ==
  ASSUME L!TypeOK, NEW S \in SUBSET L!Ids, NEW u \in Users
  PROVE  \/ L!CursorAfter(S)[u] = cursor[u]
         \/ \E r \in S : rows[r].user = u /\ L!CursorAfter(S)[u] = L!Truncated(r)
  <1> DEFINE mine == {r \in S : rows[r].user = u}
             Last(r) == \A q \in mine \ {r} : L!Past(L!Place(r), L!Place(q))
  <1>1. CASE mine = {}
    BY <1>1 DEF L!CursorAfter
  <1>2. CASE mine # {}
    <2> DEFINE R == {p \in mine \X mine : L!Past(L!Place(p[1]), L!Place(p[2]))}
    <2>1. IsFiniteSet(mine)
      <3>1. IsFiniteSet(L!Ids)
        BY SizesAssumption, FS_Interval DEF L!Ids
      <3>2. QED
        BY <3>1, FS_Subset
    <2>2. \A r \in mine : rows[r].at \in Nat /\ r \in Nat
      BY SizesAssumption DEF L!TypeOK, L!Ids
    <2>3. \A x, y, z \in mine : <<x, y>> \in R /\ <<y, z>> \in R => <<x, z>> \in R
      BY <2>2 DEF L!Past, L!Place
    <2>4. \A x, y \in mine : x # y => <<x, y>> \in R \/ <<y, x>> \in R
      BY <2>2 DEF L!Past, L!Place
    <2>5. \E m \in mine : \A x \in mine \ {m} : <<m, x>> \in R
      <3> HIDE DEF mine, R
      <3>1. QED
        BY <1>2, <2>1, <2>3, <2>4, FirstExists
    <2>6. \E m \in mine : Last(m)
      BY <2>5
    <2>7. PICK m \in mine : m = CHOOSE r \in mine : Last(r)
      <3> HIDE DEF mine, Last
      <3>1. QED
        BY <2>6
    <2>8. L!CursorAfter(S)[u] = L!Truncated(m)
      BY <1>2, <2>7 DEF L!CursorAfter
    <2>9. QED
      BY <2>8
  <1>3. QED
    BY <1>1, <1>2

LEMMA PollKeeps == PollInv /\ L!Poll => PollInv'
  <1> SUFFICES ASSUME PollInv, L!Poll PROVE PollInv'
    OBVIOUS
  <1> USE SizesAssumption
  <1>1. PICK S \in SUBSET L!Ahead :
               L!IsPage(S) /\ emitted' = emitted \cup S /\ cursor' = L!CursorAfter(S)
    BY DEF L!Poll
  <1>2. /\ late' = late \cup {r \in L!Ids : rows[r].state = "open"}
        /\ clock' = clock /\ rows' = rows
    BY DEF L!Poll
  <1>3. S \in SUBSET L!Ids /\ \A r \in S : rows[r].state = "stored"
    BY DEF L!Ahead
  <1>4. \A r \in L!Ids : /\ rows[r].at \in 0..MaxClock /\ rows[r].user \in Users
                         /\ rows[r].at \in Nat /\ r \in Nat
                         /\ rows[r].state \in {"none", "open", "stored"}
    BY DEF PollInv, L!TypeOK, L!Ids
  <1>5. \A r \in S : /\ L!Truncated(r).at \in 0..rows[r].at
                     /\ L!Truncated(r).id = r
                     /\ L!Truncated(r) \in L!Position
    BY <1>3, <1>4, CutDown DEF L!Truncated, L!Position, L!Ids
  <1>6. \A u \in Users :
          \/ cursor'[u] = cursor[u]
          \/ \E r \in S : rows[r].user = u /\ cursor'[u] = L!Truncated(r)
    BY <1>1, <1>3, CursorMoves DEF PollInv
  <1>7. L!TypeOK'
    <2>1. cursor' \in [Users -> L!Position]
      <3>1. cursor' = [u \in Users |-> cursor'[u]]
        BY <1>1 DEF L!CursorAfter
      <3>2. \A u \in Users : cursor'[u] \in L!Position
        BY <1>5, <1>6 DEF PollInv, L!TypeOK
      <3>3. QED
        BY <3>1, <3>2
    <2>2. QED
      BY <1>1, <1>2, <1>3, <2>1 DEF PollInv, L!TypeOK
  <1>8. Timely'
    <2>1. \A u \in Users :
            cursor'[u].at < clock \/ (cursor'[u].at = 0 /\ cursor'[u].id = 0)
      <3> TAKE u \in Users
      <3>1. CASE cursor'[u] = cursor[u]
        BY <3>1 DEF PollInv, Timely
      <3>2. CASE \E r \in S : cursor'[u] = L!Truncated(r)
        <4>1. PICK r \in S : cursor'[u] = L!Truncated(r)
          BY <3>2
        <4>2. rows[r].at < clock /\ clock \in Nat
          BY <1>3 DEF PollInv, Timely, L!TypeOK
        <4>3. QED
          BY <1>3, <1>4, <1>5, <4>1, <4>2
      <3>3. QED
        BY <1>6, <3>1, <3>2
    <2>2. QED
      BY <1>2, <2>1 DEF PollInv, Timely
  <1>9. StillAhead'
    <2> SUFFICES ASSUME NEW r \in Waiting'
                 PROVE  L!Past(L!Place(r), cursor'[rows[r].user])
      BY <1>2 DEF StillAhead, L!Past, L!Place
    <2>1. r \in Waiting /\ r \in L!Ids /\ r \notin S /\ rows[r].state = "stored"
      BY <1>1, <1>2, <1>4 DEF Waiting
    <2>2. L!Past(L!Place(r), cursor[rows[r].user])
      BY <2>1 DEF PollInv, StillAhead
    <2>3. r \in L!Ahead
      BY <2>1, <2>2 DEF L!Ahead
    <2>4. CASE cursor'[rows[r].user] = cursor[rows[r].user]
      BY <2>2, <2>4
    <2>5. CASE \E q \in S : cursor'[rows[r].user] = L!Truncated(q)
      <3>1. PICK q \in S : cursor'[rows[r].user] = L!Truncated(q)
        BY <2>5
      <3>2. L!Past(L!Place(r), L!Place(q))
        BY <1>1, <2>1, <2>3 DEF L!IsPage
      <3>3. QED
        BY <1>3, <1>4, <1>5, <2>1, <3>1, <3>2 DEF L!Past, L!Place
    <2>6. QED
      BY <1>4, <1>6, <2>1, <2>4, <2>5
  <1>10. QED
    BY <1>7, <1>8, <1>9 DEF PollInv

LEMMA PollPartInvariance == PollInv /\ [PartsNext]_Parts => PollInv'
  <1> SUFFICES ASSUME PollInv, [PartsNext]_Parts PROVE PollInv'
    OBVIOUS
  <1>1. CASE L!Next
    BY <1>1, TickKeeps, PollKeeps, BeginKeeps, CommitKeeps, FlushKeeps DEF L!Next
  <1>2. CASE UNCHANGED pollVars
    BY <1>2 DEF pollVars, PollInv, L!TypeOK, Timely, StillAhead, Waiting, L!Ids, L!Position,
                L!Past, L!Place
  <1>3. QED
    BY <1>1, <1>2 DEF PartsNext, Parts

(* Whatever notifications arrive and however polls, transactions and the   *)
(* clock interleave, no row is passed by its user's cursor before it was   *)
(* handed on, but for those whose transaction was open during a poll       *)
(* (RealtimeListener.poll, flush; publishToUsers).                         *)
THEOREM NoRowPassed == PartsSpec => []NothingPassed
  <1>1. PartsInit => PollInv
    BY PollInitially DEF PartsInit
  <1>2. PollInv => NothingPassed
    BY DEF PollInv, StillAhead, Waiting, NothingPassed, L!NothingPassed, L!Ahead
  <1>3. QED
    BY <1>1, <1>2, PollPartInvariance, PTL DEF PartsSpec

-----------------------------------------------------------------------------
(* The registry of Presence.                                               *)

(* Nobody leaves an entry behind unless leaving; a user who came online    *)
(* and whose end was not told is still in the registry.                    *)
Leaving == \A t \in Tabs : leaves[t] # NoEntry => tab[t] = "leaving"
Owed == owing => registry # NoEntry

PresenceInv == P!TypeOK /\ P!CountIsTrue /\ P!WithinCap /\ Leaving /\ Owed

(* The instance's own name for the number of elements.                     *)
LEMMA SameSize == \A S : P!Cardinality(S) = Cardinality(S)
  BY DEF P!Cardinality, Cardinality

Opened == {t \in Tabs : tab[t] = "open"}

LEMMA RegisteredFinite ==
  ASSUME NEW S \in SUBSET Tabs
  PROVE  IsFiniteSet(S) /\ Cardinality(S) \in Nat /\ Cardinality(S) <= Cardinality(Tabs)
  BY SizesAssumption, FS_Subset, FS_CardinalityType

LEMMA PresenceInitially == P!Init => PresenceInv
  <1> SUFFICES ASSUME P!Init PROVE PresenceInv
    OBVIOUS
  <1>1. P!Registered = {} /\ Opened = {} /\ Cardinality({}) = 0
    BY FS_EmptySet DEF P!Init, P!Registered, Opened
  <1>2. Cardinality(Tabs) \in Nat
    BY RegisteredFinite
  <1>3. P!TypeOK
    <2>1. count \in [Entries -> 0..P!Cardinality(Tabs)]
      BY SameSize, <1>2 DEF P!Init
    <2>2. QED
      BY <2>1 DEF P!Init, P!TypeOK
  <1>4. QED
    BY SameSize, <1>1, <1>3, SizesAssumption
    DEF PresenceInv, P!Init, P!CountIsTrue, P!ConnectionCount, P!WithinCap, Leaving, Owed, Opened

(* What the counts are, as long as the invariant holds.                    *)
LEMMA Counted ==
  ASSUME PresenceInv
  PROVE  /\ P!ConnectionCount = Cardinality(P!Registered)
         /\ IsFiniteSet(P!Registered) /\ IsFiniteSet(Opened)
         /\ Cardinality(P!Registered) \in 0..Cardinality(Tabs)
         /\ Cardinality(Tabs) \in Nat
         /\ Cardinality(Opened) \in 0..Cap
         /\ registry = NoEntry => P!Registered = {}
         /\ registry # NoEntry => /\ registry \in Entries
                                  /\ count[registry] = Cardinality(P!Registered)
  <1>1. P!Registered \in SUBSET Tabs /\ Opened \in SUBSET Tabs
    BY DEF P!Registered, Opened
  <1>2. registry = NoEntry => P!Registered = {}
    BY SameSize, <1>1, RegisteredFinite, FS_EmptySet DEF PresenceInv, P!CountIsTrue, P!ConnectionCount
  <1>3. QED
    BY SameSize, <1>1, <1>2, RegisteredFinite
    DEF PresenceInv, P!TypeOK, P!CountIsTrue, P!ConnectionCount, P!WithinCap, Opened

(* A step that leaves the registered and the open streams as they are.     *)
LEMMA SameStreams ==
  ASSUME PresenceInv, UNCHANGED count,
         \/ UNCHANGED registry
         \/ registry' = NoEntry /\ count[registry] = 0 /\ registry # NoEntry,
         P!Registered' = P!Registered, Opened' \subseteq Opened
  PROVE  P!CountIsTrue' /\ P!WithinCap'
  <1>1. /\ P!ConnectionCount' = Cardinality(P!Registered')
    BY Counted DEF P!ConnectionCount
  <1>2. Cardinality(Opened') <= Cardinality(Opened) /\ Cardinality(Opened') \in Nat
    BY Counted, FS_Subset, FS_CardinalityType
  <1>3. QED
    BY SameSize, <1>1, <1>2, Counted, SizesAssumption DEF P!CountIsTrue, P!WithinCap, Opened

LEMMA PresenceSteps ==
  ASSUME PresenceInv, NEW t \in Tabs,
         P!Admit(t) \/ P!Abort(t) \/ P!Announce(t)
  PROVE  PresenceInv'
  <1>1. /\ UNCHANGED <<registry, count, leaves, owing>>
        /\ tab[t] \in {"none", "admitted", "announcing"}
        /\ \E s \in {"none", "admitted"} : tab' = [tab EXCEPT ![t] = s]
    BY DEF P!Admit, P!Abort, P!Announce, P!Goes
  <1>2. P!TypeOK' /\ Leaving' /\ Owed'
    BY SameSize, <1>1 DEF PresenceInv, P!TypeOK, Leaving, Owed
  <1>3. P!Registered' = P!Registered /\ Opened' = Opened
    BY SameSize, <1>1 DEF P!Registered, Opened, PresenceInv, P!TypeOK
  <1>4. QED
    BY <1>1, <1>2, <1>3, SameStreams DEF PresenceInv

LEMMA ForgetKeeps ==
  ASSUME PresenceInv, NEW t \in Tabs, P!Forget(t)
  PROVE  PresenceInv'
  <1>1. /\ tab[t] = "leaving" /\ count' = count /\ leaves' = [leaves EXCEPT ![t] = NoEntry]
        /\ \E s \in {"none", "announcing"} : tab' = [tab EXCEPT ![t] = s]
    BY DEF P!Forget, P!Goes
  <1>2. P!Registered' = P!Registered /\ Opened' = Opened
    BY SameSize, <1>1 DEF P!Registered, Opened, PresenceInv, P!TypeOK
  <1>3. Leaving'
    BY SameSize, <1>1 DEF PresenceInv, P!TypeOK, Leaving
  <1>4. CASE count[leaves[t]] > 0 \/ registry # leaves[t]
    <2>1. registry' = registry /\ owing' = owing
      BY <1>4 DEF P!Forget
    <2>2. registry # NoEntry /\ count[registry] = 0 => \E s \in Tabs \ {t} : leaves[s] = registry
      BY SameSize, <1>4 DEF PresenceInv, P!TypeOK
    <2>3. P!TypeOK' /\ Owed'
      BY SameSize, <1>1, <2>1, <2>2 DEF PresenceInv, P!TypeOK, Owed
    <2>4. QED
      BY <1>1, <1>2, <1>3, <2>1, <2>3, SameStreams DEF PresenceInv
  <1>5. CASE ~ (count[leaves[t]] > 0 \/ registry # leaves[t])
    <2>1. registry' = NoEntry /\ owing' = FALSE
      BY <1>5 DEF P!Forget
    <2>2. P!TypeOK' /\ Owed'
      BY SameSize, <1>1, <2>1 DEF PresenceInv, P!TypeOK, Owed
    <2>3. UNCHANGED registry \/ (registry # NoEntry /\ count[registry] = 0)
      <3>1. registry # NoEntry => count[registry] \in Nat
        BY Counted
      <3>2. QED
        BY <1>5, <2>1, <3>1
    <2>4. QED
      BY <1>1, <1>2, <1>3, <2>1, <2>2, <2>3, SameStreams DEF PresenceInv
  <1>6. QED
    BY <1>4, <1>5

LEMMA OpenKeeps ==
  ASSUME PresenceInv, NEW t \in Tabs, P!Open(t)
  PROVE  PresenceInv'
  <1>1. /\ UNCHANGED <<registry, count, leaves, owing>> /\ tab[t] = "joining"
        /\ tab' = [tab EXCEPT ![t] = "open"] /\ P!ConnectionCount <= Cap
    BY DEF P!Open, P!Goes
  <1>2. P!TypeOK' /\ Leaving' /\ Owed'
    BY SameSize, <1>1 DEF PresenceInv, P!TypeOK, Leaving, Owed
  <1>3. P!Registered' = P!Registered /\ Opened' \subseteq P!Registered
    BY SameSize, <1>1 DEF P!Registered, Opened, PresenceInv, P!TypeOK
  <1>4. P!CountIsTrue'
    BY SameSize, <1>1, <1>3, Counted DEF P!CountIsTrue, P!ConnectionCount
  <1>5. P!WithinCap'
    <2>1. Cardinality(Opened') <= Cardinality(P!Registered) /\ Cardinality(Opened') \in Nat
      BY <1>3, Counted, FS_Subset, FS_CardinalityType
    <2>2. QED
      BY SameSize, <1>1, <2>1, Counted, SizesAssumption DEF P!WithinCap, Opened
  <1>6. QED
    BY <1>2, <1>4, <1>5 DEF PresenceInv

LEMMA AddConnectionKeeps ==
  ASSUME PresenceInv, NEW t \in Tabs, P!AddConnection(t)
  PROVE  PresenceInv'
  <1>1. tab[t] = "admitted" /\ tab' = [tab EXCEPT ![t] = "joining"] /\ leaves' = leaves
    BY DEF P!AddConnection, P!Goes
  <1>2. /\ P!Registered' = P!Registered \cup {t} /\ t \notin P!Registered /\ Opened' = Opened
    BY SameSize, <1>1 DEF P!Registered, Opened, PresenceInv, P!TypeOK
  <1>3. /\ Cardinality(P!Registered') = Cardinality(P!Registered) + 1
        /\ Cardinality(P!Registered') \in 1..Cardinality(Tabs)
    <2>1. Cardinality(P!Registered') = Cardinality(P!Registered) + 1
      BY <1>2, Counted, FS_AddElement
    <2>2. Cardinality(P!Registered') <= Cardinality(Tabs)
      BY RegisteredFinite DEF P!Registered
    <2>3. QED
      BY <2>1, <2>2, Counted
  <1>4. P!WithinCap' /\ Leaving'
    BY SameSize, <1>1, <1>2 DEF PresenceInv, P!WithinCap, Opened, Leaving, P!TypeOK
  <1>5. CASE P!ConnectionCount > 0
    <2>1. /\ registry # NoEntry
          /\ count' = [count EXCEPT ![registry] = @ + 1] /\ UNCHANGED <<registry, owing>>
      BY <1>5 DEF P!AddConnection, P!ConnectionCount
    <2>2. /\ count[registry] = Cardinality(P!Registered) /\ registry \in Entries
      BY <2>1, Counted
    <2>3. count'[registry] = Cardinality(P!Registered')
      BY SameSize, <1>3, <2>1, <2>2 DEF PresenceInv, P!TypeOK
    <2>4. P!TypeOK'
      BY SameSize, <1>1, <1>3, <2>1, <2>2, Counted DEF PresenceInv, P!TypeOK
    <2>5. P!CountIsTrue' /\ Owed'
      BY SameSize, <2>1, <2>3 DEF P!CountIsTrue, P!ConnectionCount, PresenceInv, Owed
    <2>6. QED
      BY <1>4, <2>4, <2>5 DEF PresenceInv
  <1>6. CASE ~ (P!ConnectionCount > 0)
    <2>1. PICK e \in Entries \ ({registry} \cup {leaves[s] : s \in Tabs}) :
                 registry' = e /\ count' = [count EXCEPT ![e] = 1] /\ owing' = TRUE
      BY <1>6 DEF P!AddConnection
    <2>2. Cardinality(P!Registered) = 0 /\ Cardinality(P!Registered') = 1
      BY <1>3, <1>6, Counted
    <2>3. P!TypeOK'
      BY SameSize, <1>1, <1>3, <2>1, <2>2, Counted DEF PresenceInv, P!TypeOK
    <2>4. registry' # NoEntry
      BY <2>1, SizesAssumption
    <2>5. P!CountIsTrue' /\ Owed'
      BY SameSize, <2>1, <2>2, <2>4 DEF P!CountIsTrue, P!ConnectionCount, PresenceInv, Owed, P!TypeOK
    <2>6. QED
      BY <1>4, <2>3, <2>5 DEF PresenceInv
  <1>7. QED
    BY <1>5, <1>6

LEMMA RemoveConnectionKeeps ==
  ASSUME PresenceInv, NEW t \in Tabs, P!RemoveConnection(t)
  PROVE  PresenceInv'
  <1>1. /\ t \in P!Registered /\ UNCHANGED <<registry, owing>>
        /\ count' = [count EXCEPT ![registry] = count[registry] - 1]
    BY DEF P!RemoveConnection, P!Registered
  <1>2. /\ registry \in Entries /\ registry # NoEntry
        /\ count[registry] = Cardinality(P!Registered)
        /\ Cardinality(P!Registered) \in 1..Cardinality(Tabs)
    <2>1. registry # NoEntry
      BY <1>1, Counted
    <2>2. Cardinality(P!Registered) # 0
      BY <1>1, Counted, FS_EmptySet
    <2>3. QED
      BY <2>1, <2>2, Counted
  <1>3. \E s \in {"none", "leaving"} : tab' = [tab EXCEPT ![t] = s]
    BY DEF P!RemoveConnection, P!Goes
  <1>4. P!Registered' = P!Registered \ {t} /\ Opened' \subseteq Opened
    BY SameSize, <1>1, <1>3 DEF P!Registered, Opened, PresenceInv, P!TypeOK
  <1>5. count'[registry] = Cardinality(P!Registered')
    <2>1. Cardinality(P!Registered') = Cardinality(P!Registered) - 1
      BY <1>1, <1>4, Counted, FS_RemoveElement
    <2>2. QED
      BY SameSize, <1>1, <1>2, <2>1 DEF PresenceInv, P!TypeOK
  <1>6. P!CountIsTrue' /\ Owed'
    BY SameSize, <1>1, <1>2, <1>5 DEF P!CountIsTrue, P!ConnectionCount, PresenceInv, Owed
  <1>7. P!WithinCap'
    <2>1. Cardinality(Opened') <= Cardinality(Opened) /\ Cardinality(Opened') \in Nat
      BY <1>4, Counted, FS_Subset, FS_CardinalityType
    <2>2. QED
      BY SameSize, <2>1, Counted, SizesAssumption DEF P!WithinCap, Opened
  <1>8. P!TypeOK' /\ Leaving'
    <2>1. count' \in [Entries -> 0..Cardinality(Tabs)]
      BY SameSize, <1>1, <1>2, Counted DEF PresenceInv, P!TypeOK
    <2>2. CASE count[registry] - 1 > 0
      <3>1. leaves' = leaves /\ tab' = [tab EXCEPT ![t] = "none"]
        BY <2>2 DEF P!RemoveConnection, P!Goes
      <3>2. count'[registry] # 0
        BY SameSize, <1>1, <1>2, <2>2 DEF PresenceInv, P!TypeOK
      <3>3. tab[t] # "leaving"
        BY <1>1 DEF P!Registered
      <3>4. QED
        BY SameSize, <1>1, <2>1, <3>1, <3>2, <3>3 DEF PresenceInv, P!TypeOK, Leaving
    <2>3. CASE ~ (count[registry] - 1 > 0)
      <3>1. leaves' = [leaves EXCEPT ![t] = registry] /\ tab' = [tab EXCEPT ![t] = "leaving"]
        BY <2>3 DEF P!RemoveConnection, P!Goes
      <3>2. QED
        BY SameSize, <1>1, <1>2, <2>1, <3>1 DEF PresenceInv, P!TypeOK, Leaving
    <2>4. QED
      BY <2>2, <2>3
  <1>9. QED
    BY <1>6, <1>7, <1>8 DEF PresenceInv

LEMMA PresencePartInvariance == PresenceInv /\ [PartsNext]_Parts => PresenceInv'
  <1> SUFFICES ASSUME PresenceInv, [PartsNext]_Parts PROVE PresenceInv'
    OBVIOUS
  <1>1. CASE P!Next
    BY <1>1, PresenceSteps, AddConnectionKeeps, OpenKeeps, RemoveConnectionKeeps, ForgetKeeps
    DEF P!Next
  <1>2. CASE UNCHANGED presenceVars
    BY SameSize, <1>2 DEF presenceVars, PresenceInv, P!TypeOK, P!CountIsTrue, P!ConnectionCount,
                P!Registered, P!WithinCap, Leaving, Owed
  <1>3. QED
    BY <1>1, <1>2 DEF PartsNext, Parts

(* In every order in which the streams of a user join, leave and come back *)
(* while the database is asked, the registry counts them, no more than Cap *)
(* are open, and when none is left the peers were told (addConnection,     *)
(* removeConnection, cleanup).                                             *)
THEOREM RegistryIsTrue == PartsSpec => []PresenceIsTrue
  <1>1. PartsInit => PresenceInv
    BY PresenceInitially DEF PartsInit
  <1>2. PresenceInv => PresenceIsTrue
    <2> SUFFICES ASSUME PresenceInv, \A t \in Tabs : tab[t] \in {"none", "admitted"}, owing
                 PROVE  FALSE
      BY SameSize DEF PresenceInv, PresenceIsTrue, P!PresenceIsTrue, P!EndIsAnnounced, P!TypeOK
    <2>1. P!Registered = {} /\ registry # NoEntry
      BY DEF P!Registered, PresenceInv, Owed
    <2>2. count[registry] = 0
      BY <2>1, Counted, FS_EmptySet
    <2>3. QED
      BY SameSize, <2>1, <2>2 DEF PresenceInv, P!TypeOK, Leaving
  <1>3. QED
    BY <1>1, <1>2, PresencePartInvariance, PTL DEF PartsSpec

-----------------------------------------------------------------------------
(* What a tab shows of one message.                                        *)

(* One content is no older than another: its text, and whether it was      *)
(* deleted.                                                                *)
Le(v, c) == v.text <= c.text /\ (v.deleted => c.deleted)

(* The content c may have been read after event e was committed.           *)
Fits(e, c) ==
  /\ e.kind = "update" => e.n <= c.text
  /\ e.kind = "deleted" => c.deleted

(* A content that was read: the message has gone on from there, and a text *)
(* with a deadline came with it.                                           *)
Sound(c) ==
  /\ c \in V!Content
  /\ c.text <= text
  /\ c.deleted => deleted \/ deadline = "passed"
  /\ life # "plain" /\ V!Readable(c) => c.due

(* The events that wait in the stream, and those on the connection.        *)
Chained == {chain[i] : i \in 1..Len(chain)}
Sending == {socket[i].event : i \in 1..Len(socket)}

(* The events there are, and what they say of the message.                 *)
Known == owed \cup published \cup transit \cup received \cup Chained \cup Sending

EventsInv ==
  \A e \in Known :
    /\ e.kind = "update" => e.n <= text /\ life # "selfDestruct"
    /\ e.kind = "deleted" => deleted
    /\ e.kind = "hide" => hidden

RowInv ==
  /\ life = "plain" => deadline = "none"
  /\ life = "disappearing" => deadline # "none"
  /\ V!New \notin owed

(* What waits in the stream comes in the order in which it was read.       *)
PipeInv ==
  /\ \A i \in 1..Len(socket) :
       IF socket[i].event.kind \in V!ContentKinds
       THEN Sound(socket[i].content) /\ Fits(socket[i].event, socket[i].content)
       ELSE socket[i].content = Nothing
  /\ \A i, j \in 1..Len(socket) :
       i < j /\ socket[i].content # Nothing /\ socket[j].content # Nothing
         => Le(socket[i].content, socket[j].content)
  /\ \A c \in read : c # Nothing =>
       /\ Sound(c) /\ Fits(Head(chain), c)
       /\ \A i \in 1..Len(socket) : socket[i].content # Nothing => Le(socket[i].content, c)
  /\ \A e \in Chained : e.kind \in V!ContentKinds

(* The same of what the tab has, and of what is on its way to it.          *)
TabInv ==
  /\ view # Nothing => Sound(view)
  /\ \A c \in page \cup reply : c # Nothing => Sound(c)
  /\ ~ hidden => Nothing \notin read \cup page

(* Every event that comes was read after those that have come.             *)
DoneInv ==
  \A e \in received :
    /\ \A i \in 1..Len(socket) : socket[i].content # Nothing => Fits(e, socket[i].content)
    /\ \A c \in read : c # Nothing => Fits(e, c)
    /\ view # Nothing /\ ~ overtaken => Fits(e, view)

(* An event that will change what is shown brings something newer.         *)
Replaces(e) == e.kind \in {"update", "deleted"}
NextInv ==
  view # Nothing /\ ~ ahead =>
    /\ \A i \in 1..Len(socket) : Replaces(socket[i].event) => Le(view, socket[i].content)
    /\ \A c \in read : c # Nothing /\ Replaces(Head(chain)) => Le(view, c)

(* Nothing is lost of the message's last content.                          *)
Coming ==
  ~ hidden /\ deadline # "passed" =>
    /\ deleted => [kind |-> "deleted", n |-> 0] \in owed \cup published
    /\ text > 0 => [kind |-> "update", n |-> text] \in owed \cup published
    /\ published \subseteq transit \cup received \cup Chained \cup Sending
    /\ view = Nothing => behind \/ page # {}

ViewInv ==
  V!TypeOK /\ RowInv /\ EventsInv /\ PipeInv /\ TabInv /\ DoneInv /\ NextInv /\ Coming

(* What a step may not do to what is shown.                                *)
Kept ==
  /\ view # Nothing /\ view' # Nothing /\ ~ ahead /\ ~ ahead' => Le(view, view')
  /\ deadline = "passed" /\ ~ V!Readable(view) => ~ V!Readable(view')

-----------------------------------------------------------------------------
LEMMA Contents ==
  /\ Nothing \notin V!Content
  /\ \A c \in V!Content : /\ c.text \in Nat /\ c.text \in V!Texts
                          /\ c.veiled \in BOOLEAN /\ c.deleted \in BOOLEAN /\ c.due \in BOOLEAN
                          /\ [c EXCEPT !.deleted = TRUE] \in V!Content
                          /\ [c EXCEPT !.due = TRUE] \in V!Content
<1>1. Nothing \notin V!Content
  BY ViewAssumption DEF V!Content, V!Texts
<1>2. ASSUME NEW c \in V!Content
      PROVE  /\ c.text \in V!Texts /\ c.text \in Nat
             /\ c.veiled \in BOOLEAN /\ c.deleted \in BOOLEAN /\ c.due \in BOOLEAN
  BY ViewAssumption DEF V!Content, V!Texts
<1>3. ASSUME NEW c \in V!Content
      PROVE  /\ [c EXCEPT !.deleted = TRUE] \in V!Content
             /\ [c EXCEPT !.due = TRUE] \in V!Content
  BY DEF V!Content
<1> QED
  BY <1>1, <1>2, <1>3

(* What is read of the message is the message as it is.                    *)
LEMMA ReadFacts ==
  ASSUME V!TypeOK, RowInv
  PROVE  /\ V!AsRead = Nothing <=> hidden
         /\ V!AsRead # Nothing =>
              /\ Sound(V!AsRead) /\ V!AsRead.text = text
              /\ V!AsRead.deleted <=> deleted \/ deadline = "passed"
<1> DEFINE c == [text |-> text, veiled |-> life = "selfDestruct" /\ deadline = "none",
                 deleted |-> deleted \/ deadline = "passed", due |-> deadline # "none"]
<1>1. c \in V!Content
  BY DEF V!TypeOK, V!Content
<1>2. c # Nothing
  BY <1>1, Contents
<1>3. V!AsRead = IF hidden THEN Nothing ELSE c
  BY DEF V!AsRead
<1> HIDE DEF c
<1>4. /\ c.text = text /\ (c.deleted <=> deleted \/ deadline = "passed")
      /\ c.veiled <=> life = "selfDestruct" /\ deadline = "none"
      /\ c.due <=> deadline # "none"
  BY DEF c
<1>5. life # "plain" /\ ~ c.veiled => deadline # "none"
  BY <1>4, ViewAssumption DEF V!TypeOK, RowInv
<1>6. text <= text
  BY ViewAssumption DEF V!TypeOK, V!Texts
<1>7. Sound(c)
  BY <1>1, <1>4, <1>5, <1>6 DEF Sound, V!Readable
<1> QED
  BY <1>2, <1>3, <1>4, <1>7

(* What the timer leaves of a content.                                     *)
LEMMA LapsedFacts ==
  ASSUME V!TypeOK, RowInv, NEW v, Sound(v)
  PROVE  /\ V!Lapsed(v) = Nothing => life = "disappearing" /\ deadline = "passed"
         /\ V!Lapsed(v) # Nothing =>
              /\ Sound(V!Lapsed(v)) /\ V!Lapsed(v).text = v.text
              /\ v.deleted => V!Lapsed(v).deleted
              /\ V!Lapsed(v) = v \/ (life = "selfDestruct" /\ deadline = "passed")
         /\ deadline = "passed" => ~ V!Readable(V!Lapsed(v))
<1>1. v \in V!Content /\ v # Nothing /\ [v EXCEPT !.deleted = TRUE] \in V!Content
  BY Contents DEF Sound
<1>2. CASE ~ v.due \/ deadline # "passed"
  <2>1. V!Lapsed(v) = v
    BY <1>1, <1>2 DEF V!Lapsed
  <2>2. deadline = "passed" => ~ V!Readable(v)
    BY <1>2 DEF Sound, RowInv
  <2> QED
    BY <1>1, <2>1, <2>2
<1>3. CASE v.due /\ deadline = "passed" /\ life = "disappearing"
  <2>1. V!Lapsed(v) = Nothing
    BY <1>1, <1>3 DEF V!Lapsed
  <2> QED
    BY <1>3, <2>1 DEF V!Readable
<1>4. CASE v.due /\ deadline = "passed" /\ life # "disappearing"
  <2> DEFINE w == [v EXCEPT !.deleted = TRUE]
  <2>1. V!Lapsed(v) = w
    BY <1>1, <1>4 DEF V!Lapsed
  <2>2. w \in V!Content /\ w # Nothing
    BY <1>1, Contents
  <2>5. w.text = v.text /\ w.deleted
    BY <1>1 DEF V!Content
  <2>3. ~ V!Readable(w) /\ Sound(w)
    BY <1>4, <2>2, <2>5 DEF V!Readable, Sound
  <2>4. life = "selfDestruct"
    BY <1>4, ViewAssumption DEF V!TypeOK, RowInv
  <2> QED
    BY <1>4, <2>1, <2>2, <2>3, <2>4, <2>5
<1> QED
  BY <1>2, <1>3, <1>4

LEMMA ViewInitially == V!Init => ViewInv
<1> SUFFICES ASSUME V!Init PROVE ViewInv
  OBVIOUS
<1>1. RowInv
  BY ViewAssumption DEF V!Init, RowInv
<1>2. 0 \in V!Texts /\ V!New \in V!MessageEvents /\ V!New.kind = "new"
  BY ViewAssumption DEF V!Texts, V!New, V!MessageEvents
<1>3. V!AsRead = [text |-> 0, veiled |-> life = "selfDestruct", deleted |-> FALSE,
                due |-> life = "disappearing"]
  BY DEF V!Init, V!AsRead
<1>4. V!AsRead \in V!Content
  BY <1>2, <1>3 DEF V!Content
<1>5. V!TypeOK
  <2>1. published \in {{}, {V!New}} /\ transit = published /\ owed = {} /\ received = {}
    BY DEF V!Init
  <2>2. owed \cup published \cup transit \cup received \subseteq V!MessageEvents
    BY <1>2, <2>1
  <2>3. read = {} /\ page = {} /\ reply = {} /\ chain = <<>> /\ socket = <<>>
    BY DEF V!Init
  <2>4. {read, page, reply} \subseteq {{}} \cup {{c} : c \in V!Content \cup {Nothing}}
    BY <2>3
  <2>5. chain \in Seq(V!MessageEvents) /\ socket \in Seq(V!Sent)
    BY <2>3
  <2>6. /\ life \in Lives /\ text \in V!Texts /\ deleted \in BOOLEAN /\ hidden \in BOOLEAN
        /\ deadline \in {"none", "set", "passed"} /\ cleaned = FALSE
        /\ {behind, overtaken, ahead} \subseteq BOOLEAN
        /\ view \in V!Content \cup {Nothing}
    BY <1>2, <1>4 DEF V!Init
  <2> QED
    BY <2>2, <2>3, <2>4, <2>5, <2>6 DEF V!TypeOK
<1>6. V!AsRead # Nothing /\ Sound(V!AsRead)
  BY <1>1, <1>5, ReadFacts DEF V!Init
<1>7. Len(socket) = 0 /\ Len(chain) = 0
  BY DEF V!Init
<1>8. EventsInv
  BY <1>2, <1>7 DEF V!Init, EventsInv, Known, Chained, Sending
<1>9. PipeInv /\ DoneInv /\ NextInv /\ Coming
  BY <1>7 DEF V!Init, PipeInv, DoneInv, NextInv, Coming, Chained, Sending
<1>10. TabInv
  BY <1>6 DEF V!Init, TabInv
<1> QED
  BY <1>1, <1>5, <1>8, <1>9, <1>10 DEF ViewInv

(* A change of the message goes forward; no content that was read before   *)
(* claims more than it.                                                    *)
Forward ==
  /\ life' = life /\ text <= text'
  /\ (deleted => deleted') /\ (hidden => hidden') /\ (deadline = "passed" => deadline' = "passed")
Still == UNCHANGED <<chain, read, socket, received, behind, page, view, overtaken, ahead>>

LEMMA SoundForward ==
  ASSUME V!TypeOK, Forward, text' \in V!Texts, NEW c, Sound(c)
  PROVE  Sound(c)'
<1>1. c \in V!Content /\ c.text \in Nat
  BY Contents DEF Sound
<1>4. text \in Nat /\ text' \in Nat
  BY ViewAssumption DEF V!TypeOK, V!Texts
<1>2. c.text <= text'
  BY <1>1, <1>4 DEF Sound, Forward
<1>3. V!Content' = V!Content /\ V!Readable(c)' = V!Readable(c)
  BY DEF V!Content, V!Texts, V!Readable
<1> QED
  BY <1>1, <1>2, <1>3 DEF Sound, Forward

LEMMA ForwardKeeps ==
  ASSUME ViewInv, Forward, Still, text' \in V!Texts, reply' \in {reply, {Nothing}}
  PROVE  PipeInv' /\ TabInv' /\ DoneInv' /\ NextInv'
<1>1. \A c : Sound(c) => Sound(c)'
  BY SoundForward DEF ViewInv
<1>2. chain' = chain /\ read' = read /\ socket' = socket /\ received' = received
  BY DEF Still
<1>3. view' = view /\ page' = page /\ overtaken' = overtaken /\ ahead' = ahead
  BY DEF Still
<1>4. /\ \A e, c : Fits(e, c)' = Fits(e, c)
      /\ \A v, c : Le(v, c)' = Le(v, c)
      /\ \A e : Replaces(e)' = Replaces(e)
      /\ V!ContentKinds' = V!ContentKinds
  BY DEF Fits, Le, Replaces, V!ContentKinds
<1>5. PipeInv'
  BY <1>1, <1>2, <1>4 DEF ViewInv, PipeInv, Chained
<1>6. TabInv'
  <2>1. view # Nothing => Sound(view)'
    BY <1>1, <1>3 DEF ViewInv, TabInv
  <2>2. \A c \in page' \cup reply' : c # Nothing => Sound(c)'
    BY <1>1, <1>3 DEF ViewInv, TabInv
  <2>3. ~ hidden' => Nothing \notin read' \cup page'
    BY <1>2, <1>3 DEF ViewInv, TabInv, Forward
  <2> QED
    BY <1>3, <2>1, <2>2, <2>3 DEF TabInv
<1>7. DoneInv'
  BY <1>2, <1>3, <1>4 DEF ViewInv, DoneInv
<1>8. NextInv'
  BY <1>2, <1>3, <1>4 DEF ViewInv, NextInv
<1> QED
  BY <1>5, <1>6, <1>7, <1>8

LEMMA KnownEvents ==
  ASSUME V!TypeOK
  PROVE  Known \subseteq V!MessageEvents
<1>1. \A i \in 1..Len(chain) : chain[i] \in V!MessageEvents
  BY DEF V!TypeOK
<1>2. \A i \in 1..Len(socket) : socket[i] \in V!Sent
  BY DEF V!TypeOK
<1>3. \A i \in 1..Len(socket) : socket[i].event \in V!MessageEvents
  BY <1>2 DEF V!Sent
<1>4. owed \cup published \cup transit \cup received \subseteq V!MessageEvents
  BY DEF V!TypeOK
<1> QED
  BY <1>1, <1>3, <1>4 DEF Known, Chained, Sending

(* What the invariant asks of the events when changes are made.            *)
LEMMA EventsForward ==
  ASSUME ViewInv, Forward, Still, text' \in V!Texts,
         NEW e, owed' \subseteq owed \cup {e}, published' \subseteq published \cup {e},
         transit' \subseteq published \cup transit \cup {e},
         e.kind = "update" => e.n <= text' /\ life # "selfDestruct",
         e.kind = "deleted" => deleted', e.kind = "hide" => hidden'
  PROVE  EventsInv'
<1> SUFFICES ASSUME NEW f \in Known'
             PROVE  /\ f.kind = "update" => f.n <= text' /\ life' # "selfDestruct"
                    /\ f.kind = "deleted" => deleted'
                    /\ f.kind = "hide" => hidden'
  BY DEF EventsInv
<1>1. f = e \/ f \in Known
  BY DEF Known, Chained, Sending, Still
<1>2. f \in Known => f \in V!MessageEvents
  BY KnownEvents DEF ViewInv
<1>3. ASSUME f \in Known, f.kind = "update" PROVE f.n <= text'
  <2>1. f.n \in Nat /\ text \in Nat /\ text' \in Nat
    BY <1>2, <1>3, ViewAssumption DEF V!MessageEvents, ViewInv, V!TypeOK, V!Texts
  <2> QED
    BY <1>3, <2>1 DEF ViewInv, EventsInv, Forward
<1> QED
  BY <1>1, <1>3 DEF ViewInv, EventsInv, Forward

LEMMA TypeForward ==
  ASSUME ViewInv, Forward, Still, text' \in V!Texts, reply' \in {reply, {Nothing}},
         deleted' \in BOOLEAN, hidden' \in BOOLEAN, cleaned' \in BOOLEAN,
         deadline' \in {"none", "set", "passed"},
         cleaned' => deleted' /\ deadline' = "passed" /\ V!New \notin published',
         owed' \cup published' \cup transit' \subseteq V!MessageEvents
  PROVE  V!TypeOK'
<1>1. /\ chain' = chain /\ read' = read /\ socket' = socket /\ received' = received
      /\ behind' = behind /\ page' = page /\ view' = view
      /\ overtaken' = overtaken /\ ahead' = ahead /\ life' = life
  BY DEF Still, Forward
<1>2. /\ V!Texts' = V!Texts /\ V!MessageEvents' = V!MessageEvents /\ V!Content' = V!Content
      /\ V!Sent' = V!Sent /\ V!New' = V!New
  BY DEF V!Texts, V!MessageEvents, V!Content, V!Sent, V!New
<1>3. reply' \in {{}} \cup {{c} : c \in V!Content \cup {Nothing}}
  BY DEF ViewInv, V!TypeOK
<1> QED
  BY <1>1, <1>2, <1>3 DEF ViewInv, V!TypeOK

LEMMA EventTypes ==
  /\ V!New \in V!MessageEvents /\ V!Revealed \in V!MessageEvents /\ V!Swept \in V!MessageEvents
  /\ V!New.kind = "new" /\ V!Revealed.kind = "lifetime" /\ V!Swept.kind = "lifetime"
  /\ [kind |-> "deleted", n |-> 0] \in V!MessageEvents
  /\ [kind |-> "hide", n |-> 0] \in V!MessageEvents
  /\ \A m \in V!Texts : [kind |-> "update", n |-> m] \in V!MessageEvents
  BY DEF V!New, V!Revealed, V!Swept, V!MessageEvents

LEMMA Editing == ASSUME ViewInv, V!EditMessage PROVE ViewInv'
<1> DEFINE e == [kind |-> "update", n |-> text + 1]
<1>1. /\ life # "selfDestruct" /\ ~ deleted /\ deadline # "passed" /\ text < MaxEdits
      /\ text' = text + 1 /\ owed' = owed \cup {e}
      /\ life' = life /\ deleted' = deleted /\ hidden' = hidden /\ deadline' = deadline
      /\ cleaned' = cleaned /\ published' = published /\ transit' = transit /\ reply' = reply
  BY DEF V!EditMessage, V!streamVars, V!tabVars
<1>2. Still
  BY DEF V!EditMessage, V!streamVars, V!tabVars, Still
<1>3. text \in Nat /\ text' \in V!Texts /\ text <= text'
  BY <1>1, ViewAssumption DEF ViewInv, V!TypeOK, V!Texts
<1>4. Forward
  BY <1>1, <1>3 DEF Forward
<1>5. e \in V!MessageEvents /\ e.kind = "update" /\ e.n = text' /\ e # V!New
  BY <1>1, <1>3, EventTypes DEF V!New
<1> HIDE DEF e
<1>6. EventsInv'
  BY <1>1, <1>2, <1>3, <1>4, <1>5, EventsForward
<1>7. V!TypeOK'
  <2>1. owed' \cup published' \cup transit' \subseteq V!MessageEvents
    BY <1>1, <1>5 DEF ViewInv, V!TypeOK
  <2> QED
    BY <1>1, <1>2, <1>3, <1>4, <2>1, TypeForward DEF ViewInv, V!TypeOK
<1>8. RowInv'
  BY <1>1, <1>5 DEF ViewInv, RowInv, V!New
<1>9. Coming'
  BY <1>1, <1>2 DEF ViewInv, Coming, Chained, Sending, Still, e
<1> QED
  BY <1>1, <1>2, <1>3, <1>4, <1>6, <1>7, <1>8, <1>9, ForwardKeeps DEF ViewInv

LEMMA Deleting == ASSUME ViewInv, V!SoftDeleteMessage PROVE ViewInv'
<1> DEFINE e == [kind |-> "deleted", n |-> 0]
<1>1. /\ ~ deleted /\ deadline # "passed"
      /\ deleted' = TRUE /\ owed' = owed \cup {e}
      /\ life' = life /\ text' = text /\ hidden' = hidden /\ deadline' = deadline
      /\ cleaned' = cleaned /\ published' = published /\ transit' = transit /\ reply' = reply
  BY DEF V!SoftDeleteMessage, V!streamVars, V!tabVars
<1>2. Still
  BY DEF V!SoftDeleteMessage, V!streamVars, V!tabVars, Still
<1>3. text \in Nat /\ text' \in V!Texts /\ text <= text'
  BY <1>1, ViewAssumption DEF ViewInv, V!TypeOK, V!Texts
<1>4. Forward
  BY <1>1, <1>3 DEF Forward
<1>5. e \in V!MessageEvents /\ e.kind = "deleted" /\ e # V!New
  BY EventTypes DEF V!New
<1> HIDE DEF e
<1>6. EventsInv'
  BY <1>1, <1>2, <1>3, <1>4, <1>5, EventsForward
<1>7. V!TypeOK'
  <2>1. owed' \cup published' \cup transit' \subseteq V!MessageEvents
    BY <1>1, <1>5 DEF ViewInv, V!TypeOK
  <2> QED
    BY <1>1, <1>2, <1>3, <1>4, <2>1, TypeForward DEF ViewInv, V!TypeOK
<1>8. RowInv'
  BY <1>1, <1>5 DEF ViewInv, RowInv, V!New
<1>9. Coming'
  BY <1>1, <1>2 DEF ViewInv, Coming, Chained, Sending, Still, e
<1> QED
  BY <1>1, <1>2, <1>3, <1>4, <1>6, <1>7, <1>8, <1>9, ForwardKeeps DEF ViewInv

LEMMA Hiding == ASSUME ViewInv, V!DeleteForMe PROVE ViewInv'
<1> DEFINE e == [kind |-> "hide", n |-> 0]
<1>1. /\ hidden' = TRUE /\ owed' = owed \cup {e}
      /\ life' = life /\ text' = text /\ deleted' = deleted /\ deadline' = deadline
      /\ cleaned' = cleaned /\ published' = published /\ transit' = transit /\ reply' = reply
  BY DEF V!DeleteForMe, V!streamVars, V!tabVars
<1>2. Still
  BY DEF V!DeleteForMe, V!streamVars, V!tabVars, Still
<1>3. text \in Nat /\ text' \in V!Texts /\ text <= text'
  BY <1>1, ViewAssumption DEF ViewInv, V!TypeOK, V!Texts
<1>4. Forward
  BY <1>1, <1>3 DEF Forward
<1>5. e \in V!MessageEvents /\ e.kind = "hide" /\ e # V!New
  BY EventTypes DEF V!New
<1> HIDE DEF e
<1>6. EventsInv'
  BY <1>1, <1>2, <1>3, <1>4, <1>5, EventsForward
<1>7. V!TypeOK'
  <2>1. owed' \cup published' \cup transit' \subseteq V!MessageEvents
    BY <1>1, <1>5 DEF ViewInv, V!TypeOK
  <2> QED
    BY <1>1, <1>2, <1>3, <1>4, <2>1, TypeForward DEF ViewInv, V!TypeOK
<1>8. RowInv'
  BY <1>1, <1>5 DEF ViewInv, RowInv, V!New
<1>9. Coming'
  BY <1>1 DEF Coming
<1> QED
  BY <1>1, <1>2, <1>3, <1>4, <1>6, <1>7, <1>8, <1>9, ForwardKeeps DEF ViewInv

LEMMA Revealing == ASSUME ViewInv, NEW mine \in BOOLEAN, V!RevealSelfDestruct(mine) PROVE ViewInv'
<1>1. /\ life = "selfDestruct" /\ ~ deleted /\ deadline # "passed" /\ deadline' = "set"
      /\ owed' = owed \cup ({V!Revealed} \ published)
      /\ life' = life /\ text' = text /\ deleted' = deleted /\ hidden' = hidden
      /\ cleaned' = cleaned /\ published' = published /\ transit' = transit
      /\ reply' \in {reply, {Nothing}}
  BY DEF V!RevealSelfDestruct, V!streamVars
<1>2. Still
  BY DEF V!RevealSelfDestruct, V!streamVars, Still
<1>3. text \in Nat /\ text' \in V!Texts /\ text <= text'
  BY <1>1, ViewAssumption DEF ViewInv, V!TypeOK, V!Texts
<1>4. Forward
  BY <1>1, <1>3 DEF Forward
<1>5. V!Revealed \in V!MessageEvents /\ V!Revealed.kind = "lifetime" /\ V!Revealed # V!New
  BY EventTypes
<1>6. EventsInv'
  BY <1>1, <1>2, <1>3, <1>4, <1>5, EventsForward
<1>7. V!TypeOK'
  <2>1. owed' \cup published' \cup transit' \subseteq V!MessageEvents
    BY <1>1, <1>5 DEF ViewInv, V!TypeOK
  <2> QED
    BY <1>1, <1>2, <1>3, <1>4, <2>1, TypeForward DEF ViewInv, V!TypeOK
<1>8. RowInv'
  BY <1>1, <1>5 DEF ViewInv, RowInv, V!New
<1>9. Coming'
  BY <1>1, <1>2 DEF ViewInv, Coming, Chained, Sending, Still
<1> QED
  BY <1>1, <1>2, <1>3, <1>4, <1>6, <1>7, <1>8, <1>9, ForwardKeeps DEF ViewInv

LEMMA Passing == ASSUME ViewInv, V!PassDeadline PROVE ViewInv'
<1>1. /\ deadline = "set" /\ deadline' = "passed"
      /\ life' = life /\ text' = text /\ deleted' = deleted /\ hidden' = hidden
      /\ cleaned' = cleaned /\ owed' = owed /\ published' = published /\ transit' = transit
      /\ reply' = reply
  BY DEF V!PassDeadline, V!streamVars, V!tabVars
<1>2. Still
  BY DEF V!PassDeadline, V!streamVars, V!tabVars, Still
<1>3. text \in Nat /\ text' \in V!Texts /\ text <= text'
  BY <1>1, ViewAssumption DEF ViewInv, V!TypeOK, V!Texts
<1>4. Forward
  BY <1>1, <1>3 DEF Forward
<1>6. EventsInv'
  BY <1>1, <1>2, <1>3, <1>4, EventTypes, EventsForward
<1>7. V!TypeOK'
  BY <1>1, <1>2, <1>3, <1>4, TypeForward DEF ViewInv, V!TypeOK
<1>8. RowInv'
  BY <1>1 DEF ViewInv, RowInv, V!New
<1>9. Coming'
  BY <1>1 DEF Coming
<1> QED
  BY <1>1, <1>2, <1>3, <1>4, <1>6, <1>7, <1>8, <1>9, ForwardKeeps DEF ViewInv

LEMMA Sweeping == ASSUME ViewInv, V!CleanupExpiredMessages PROVE ViewInv'
<1> DEFINE rest(events) == {e \in events : e.kind \notin V!ContentKinds} \cup {V!Swept}
<1>1. /\ deadline = "passed" /\ ~ cleaned /\ cleaned' = TRUE /\ deleted' = TRUE
      /\ published' = rest(published) /\ transit' \in {transit \cup {V!Swept}, rest(transit)}
      /\ life' = life /\ text' = text /\ deadline' = deadline /\ hidden' = hidden
      /\ owed' = owed /\ reply' = reply
  BY DEF V!CleanupExpiredMessages, V!tabVars
<1>2. Still
  BY DEF V!CleanupExpiredMessages, V!tabVars, Still
<1>3. text \in Nat /\ text' \in V!Texts /\ text <= text'
  BY <1>1, ViewAssumption DEF ViewInv, V!TypeOK, V!Texts
<1>4. Forward
  BY <1>1, <1>3 DEF Forward
<1>5. /\ owed' \subseteq owed \cup {V!Swept} /\ published' \subseteq published \cup {V!Swept}
      /\ transit' \subseteq published \cup transit \cup {V!Swept}
      /\ V!Swept \in V!MessageEvents /\ V!Swept.kind = "lifetime" /\ V!New \notin published'
  BY <1>1, EventTypes DEF V!ContentKinds
<1> HIDE DEF rest
<1>6. EventsInv'
  BY <1>2, <1>3, <1>4, <1>5, EventsForward
<1>7. V!TypeOK'
  <2>1. owed' \cup published' \cup transit' \subseteq V!MessageEvents
    BY <1>1, <1>5 DEF ViewInv, V!TypeOK
  <2> QED
    BY <1>1, <1>2, <1>3, <1>4, <1>5, <2>1, TypeForward DEF ViewInv, V!TypeOK
<1>8. RowInv'
  BY <1>1 DEF ViewInv, RowInv, V!New
<1>9. Coming'
  BY <1>1 DEF Coming
<1> QED
  BY <1>1, <1>2, <1>3, <1>4, <1>6, <1>7, <1>8, <1>9, ForwardKeeps DEF ViewInv

LEMMA AppendFacts ==
  ASSUME NEW S, NEW s \in Seq(S), NEW x \in S
  PROVE  /\ Append(s, x) \in Seq(S) /\ Len(s) \in Nat /\ Len(Append(s, x)) = Len(s) + 1
         /\ \A i \in 1..Len(s) : Append(s, x)[i] = s[i]
         /\ Append(s, x)[Len(s) + 1] = x
         /\ s # <<>> => Head(Append(s, x)) = Head(s)
         /\ Append(s, x) # <<>>
<1>1. Append(s, x) \in Seq(S) /\ Len(s) \in Nat /\ Len(Append(s, x)) = Len(s) + 1
  OBVIOUS
<1>2. \A i \in 1..Len(s) : Append(s, x)[i] = s[i]
  OBVIOUS
<1>3. Append(s, x)[Len(s) + 1] = x
  OBVIOUS
<1>4. s # <<>> => Head(Append(s, x)) = Head(s)
  OBVIOUS
<1>5. Append(s, x) # <<>>
  BY <1>1
<1> QED
  BY <1>1, <1>2, <1>3, <1>4, <1>5

LEMMA TailFacts ==
  ASSUME NEW S, NEW s \in Seq(S), s # <<>>
  PROVE  /\ Tail(s) \in Seq(S) /\ Len(s) \in Nat \ {0} /\ Len(Tail(s)) = Len(s) - 1
         /\ \A i \in 1..Len(Tail(s)) : Tail(s)[i] = s[i + 1] /\ i + 1 \in 2..Len(s)
         /\ 1 \in 1..Len(s) /\ Head(s) = s[1] /\ Head(s) \in S
         /\ \A i \in 2..Len(s) : i - 1 \in 1..Len(Tail(s)) /\ s[i] = Tail(s)[i - 1]
<1>1. Len(s) \in Nat \ {0} /\ Tail(s) \in Seq(S) /\ Len(Tail(s)) = Len(s) - 1
  OBVIOUS
<1>2. \A i \in 1..Len(Tail(s)) : Tail(s)[i] = s[i + 1]
  OBVIOUS
<1>3. Head(s) = s[1] /\ Head(s) \in S /\ 1 \in 1..Len(s)
  OBVIOUS
<1>4. \A i \in 1..Len(Tail(s)) : i + 1 \in 2..Len(s)
  BY <1>1
<1>5. ASSUME NEW i \in 2..Len(s)
      PROVE  i - 1 \in 1..Len(Tail(s)) /\ s[i] = Tail(s)[i - 1]
  <2>1. i - 1 \in 1..Len(Tail(s)) /\ (i - 1) + 1 = i
    BY <1>1
  <2> QED
    BY <1>2, <2>1
<1> QED
  BY <1>1, <1>2, <1>3, <1>4, <1>5

LEMMA TailRange ==
  ASSUME NEW S, NEW s \in Seq(S), s # <<>>
  PROVE  {s[i] : i \in 1..Len(s)} = {Head(s)} \cup {Tail(s)[i] : i \in 1..Len(Tail(s))}
<1>1. ASSUME NEW i \in 1..Len(s)
      PROVE  s[i] \in {Head(s)} \cup {Tail(s)[j] : j \in 1..Len(Tail(s))}
  <2>1. CASE i = 1
    BY <2>1, TailFacts
  <2>2. CASE i # 1
    <3>1. i \in 2..Len(s)
      BY <2>2, TailFacts
    <3>2. i - 1 \in 1..Len(Tail(s)) /\ s[i] = Tail(s)[i - 1]
      BY <3>1, TailFacts
    <3> QED
      BY <3>2
  <2> QED
    BY <2>1, <2>2
<1>2. Head(s) \in {s[i] : i \in 1..Len(s)}
  BY TailFacts
<1>3. ASSUME NEW i \in 1..Len(Tail(s))
      PROVE  Tail(s)[i] \in {s[j] : j \in 1..Len(s)}
  <2>1. Tail(s)[i] = s[i + 1] /\ i + 1 \in 2..Len(s)
    BY TailFacts
  <2>2. i + 1 \in 1..Len(s)
    BY <2>1, TailFacts
  <2> QED
    BY <2>1, <2>2
<1> QED
  BY <1>1, <1>2, <1>3

(* While the message does not change.                                      *)
LEMMA SameRow ==
  ASSUME UNCHANGED V!rowVars
  PROVE  /\ \A c : Sound(c)' = Sound(c)
         /\ V!Content' = V!Content /\ V!MessageEvents' = V!MessageEvents /\ V!Sent' = V!Sent
         /\ V!Texts' = V!Texts /\ V!New' = V!New
         /\ V!ContentKinds' = V!ContentKinds /\ V!AsRead' = V!AsRead
         /\ \A e, c : Fits(e, c)' = Fits(e, c)
         /\ \A v, c : Le(v, c)' = Le(v, c)
         /\ \A e : Replaces(e)' = Replaces(e)
  BY DEF V!rowVars, Sound, V!Content, V!MessageEvents, V!Sent, V!Texts, V!New, V!ContentKinds, V!AsRead,
         Fits, Le, Replaces, V!Readable

LEMMA SameEvents ==
  ASSUME ViewInv, UNCHANGED V!rowVars, Known' \subseteq Known, owed' \subseteq owed
  PROVE  EventsInv' /\ RowInv'
<1>1. EventsInv'
  BY DEF ViewInv, EventsInv, V!rowVars
<1>2. RowInv'
  BY SameRow DEF ViewInv, RowInv, V!rowVars
<1> QED
  BY <1>1, <1>2

LEMMA Publishing == ASSUME ViewInv, NEW e \in V!MessageEvents, V!Publish(e) PROVE ViewInv'
<1>1. /\ e \in owed /\ owed' = owed \ {e} /\ published' = published \cup {e}
      /\ transit' = transit \cup {e} /\ UNCHANGED V!rowVars
      /\ chain' = chain /\ read' = read /\ socket' = socket /\ received' = received
      /\ behind' = behind /\ page' = page /\ reply' = reply /\ view' = view
      /\ overtaken' = overtaken /\ ahead' = ahead
  BY DEF V!Publish, V!tabVars
<1>2. EventsInv' /\ RowInv'
  BY <1>1, SameEvents DEF Known, Chained, Sending
<1>3. V!TypeOK'
  <2>1. V!New \notin owed
    BY DEF ViewInv, RowInv
  <2> QED
    BY <1>1, <2>1, SameRow DEF ViewInv, V!TypeOK, V!rowVars
<1>4. PipeInv' /\ TabInv' /\ DoneInv' /\ NextInv'
  BY <1>1, SameRow DEF ViewInv, PipeInv, TabInv, DoneInv, NextInv, Chained, V!rowVars
<1>5. Coming'
  BY <1>1 DEF ViewInv, Coming, Chained, Sending, V!rowVars
<1> QED
  BY <1>2, <1>3, <1>4, <1>5 DEF ViewInv

LEMMA Delivering == ASSUME ViewInv, NEW e \in V!MessageEvents, V!Deliver(e) PROVE ViewInv'
<1>1. /\ e \in transit /\ transit' = transit \ {e}
      /\ owed' = owed /\ published' = published /\ UNCHANGED V!rowVars
      /\ read' = read /\ received' = received
      /\ behind' = behind /\ page' = page /\ reply' = reply /\ view' = view
      /\ overtaken' = overtaken /\ ahead' = ahead
  BY DEF V!Deliver, V!tabVars
<1>2. chain \in Seq(V!MessageEvents) /\ socket \in Seq(V!Sent)
  BY DEF ViewInv, V!TypeOK
<1>3. CASE e.kind \in V!ContentKinds
  <2>1. chain' = Append(chain, e) /\ socket' = socket
    BY <1>3 DEF V!Deliver
  <2>2. /\ chain' \in Seq(V!MessageEvents) /\ chain' # <<>> /\ Chained' = Chained \cup {e}
        /\ chain # <<>> => Head(chain') = Head(chain)
    BY <1>2, <2>1, AppendFacts DEF Chained
  <2>3. Known' \subseteq Known
    BY <1>1, <2>1, <2>2 DEF Known, Sending
  <2>4. EventsInv' /\ RowInv'
    BY <1>1, <2>3, SameEvents
  <2>5. V!TypeOK'
    BY <1>1, <2>1, <2>2, SameRow DEF ViewInv, V!TypeOK, V!rowVars
  <2>6. read # {} => Head(chain') = Head(chain)
    BY <2>2 DEF ViewInv, V!TypeOK
  <2>7. PipeInv'
    BY <1>1, <1>3, <2>1, <2>2, <2>6, SameRow DEF ViewInv, PipeInv
  <2>8. TabInv' /\ DoneInv' /\ NextInv'
    BY <1>1, <2>1, <2>6, SameRow DEF ViewInv, TabInv, DoneInv, NextInv, V!rowVars
  <2>9. Coming'
    BY <1>1, <2>1, <2>2 DEF ViewInv, Coming, Sending, V!rowVars
  <2> QED
    BY <2>4, <2>5, <2>7, <2>8, <2>9 DEF ViewInv
<1>4. CASE e.kind \notin V!ContentKinds
  <2> DEFINE m == [event |-> e, content |-> Nothing]
  <2>1. chain' = chain /\ socket' = Append(socket, m)
    BY <1>4 DEF V!Deliver
  <2>2. m \in V!Sent /\ m.event = e /\ m.content = Nothing
    BY DEF V!Sent
  <2> HIDE DEF m
  <2>3. /\ socket' \in Seq(V!Sent) /\ Len(socket) \in Nat /\ Len(socket') = Len(socket) + 1
        /\ \A i \in 1..Len(socket) : socket'[i] = socket[i]
        /\ socket'[Len(socket) + 1] = m
    BY <1>2, <2>1, <2>2, AppendFacts
  <2>4. Sending' = Sending \cup {e}
    BY <2>2, <2>3 DEF Sending
  <2>5. \A i \in 1..Len(socket') :
           \/ i \in 1..Len(socket) /\ socket'[i] = socket[i]
           \/ i = Len(socket) + 1 /\ socket'[i] = m
    BY <2>3
  <2>6. Known' \subseteq Known
    BY <1>1, <2>1, <2>4 DEF Known, Chained
  <2>7. EventsInv' /\ RowInv'
    BY <1>1, <2>6, SameEvents
  <2>8. V!TypeOK'
    BY <1>1, <2>1, <2>3, SameRow DEF ViewInv, V!TypeOK, V!rowVars
  <2>9. PipeInv'
    <3>1. \A i \in 1..Len(socket') :
            IF socket'[i].event.kind \in V!ContentKinds
            THEN Sound(socket'[i].content) /\ Fits(socket'[i].event, socket'[i].content)
            ELSE socket'[i].content = Nothing
      BY <1>4, <2>2, <2>5 DEF ViewInv, PipeInv
    <3>2. \A i, j \in 1..Len(socket') :
            i < j /\ socket'[i].content # Nothing /\ socket'[j].content # Nothing
              => Le(socket'[i].content, socket'[j].content)
      BY <2>2, <2>5 DEF ViewInv, PipeInv
    <3>3. \A c \in read : c # Nothing =>
            /\ Sound(c) /\ Fits(Head(chain), c)
            /\ \A i \in 1..Len(socket') : socket'[i].content # Nothing => Le(socket'[i].content, c)
      BY <2>2, <2>5 DEF ViewInv, PipeInv
    <3> QED
      BY <1>1, <2>1, <3>1, <3>2, <3>3, SameRow DEF ViewInv, PipeInv, Chained
  <2>10. TabInv'
    BY <1>1, SameRow DEF ViewInv, TabInv, V!rowVars
  <2>11. DoneInv'
    BY <1>1, <2>2, <2>5, SameRow DEF ViewInv, DoneInv
  <2>12. NextInv'
    <3>1. ~ Replaces(e)
      BY <1>4 DEF Replaces, V!ContentKinds
    <3> QED
      BY <1>1, <2>1, <2>2, <2>5, <3>1, SameRow DEF ViewInv, NextInv
  <2>13. Coming'
    BY <1>1, <2>1, <2>4 DEF ViewInv, Coming, Chained, V!rowVars
  <2> QED
    BY <2>7, <2>8, <2>9, <2>10, <2>11, <2>12, <2>13 DEF ViewInv
<1> QED
  BY <1>3, <1>4

(* What is read now is no older than anything that came.                   *)
LEMMA Reading == ASSUME ViewInv, V!CurrentMessageEvent PROVE ViewInv'
<1>1. /\ chain # <<>> /\ read = {} /\ read' = {V!AsRead} /\ UNCHANGED V!rowVars
      /\ owed' = owed /\ published' = published /\ transit' = transit /\ chain' = chain
      /\ socket' = socket /\ received' = received /\ behind' = behind /\ page' = page
      /\ reply' = reply /\ view' = view /\ overtaken' = overtaken /\ ahead' = ahead
  BY DEF V!CurrentMessageEvent, V!tabVars
<1>2. EventsInv' /\ RowInv'
  BY <1>1, SameEvents DEF Known, Chained, Sending
<1>3. /\ V!AsRead = Nothing <=> hidden
      /\ V!AsRead # Nothing =>
           /\ Sound(V!AsRead) /\ V!AsRead.text = text
           /\ V!AsRead.deleted <=> deleted \/ deadline = "passed"
  BY ReadFacts DEF ViewInv
<1>4. V!AsRead \in V!Content \cup {Nothing}
  BY <1>3 DEF Sound
<1>5. V!TypeOK'
  BY <1>1, <1>4, SameRow DEF ViewInv, V!TypeOK, V!rowVars
<1>6. ASSUME V!AsRead # Nothing, NEW c, Sound(c) PROVE Le(c, V!AsRead)
  BY <1>3, <1>6 DEF Le, Sound
<1>7. ASSUME V!AsRead # Nothing, NEW e \in Known PROVE Fits(e, V!AsRead)
  BY <1>3, <1>7 DEF Fits, ViewInv, EventsInv
<1>8. Head(chain) \in Known
  <2>1. chain \in Seq(V!MessageEvents) /\ 1 \in 1..Len(chain) /\ Head(chain) = chain[1]
    BY <1>1, TailFacts DEF ViewInv, V!TypeOK
  <2> QED
    BY <2>1 DEF Known, Chained
<1>9. PipeInv'
  <2>1. \A i \in 1..Len(socket) : socket[i].content # Nothing => Sound(socket[i].content)
    BY DEF ViewInv, PipeInv
  <2>2. \A c \in read' : c # Nothing =>
          /\ Sound(c) /\ Fits(Head(chain), c)
          /\ \A i \in 1..Len(socket) : socket[i].content # Nothing => Le(socket[i].content, c)
    BY <1>1, <1>3, <1>6, <1>7, <1>8, <2>1
  <2> QED
    BY <1>1, <2>2, SameRow DEF ViewInv, PipeInv, Chained
<1>10. TabInv'
  BY <1>1, <1>3, SameRow DEF ViewInv, TabInv, V!rowVars
<1>11. DoneInv'
  <2>1. \A e \in received : V!AsRead # Nothing => Fits(e, V!AsRead)
    BY <1>7 DEF Known
  <2> QED
    BY <1>1, <2>1, SameRow DEF ViewInv, DoneInv
<1>12. NextInv'
  <2>1. view # Nothing /\ V!AsRead # Nothing => Le(view, V!AsRead)
    BY <1>6 DEF ViewInv, TabInv
  <2> QED
    BY <1>1, <2>1, SameRow DEF ViewInv, NextInv
<1>13. Coming'
  BY <1>1 DEF ViewInv, Coming, Chained, Sending, V!rowVars
<1> QED
  BY <1>2, <1>5, <1>9, <1>10, <1>11, <1>12, <1>13 DEF ViewInv

LEMMA SendsCurrent == ASSUME ViewInv, V!SendCurrent PROVE ViewInv'
<1>1. PICK c \in read : socket' = IF c = Nothing THEN socket
                                  ELSE Append(socket, [event |-> Head(chain), content |-> c])
  BY DEF V!SendCurrent
<1>2. /\ chain' = Tail(chain) /\ read' = {} /\ UNCHANGED V!rowVars
      /\ owed' = owed /\ published' = published /\ transit' = transit
      /\ received' = received /\ behind' = behind /\ page' = page
      /\ reply' = reply /\ view' = view /\ overtaken' = overtaken /\ ahead' = ahead
  BY DEF V!SendCurrent, V!tabVars
<1> DEFINE e == Head(chain)
<1>3. /\ chain # <<>> /\ chain \in Seq(V!MessageEvents)
      /\ socket \in Seq(V!Sent) /\ Tail(chain) \in Seq(V!MessageEvents)
      /\ e \in V!MessageEvents /\ Chained = Chained' \cup {e}
  <2>1. chain # <<>> /\ chain \in Seq(V!MessageEvents) /\ socket \in Seq(V!Sent)
    BY <1>1 DEF ViewInv, V!TypeOK
  <2>2. Chained = {e} \cup {Tail(chain)[i] : i \in 1..Len(Tail(chain))}
    BY <2>1, TailRange DEF Chained
  <2>3. Chained' = {Tail(chain)[i] : i \in 1..Len(Tail(chain))}
    BY <1>2 DEF Chained
  <2> QED
    BY <2>1, <2>2, <2>3, TailFacts
<1> HIDE DEF e
<1>4. e.kind \in V!ContentKinds
  BY <1>3 DEF ViewInv, PipeInv
<1>5. TabInv'
  BY <1>2, SameRow DEF ViewInv, TabInv, V!rowVars
<1>6. CASE c = Nothing
  <2>1. socket' = socket /\ hidden
    BY <1>1, <1>6 DEF ViewInv, TabInv
  <2>2. EventsInv' /\ RowInv'
    BY <1>2, <1>3, <2>1, SameEvents DEF Known, Sending
  <2>3. V!TypeOK'
    BY <1>2, <1>3, <2>1, SameRow DEF ViewInv, V!TypeOK, V!rowVars
  <2>4. PipeInv' /\ DoneInv' /\ NextInv' /\ Coming'
    BY <1>2, <1>3, <2>1, SameRow DEF ViewInv, PipeInv, DoneInv, NextInv, Coming, V!rowVars
  <2> QED
    BY <1>5, <2>2, <2>3, <2>4 DEF ViewInv
<1>7. CASE c # Nothing
  <2> DEFINE m == [event |-> e, content |-> c]
  <2>1. Sound(c) /\ Fits(e, c) /\ socket' = Append(socket, m)
    BY <1>1, <1>7 DEF ViewInv, PipeInv, e
  <2>2. m \in V!Sent /\ m.event = e /\ m.content = c
    BY <1>3, <2>1 DEF V!Sent, Sound
  <2> HIDE DEF m
  <2>3. /\ socket' \in Seq(V!Sent) /\ Len(socket) \in Nat /\ Len(socket') = Len(socket) + 1
        /\ \A i \in 1..Len(socket) : socket'[i] = socket[i]
        /\ socket'[Len(socket) + 1] = m
    BY <1>3, <2>1, <2>2, AppendFacts
  <2>4. Sending' = Sending \cup {e}
    BY <2>2, <2>3 DEF Sending
  <2>5. \A i \in 1..Len(socket') :
           \/ i \in 1..Len(socket) /\ socket'[i] = socket[i]
           \/ i = Len(socket) + 1 /\ socket'[i] = m
    BY <2>3
  <2>6. EventsInv' /\ RowInv'
    BY <1>2, <1>3, <2>4, SameEvents DEF Known
  <2>7. V!TypeOK'
    BY <1>2, <1>3, <2>3, SameRow DEF ViewInv, V!TypeOK, V!rowVars
  <2>8. \A i \in 1..Len(socket) : socket[i].content # Nothing => Le(socket[i].content, c)
    BY <1>7 DEF ViewInv, PipeInv
  <2>9. PipeInv'
    <3>1. \A i \in 1..Len(socket') :
            IF socket'[i].event.kind \in V!ContentKinds
            THEN Sound(socket'[i].content) /\ Fits(socket'[i].event, socket'[i].content)
            ELSE socket'[i].content = Nothing
      BY <1>4, <2>1, <2>2, <2>5 DEF ViewInv, PipeInv
    <3>2. ASSUME NEW i \in 1..Len(socket'), NEW j \in 1..Len(socket'), i < j,
                 socket'[i].content # Nothing, socket'[j].content # Nothing
          PROVE  Le(socket'[i].content, socket'[j].content)
      <4>1. i \in 1..Len(socket) /\ socket'[i] = socket[i]
        BY <2>3, <3>2
      <4>2. CASE j \in 1..Len(socket) /\ socket'[j] = socket[j]
        BY <3>2, <4>1, <4>2 DEF ViewInv, PipeInv
      <4>3. CASE socket'[j] = m
        BY <2>2, <2>8, <3>2, <4>1, <4>3
      <4> QED
        BY <2>5, <4>2, <4>3
    <3> QED
      BY <1>2, <1>3, <3>1, <3>2, SameRow DEF ViewInv, PipeInv
  <2>10. DoneInv'
    <3>1. \A f \in received : Fits(f, c)
      BY <1>7 DEF ViewInv, DoneInv
    <3> QED
      BY <1>2, <2>2, <2>5, <3>1, SameRow DEF ViewInv, DoneInv
  <2>11. NextInv'
    <3>1. view # Nothing /\ ~ ahead /\ Replaces(e) => Le(view, c)
      BY <1>1, <1>7 DEF ViewInv, NextInv, e
    <3> QED
      BY <1>2, <2>2, <2>5, <3>1, SameRow DEF ViewInv, NextInv
  <2>12. Coming'
    BY <1>2, <1>3, <2>4 DEF ViewInv, Coming, V!rowVars
  <2> QED
    BY <1>5, <2>6, <2>7, <2>9, <2>10, <2>11, <2>12 DEF ViewInv
<1> QED
  BY <1>6, <1>7

LEMMA Reconnecting == ASSUME ViewInv, V!Reconnect PROVE ViewInv'
<1>1. /\ transit' = published /\ chain' = <<>> /\ read' = {} /\ socket' = <<>>
      /\ behind' = TRUE /\ page' = {} /\ ahead' = FALSE /\ UNCHANGED V!rowVars
      /\ owed' = owed /\ published' = published /\ received' = received
      /\ reply' = reply /\ overtaken' = overtaken /\ view' = view
  BY DEF V!Reconnect
<1>2. Chained' = {} /\ Sending' = {} /\ 1..Len(socket') = {}
  BY <1>1 DEF Chained, Sending
<1>3. EventsInv' /\ RowInv'
  BY <1>1, <1>2, SameEvents DEF Known
<1>4. chain' \in Seq(V!MessageEvents) /\ socket' \in Seq(V!Sent)
  BY <1>1
<1>5. V!TypeOK'
  BY <1>1, <1>4, SameRow DEF ViewInv, V!TypeOK, V!rowVars
<1>6. TabInv' /\ PipeInv' /\ DoneInv' /\ NextInv'
  BY <1>1, <1>2, SameRow DEF ViewInv, TabInv, PipeInv, DoneInv, NextInv, V!rowVars
<1>7. Coming'
  BY <1>1, <1>2 DEF ViewInv, Coming, V!rowVars
<1> QED
  BY <1>3, <1>5, <1>6, <1>7 DEF ViewInv

(* What the timer does keeps a content behind what the stream will bring.  *)
LEMMA LapsedBehind ==
  ASSUME ViewInv, NEW w, Sound(w), V!Lapsed(w) # Nothing, NEW e \in Known, Replaces(e),
         NEW c, Fits(e, c), Le(w, c)
  PROVE  Le(V!Lapsed(w), c)
<1>1. V!Lapsed(w).text = w.text /\ (V!Lapsed(w) = w \/ life = "selfDestruct")
  BY LapsedFacts DEF ViewInv
<1>2. CASE V!Lapsed(w) = w
  BY <1>2
<1>3. CASE life = "selfDestruct"
  <2>1. e.kind = "deleted"
    BY <1>3 DEF ViewInv, EventsInv, Replaces
  <2>2. c.deleted
    BY <2>1 DEF Fits
  <2> QED
    BY <1>1, <2>2 DEF Le
<1> QED
  BY <1>1, <1>2, <1>3

(* What chat-view makes of the event that comes first.                     *)
LEMMA ShownFacts ==
  ASSUME ViewInv, socket # <<>>, NEW e, NEW c, e = socket[1].event, c = socket[1].content,
         NEW w, w = V!Shown(e, c)
  PROVE  /\ w # Nothing => Sound(w)
         /\ w = Nothing => hidden \/ view = Nothing
         /\ w # Nothing /\ view # Nothing /\ ~ ahead => Le(view, w)
         /\ e \notin received /\ ~ overtaken /\ w # Nothing
              => \A f \in received \cup {e} : Fits(f, w)
         /\ w # Nothing /\ ~ ahead =>
              /\ \A j \in 2..Len(socket) :
                   Replaces(socket[j].event) => Le(w, socket[j].content)
              /\ \A q \in read : q # Nothing /\ Replaces(Head(chain)) => Le(w, q)
<1>1. /\ socket \in Seq(V!Sent) /\ Len(socket) \in Nat \ {0} /\ 1 \in 1..Len(socket)
      /\ socket[1] \in V!Sent /\ e \in Known
  <2>1. socket \in Seq(V!Sent)
    BY DEF ViewInv, V!TypeOK
  <2>2. Len(socket) \in Nat \ {0} /\ 1 \in 1..Len(socket)
    BY <2>1, TailFacts
  <2> QED
    BY <2>1, <2>2 DEF Known, Sending
<1>2. e.kind \in {"new", "update", "deleted", "hide", "lifetime"}
  <2>1. e \in V!MessageEvents
    BY <1>1 DEF V!Sent
  <2> QED
    BY <2>1 DEF V!MessageEvents
<1>3. view # Nothing => Sound(view)
  BY DEF ViewInv, TabInv
<1>4. ASSUME NEW v, Sound(v) PROVE v # Nothing /\ v.text <= v.text
  <2>1. v \in V!Content
    BY <1>4 DEF Sound
  <2>2. v # Nothing /\ v.text \in Nat
    BY <2>1, Contents
  <2> QED
    BY <2>2
<1>5. \A j \in 2..Len(socket) : j \in 1..Len(socket) /\ 1 < j
  BY <1>1
<1>6. CASE e.kind = "hide"
  <2>1. w = Nothing
    BY <1>6 DEF V!Shown
  <2>2. hidden
    BY <1>1, <1>6 DEF ViewInv, EventsInv
  <2> QED
    BY <2>1, <2>2
<1>7. CASE e.kind = "lifetime" /\ view # Nothing
  <2>1. w = [view EXCEPT !.due = TRUE]
    BY <1>7 DEF V!Shown, V!Lifetime
  <2>2. w \in V!Content /\ w # Nothing
    BY <1>3, <1>7, <2>1, Contents DEF Sound
  <2>3. w.text = view.text /\ w.deleted = view.deleted /\ w.veiled = view.veiled /\ w.due
    BY <1>3, <1>7, <2>1 DEF Sound, V!Content
  <2>4. Sound(w)
    BY <1>3, <1>7, <2>2, <2>3 DEF Sound
  <2>5. Le(view, w)
    BY <1>3, <1>4, <1>7, <2>3 DEF Le
  <2>6. \A q : Le(view, q) => Le(w, q)
    BY <2>3 DEF Le
  <2>7. \A f : Fits(f, view) => Fits(f, w)
    BY <2>3 DEF Fits
  <2>8. Fits(e, w)
    BY <1>7 DEF Fits
  <2>10. ~ overtaken => \A f \in received \cup {e} : Fits(f, w)
    BY <1>7, <2>7, <2>8 DEF ViewInv, DoneInv
  <2>11. ~ ahead => /\ \A j \in 2..Len(socket) :
                        Replaces(socket[j].event) => Le(w, socket[j].content)
                    /\ \A q \in read : q # Nothing /\ Replaces(Head(chain)) => Le(w, q)
    BY <1>5, <1>7, <2>6 DEF ViewInv, NextInv
  <2> QED
    BY <2>2, <2>4, <2>5, <2>10, <2>11
<1>8. CASE w = view /\ (e.kind = "new" \/ view = Nothing)
  <2>1. Fits(e, w) \/ w = Nothing
    BY <1>8 DEF Fits
  <2>2. w # Nothing => Le(view, w)
    BY <1>3, <1>4, <1>8 DEF Le
  <2>3. ~ overtaken /\ w # Nothing => \A f \in received \cup {e} : Fits(f, w)
    BY <1>8, <2>1 DEF ViewInv, DoneInv
  <2>4. w # Nothing /\ ~ ahead =>
            /\ \A j \in 2..Len(socket) :
                 Replaces(socket[j].event) => Le(w, socket[j].content)
            /\ \A q \in read : q # Nothing /\ Replaces(Head(chain)) => Le(w, q)
    BY <1>5, <1>8 DEF ViewInv, NextInv
  <2> QED
    BY <1>3, <1>8, <2>2, <2>3, <2>4
<1>9. CASE w = c /\ e.kind \in V!ContentKinds /\ (view # Nothing => Replaces(e))
  <2>1. Sound(c) /\ Fits(e, c) /\ c # Nothing
    BY <1>1, <1>4, <1>9 DEF ViewInv, PipeInv
  <2>2. view # Nothing /\ ~ ahead => Le(view, w)
    BY <1>1, <1>9 DEF ViewInv, NextInv
  <2>3. \A f \in received \cup {e} : Fits(f, w)
    BY <1>1, <1>9, <2>1 DEF ViewInv, DoneInv
  <2>4. ASSUME NEW j \in 2..Len(socket), Replaces(socket[j].event)
        PROVE  Le(w, socket[j].content)
    <3>1. Sound(socket[j].content)
      BY <1>5, <2>4 DEF ViewInv, PipeInv, Replaces, V!ContentKinds
    <3> QED
      BY <1>1, <1>4, <1>5, <1>9, <2>1, <3>1 DEF ViewInv, PipeInv
  <2>5. \A q \in read : q # Nothing => Le(w, q)
    BY <1>1, <1>9, <2>1 DEF ViewInv, PipeInv
  <2> QED
    BY <1>9, <2>1, <2>2, <2>3, <2>4, <2>5
<1> QED
  <2>1. CASE e.kind = "lifetime" /\ view = Nothing
    <3>1. w = view
      BY <2>1 DEF V!Shown
    <3> QED
      BY <1>8, <2>1, <3>1
  <2>2. CASE e.kind = "new" /\ view = Nothing
    <3>1. w = c
      BY <2>2 DEF V!Shown
    <3> QED
      BY <1>9, <2>2, <3>1 DEF V!ContentKinds
  <2>3. CASE e.kind = "new" /\ view # Nothing
    <3>1. w = view
      BY <2>3 DEF V!Shown
    <3> QED
      BY <1>8, <2>3, <3>1
  <2>4. CASE e.kind \in {"update", "deleted"} /\ view = Nothing
    <3>1. w = view
      BY <2>4 DEF V!Shown
    <3> QED
      BY <1>8, <2>4, <3>1
  <2>5. CASE e.kind \in {"update", "deleted"} /\ view # Nothing
    <3>1. w = c
      BY <2>5 DEF V!Shown
    <3> QED
      BY <1>9, <2>5, <3>1 DEF V!ContentKinds, Replaces
  <2> QED
    BY <1>2, <1>6, <1>7, <2>1, <2>2, <2>3, <2>4, <2>5

LEMMA Receives == ASSUME ViewInv, V!Receive PROVE ViewInv' /\ Kept
<1> DEFINE e == socket[1].event
           c == socket[1].content
           w == V!Shown(e, c)
<1>1. /\ socket \in Seq(V!Sent) /\ Len(socket) \in Nat \ {0} /\ 1 \in 1..Len(socket)
      /\ Head(socket) = socket[1] /\ Tail(socket) \in Seq(V!Sent)
      /\ \A i \in 1..Len(Tail(socket)) : Tail(socket)[i] = socket[i + 1] /\ i + 1 \in 2..Len(socket)
      /\ Len(Tail(socket)) \in Nat
  <2>1. socket \in Seq(V!Sent) /\ socket # <<>>
    BY DEF ViewInv, V!TypeOK, V!Receive
  <2> QED
    BY <2>1, TailFacts
<1>2. /\ received' = received \cup {e} /\ socket' = Tail(socket)
      /\ view' = IF e \in received THEN view ELSE V!Lapsed(w)
      /\ UNCHANGED V!rowVars /\ owed' = owed /\ published' = published /\ transit' = transit
      /\ chain' = chain /\ read' = read /\ behind' = behind /\ page' = page
      /\ reply' = reply /\ overtaken' = overtaken /\ ahead' = ahead /\ socket # <<>>
  BY <1>1 DEF V!Receive, V!tabVars
<1>3. /\ w # Nothing => Sound(w)
      /\ w = Nothing => hidden \/ view = Nothing
      /\ w # Nothing /\ view # Nothing /\ ~ ahead => Le(view, w)
      /\ e \notin received /\ ~ overtaken /\ w # Nothing
           => \A f \in received \cup {e} : Fits(f, w)
      /\ w # Nothing /\ ~ ahead =>
           /\ \A j \in 2..Len(socket) :
                Replaces(socket[j].event) => Le(w, socket[j].content)
           /\ \A q \in read : q # Nothing /\ Replaces(Head(chain)) => Le(w, q)
  BY <1>2, ShownFacts
<1> HIDE DEF w
<1>4. V!Lapsed(Nothing) = Nothing
  BY DEF V!Lapsed
<1>5. Sending = {e} \cup Sending' /\ e \in V!MessageEvents
  <2>1. ASSUME NEW i \in 1..Len(socket)
        PROVE  socket[i].event \in {e} \cup Sending'
    <3>1. CASE i = 1
      BY <3>1
    <3>2. CASE i # 1
      <4>1. i \in 2..Len(socket)
        BY <1>1, <3>2
      <4>2. i - 1 \in 1..Len(Tail(socket)) /\ socket[i] = Tail(socket)[i - 1]
        BY <1>1, <1>2, <4>1, TailFacts
      <4> QED
        BY <1>2, <4>2 DEF Sending
    <3> QED
      BY <3>1, <3>2
  <2>2. Sending' \subseteq Sending
    <3>1. ASSUME NEW i \in 1..Len(Tail(socket)) PROVE Tail(socket)[i].event \in Sending
      <4>1. i + 1 \in 1..Len(socket) /\ Tail(socket)[i] = socket[i + 1]
        BY <1>1
      <4> QED
        BY <4>1 DEF Sending
    <3> QED
      BY <1>2, <3>1 DEF Sending
  <2>3. e \in Sending
    BY <1>1 DEF Sending
  <2>4. Sending \subseteq {e} \cup Sending'
    BY <2>1 DEF Sending
  <2>5. e \in V!MessageEvents
    BY <2>3, KnownEvents DEF Known, ViewInv
  <2> QED
    BY <2>2, <2>3, <2>4, <2>5
<1>6. EventsInv' /\ RowInv'
  <2>1. Known' \subseteq Known
    BY <1>2, <1>5 DEF Known, Chained
  <2> QED
    BY <1>2, <2>1, SameEvents
<1>7. view' # Nothing => Sound(view')
  <2>1. CASE e \in received
    BY <1>2, <2>1 DEF ViewInv, TabInv
  <2>2. CASE e \notin received
    BY <1>2, <1>3, <1>4, <2>2, LapsedFacts DEF ViewInv
  <2> QED
    BY <2>1, <2>2
<1>8. V!TypeOK'
  <2>1. view' \in V!Content \cup {Nothing}
    BY <1>7 DEF Sound
  <2> QED
    BY <1>1, <1>2, <1>5, <2>1, SameRow DEF ViewInv, V!TypeOK, V!rowVars
<1>9. TabInv'
  BY <1>2, <1>7, SameRow DEF ViewInv, TabInv, V!rowVars
<1>10. \A i \in 1..Len(socket') : socket'[i] = socket[i + 1] /\ i + 1 \in 1..Len(socket)
                                  /\ i + 1 \in 2..Len(socket)
  BY <1>1, <1>2
<1>11. PipeInv'
  <2>1. \A i \in 1..Len(socket') :
          IF socket'[i].event.kind \in V!ContentKinds
          THEN Sound(socket'[i].content) /\ Fits(socket'[i].event, socket'[i].content)
          ELSE socket'[i].content = Nothing
    BY <1>10 DEF ViewInv, PipeInv
  <2>2. ASSUME NEW i \in 1..Len(socket'), NEW j \in 1..Len(socket'), i < j,
               socket'[i].content # Nothing, socket'[j].content # Nothing
        PROVE  Le(socket'[i].content, socket'[j].content)
    <3>1. i + 1 < j + 1 /\ i + 1 \in 1..Len(socket) /\ j + 1 \in 1..Len(socket)
      BY <1>10, <2>2
    <3>2. socket'[i] = socket[i + 1] /\ socket'[j] = socket[j + 1]
      BY <1>10
    <3>3. \A k, l \in 1..Len(socket) :
            k < l /\ socket[k].content # Nothing /\ socket[l].content # Nothing
              => Le(socket[k].content, socket[l].content)
      BY DEF ViewInv, PipeInv
    <3> QED
      BY <2>2, <3>1, <3>2, <3>3
  <2>3. \A q \in read : q # Nothing =>
          /\ Sound(q) /\ Fits(Head(chain), q)
          /\ \A i \in 1..Len(socket') : socket'[i].content # Nothing => Le(socket'[i].content, q)
    BY <1>10 DEF ViewInv, PipeInv
  <2> QED
    BY <1>2, <2>1, <2>2, <2>3, SameRow DEF ViewInv, PipeInv, Chained
<1>12. DoneInv'
  <2>1. ASSUME NEW q, q # Nothing,
               q \in read \/ \E j \in 2..Len(socket) : q = socket[j].content
        PROVE  Fits(e, q)
    <3>1. CASE e.kind \in {"update", "deleted"}
      <4>1. Sound(c) /\ Fits(e, c) /\ c # Nothing
        BY <1>1, <3>1, Contents DEF ViewInv, PipeInv, V!ContentKinds, Sound
      <4>2. Le(c, q)
        <5>1. \A j \in 2..Len(socket) : j \in 1..Len(socket) /\ 1 < j
          BY <1>1
        <5> QED
          BY <1>1, <2>1, <4>1, <5>1 DEF ViewInv, PipeInv
      <4>3. e.kind = "update" => e.n \in Nat
        BY <1>5, ViewAssumption DEF V!MessageEvents, V!Texts
      <4>4. c.text \in Nat /\ q.text \in Nat
        <5>1. Sound(q)
          <6>1. CASE q \in read
            BY <2>1, <6>1 DEF ViewInv, PipeInv
          <6>2. CASE \E j \in 2..Len(socket) : q = socket[j].content
            <7>1. PICK j \in 1..Len(socket) : q = socket[j].content
              BY <1>1, <6>2
            <7> QED
              BY <2>1, <7>1 DEF ViewInv, PipeInv
          <6> QED
            BY <2>1, <6>1, <6>2
        <5>2. c \in V!Content /\ q \in V!Content
          BY <4>1, <5>1 DEF Sound
        <5> QED
          BY <5>2, Contents
      <4> QED
        BY <4>1, <4>2, <4>3, <4>4 DEF Fits, Le
    <3>2. CASE e.kind \notin {"update", "deleted"}
      BY <3>2 DEF Fits
    <3> QED
      BY <3>1, <3>2
  <2>2. ASSUME NEW f \in received, NEW q, q # Nothing,
               q \in read \/ \E j \in 2..Len(socket) : q = socket[j].content
        PROVE  Fits(f, q)
    <3>1. CASE q \in read
      BY <2>2, <3>1 DEF ViewInv, DoneInv
    <3>2. CASE \E j \in 2..Len(socket) : q = socket[j].content
      <4>1. PICK j \in 1..Len(socket) : q = socket[j].content
        BY <1>1, <3>2
      <4> QED
        BY <2>2, <4>1 DEF ViewInv, DoneInv
    <3> QED
      BY <2>2, <3>1, <3>2
  <2>3. ASSUME view' # Nothing, ~ overtaken, NEW f \in received \cup {e}
        PROVE  Fits(f, view')
    <3>1. CASE e \in received
      BY <1>2, <2>3, <3>1 DEF ViewInv, DoneInv
    <3>2. CASE e \notin received
      <4>1. w # Nothing /\ view' = V!Lapsed(w)
        BY <1>2, <1>4, <2>3, <3>2
      <4>2. V!Lapsed(w).text = w.text /\ (w.deleted => V!Lapsed(w).deleted)
        BY <1>3, <2>3, <4>1, LapsedFacts DEF ViewInv
      <4>3. Fits(f, w)
        BY <1>3, <2>3, <3>2, <4>1
      <4> QED
        BY <4>1, <4>2, <4>3 DEF Fits
    <3> QED
      BY <3>1, <3>2
  <2>4. \A f \in received \cup {e} :
          /\ \A i \in 1..Len(socket') : socket'[i].content # Nothing => Fits(f, socket'[i].content)
          /\ \A q \in read : q # Nothing => Fits(f, q)
    BY <1>10, <2>1, <2>2
  <2> QED
    BY <1>2, <2>3, <2>4, SameRow DEF DoneInv
<1>13. NextInv'
  <2> SUFFICES ASSUME view' # Nothing, ~ ahead
               PROVE  /\ \A i \in 1..Len(socket') :
                           Replaces(socket'[i].event) => Le(view', socket'[i].content)
                      /\ \A q \in read : q # Nothing /\ Replaces(Head(chain)) => Le(view', q)
    BY <1>2, SameRow DEF NextInv
  <2>1. CASE e \in received
    BY <1>2, <1>10, <2>1 DEF ViewInv, NextInv
  <2>2. CASE e \notin received
    <3>1. w # Nothing /\ view' = V!Lapsed(w) /\ Sound(w) /\ V!Lapsed(w) # Nothing
      BY <1>2, <1>3, <1>4, <2>2
    <3>2. ASSUME NEW i \in 1..Len(socket'), Replaces(socket'[i].event)
          PROVE  Le(V!Lapsed(w), socket'[i].content)
      <4>1. Le(w, socket'[i].content)
        BY <1>3, <1>10, <3>1, <3>2
      <4>2. Fits(socket'[i].event, socket'[i].content)
        BY <1>10, <3>2 DEF ViewInv, PipeInv, Replaces, V!ContentKinds
      <4>3. socket'[i].event \in Known
        BY <1>10 DEF Known, Sending
      <4> QED
        BY <3>1, <3>2, <4>1, <4>2, <4>3, LapsedBehind
    <3>3. ASSUME NEW q \in read, q # Nothing, Replaces(Head(chain))
          PROVE  Le(V!Lapsed(w), q)
      <4>1. Le(w, q)
        BY <1>3, <3>1, <3>3
      <4>2. Fits(Head(chain), q)
        BY <3>3 DEF ViewInv, PipeInv
      <4>3. Head(chain) \in Known
        <5>1. chain \in Seq(V!MessageEvents) /\ chain # <<>>
          BY <3>3 DEF ViewInv, V!TypeOK
        <5>2. 1 \in 1..Len(chain) /\ Head(chain) = chain[1]
          BY <5>1, TailFacts
        <5> QED
          BY <5>2 DEF Known, Chained
      <4> QED
        BY <3>1, <3>3, <4>1, <4>2, <4>3, LapsedBehind
    <3> QED
      BY <3>1, <3>2, <3>3
  <2> QED
    BY <2>1, <2>2
<1>14. Coming'
  <2>1. view' = Nothing /\ ~ hidden /\ deadline # "passed" => view = Nothing
    <3>1. CASE e \in received
      BY <1>2, <3>1
    <3>2. CASE e \notin received
      BY <1>2, <1>3, <3>2, LapsedFacts DEF ViewInv
    <3> QED
      BY <3>1, <3>2
  <2> QED
    BY <1>2, <1>5, <2>1 DEF ViewInv, Coming, Chained, V!rowVars
<1>15. Kept
  <2>1. CASE e \in received
    <3>1. view # Nothing => view.text <= view.text
      <4>1. view \in V!Content \/ view = Nothing
        BY DEF ViewInv, V!TypeOK
      <4>2. view # Nothing => view.text \in Nat
        BY <4>1, Contents
      <4> QED
        BY <4>2
    <3> QED
      BY <1>2, <2>1, <3>1 DEF Kept, Le
  <2>2. CASE e \notin received
    <3>1. view' = V!Lapsed(w)
      BY <1>2, <2>2
    <3>2. w # Nothing =>
            /\ V!Lapsed(w) # Nothing
                 => V!Lapsed(w).text = w.text /\ (w.deleted => V!Lapsed(w).deleted)
            /\ deadline = "passed" => ~ V!Readable(V!Lapsed(w))
      BY <1>3, LapsedFacts DEF ViewInv
    <3>3. ~ V!Readable(Nothing)
      BY DEF V!Readable
    <3> QED
      BY <1>3, <1>4, <3>1, <3>2, <3>3 DEF Kept, Le
  <2> QED
    BY <2>1, <2>2
<1> QED
  BY <1>6, <1>8, <1>9, <1>11, <1>12, <1>13, <1>14, <1>15 DEF ViewInv

LEMMA ReadFits ==
  ASSUME ViewInv, V!AsRead # Nothing, NEW e \in Known
  PROVE  Fits(e, V!AsRead)
  BY ReadFacts DEF Fits, ViewInv, EventsInv

(* The tab's own steps leave the rows and the stream alone.                *)
LEMMA TabKeeps ==
  ASSUME ViewInv, UNCHANGED <<V!rowVars, owed, published, V!streamVars, received>>,
         view' # Nothing => Sound(view'), overtaken' \in BOOLEAN, ahead' \in BOOLEAN,
         behind' \in BOOLEAN,
         page' \in {{}, page, {V!AsRead}}, reply' \in {{}, reply, {V!AsRead}}
  PROVE  V!TypeOK' /\ RowInv' /\ EventsInv' /\ PipeInv' /\ TabInv'
<1>1. /\ UNCHANGED V!rowVars /\ owed' = owed /\ published' = published /\ transit' = transit
      /\ chain' = chain /\ read' = read /\ socket' = socket /\ received' = received
  BY DEF V!streamVars
<1>2. EventsInv' /\ RowInv'
  BY <1>1, SameEvents DEF Known, Chained, Sending
<1>3. /\ V!AsRead = Nothing <=> hidden
      /\ V!AsRead # Nothing => Sound(V!AsRead)
  BY ReadFacts DEF ViewInv
<1>4. V!AsRead \in V!Content \cup {Nothing} /\ view' \in V!Content \cup {Nothing}
  BY <1>3 DEF Sound
<1>5. V!TypeOK'
  <2>1. {read', page', reply'} \subseteq {{}} \cup {{c} : c \in V!Content \cup {Nothing}}
    <3>1. {read, page, reply} \subseteq {{}} \cup {{c} : c \in V!Content \cup {Nothing}}
      BY DEF ViewInv, V!TypeOK
    <3>2. {V!AsRead} \in {{c} : c \in V!Content \cup {Nothing}}
      BY <1>4
    <3> QED
      BY <1>1, <3>1, <3>2
  <2>2. /\ life' \in Lives /\ text' \in V!Texts' /\ deleted' \in BOOLEAN /\ hidden' \in BOOLEAN
        /\ deadline' \in {"none", "set", "passed"} /\ cleaned' \in BOOLEAN
        /\ cleaned' => deleted' /\ deadline' = "passed" /\ V!New' \notin published'
    BY <1>1, SameRow DEF ViewInv, V!TypeOK, V!rowVars
  <2>3. /\ owed' \cup published' \cup transit' \cup received' \subseteq V!MessageEvents'
        /\ chain' \in Seq(V!MessageEvents') /\ socket' \in Seq(V!Sent')
        /\ read' # {} => chain' # <<>>
    BY <1>1, SameRow DEF ViewInv, V!TypeOK
  <2> QED
    BY <1>4, <2>1, <2>2, <2>3, SameRow DEF V!TypeOK
<1>6. PipeInv'
  BY <1>1, SameRow DEF ViewInv, PipeInv, Chained
<1>7. TabInv'
  BY <1>1, <1>3, SameRow DEF ViewInv, TabInv, V!rowVars
<1> QED
  BY <1>2, <1>5, <1>6, <1>7

LEMMA SelfLe == ASSUME ViewInv, view # Nothing PROVE Le(view, view)
<1>1. view \in V!Content
  BY DEF ViewInv, V!TypeOK
<1>2. view.text \in Nat
  BY <1>1, Contents
<1> QED
  BY <1>2 DEF Le

(* What the timer does to a content that fits.                             *)
LEMMA LapsedFits ==
  ASSUME ViewInv, NEW e, NEW v, Sound(v), Fits(e, v), V!Lapsed(v) # Nothing
  PROVE  Fits(e, V!Lapsed(v))
  BY LapsedFacts DEF Fits, ViewInv

LEMMA Expires == ASSUME ViewInv, V!Expire PROVE ViewInv' /\ Kept
<1>1. /\ view' = V!Lapsed(view) /\ view # Nothing
      /\ UNCHANGED <<V!rowVars, owed, published, V!streamVars, received>>
      /\ behind' = behind /\ page' = page /\ reply' = reply
      /\ overtaken' = overtaken /\ ahead' = ahead
  BY DEF V!Expire, V!tabVars, V!Lapsed
<1>2. Sound(view)
  BY <1>1 DEF ViewInv, TabInv
<1>3. /\ V!Lapsed(view) = Nothing => deadline = "passed"
      /\ V!Lapsed(view) # Nothing =>
           Sound(V!Lapsed(view)) /\ V!Lapsed(view).text = view.text
             /\ (view.deleted => V!Lapsed(view).deleted)
      /\ deadline = "passed" => ~ V!Readable(V!Lapsed(view))
  BY <1>2, LapsedFacts DEF ViewInv
<1>4. behind \in BOOLEAN /\ overtaken \in BOOLEAN /\ ahead \in BOOLEAN
  BY DEF ViewInv, V!TypeOK
<1>5. V!TypeOK' /\ RowInv' /\ EventsInv' /\ PipeInv' /\ TabInv'
  BY <1>1, <1>3, <1>4, TabKeeps
<1>6. /\ UNCHANGED V!rowVars /\ owed' = owed /\ published' = published /\ transit' = transit
      /\ chain' = chain /\ read' = read /\ socket' = socket /\ received' = received
  BY <1>1 DEF V!streamVars
<1>7. DoneInv'
  <2>1. \A e \in received : V!Lapsed(view) # Nothing /\ ~ overtaken => Fits(e, V!Lapsed(view))
    BY <1>1, <1>2, LapsedFits DEF ViewInv, DoneInv
  <2> QED
    BY <1>1, <1>6, <2>1, SameRow DEF ViewInv, DoneInv
<1>8. NextInv'
  <2>1. ASSUME V!Lapsed(view) # Nothing, ~ ahead,
               NEW i \in 1..Len(socket), Replaces(socket[i].event)
        PROVE  Le(V!Lapsed(view), socket[i].content)
    <3>1. Le(view, socket[i].content)
      BY <1>1, <2>1 DEF ViewInv, NextInv
    <3>2. Fits(socket[i].event, socket[i].content) /\ socket[i].event \in Known
      BY <2>1 DEF ViewInv, PipeInv, Replaces, V!ContentKinds, Known, Sending
    <3> QED
      BY <1>2, <2>1, <3>1, <3>2, LapsedBehind
  <2>2. ASSUME V!Lapsed(view) # Nothing, ~ ahead, NEW q \in read, q # Nothing, Replaces(Head(chain))
        PROVE  Le(V!Lapsed(view), q)
    <3>1. Le(view, q) /\ Fits(Head(chain), q)
      BY <1>1, <2>2 DEF ViewInv, NextInv, PipeInv
    <3>2. chain \in Seq(V!MessageEvents) /\ chain # <<>>
      BY <2>2 DEF ViewInv, V!TypeOK
    <3>3. 1 \in 1..Len(chain) /\ Head(chain) = chain[1]
      BY <3>2, TailFacts
    <3>4. Head(chain) \in Known
      BY <3>3 DEF Known, Chained
    <3> QED
      BY <1>2, <2>2, <3>1, <3>4, LapsedBehind
  <2> QED
    BY <1>1, <1>6, <2>1, <2>2, SameRow DEF NextInv
<1>9. Coming'
  BY <1>1, <1>3, <1>6 DEF ViewInv, Coming, Chained, Sending, V!rowVars
<1>10. Kept
  <2>1. view' # Nothing => Le(view, view')
    BY <1>1, <1>3, SelfLe DEF Le
  <2> QED
    BY <1>1, <1>3, <2>1 DEF Kept
<1> QED
  BY <1>5, <1>7, <1>8, <1>9, <1>10 DEF ViewInv

(* While nothing changes but what is read for the tab.                     *)
LEMMA Asking == ASSUME ViewInv, V!ReadPage \/ V!AnswerReveal PROVE ViewInv' /\ view' = view
<1>1. /\ view' = view /\ UNCHANGED <<V!rowVars, owed, published, V!streamVars, received>>
      /\ page' \in {page, {V!AsRead}} /\ ((page' = page /\ behind' = behind) \/ page' = {V!AsRead})
      /\ reply' \in {{}, reply, {V!AsRead}}
      /\ overtaken' = overtaken /\ ahead' = ahead /\ behind' \in {FALSE, behind}
  BY DEF V!ReadPage, V!AnswerReveal
<1>2. behind' \in BOOLEAN /\ overtaken' \in BOOLEAN /\ ahead' \in BOOLEAN
  BY <1>1 DEF ViewInv, V!TypeOK
<1>3. view # Nothing => Sound(view)
  BY DEF ViewInv, TabInv
<1>4. V!TypeOK' /\ RowInv' /\ EventsInv' /\ PipeInv' /\ TabInv'
  BY <1>1, <1>2, <1>3, TabKeeps
<1>5. /\ UNCHANGED V!rowVars /\ owed' = owed /\ published' = published /\ transit' = transit
      /\ chain' = chain /\ read' = read /\ socket' = socket /\ received' = received
  BY <1>1 DEF V!streamVars
<1>6. DoneInv' /\ NextInv'
  BY <1>1, <1>5, SameRow DEF ViewInv, DoneInv, NextInv
<1>7. Coming'
  BY <1>1, <1>5 DEF ViewInv, Coming, Chained, Sending, V!rowVars
<1> QED
  BY <1>1, <1>4, <1>6, <1>7 DEF ViewInv

(* A history read or an answer that comes in.                              *)
LEMMA Answers == ASSUME ViewInv, V!MergeRecentMessages \/ V!TakeReveal PROVE ViewInv' /\ Kept
<1>1. PICK c \in page \cup reply :
        /\ \/ c \in page /\ view' = (IF view = Nothing THEN V!Lapsed(c) ELSE view)
           \/ c # Nothing /\ page' = page /\ view' = (IF view = Nothing THEN view ELSE V!Lapsed(c))
        /\ view' # view => overtaken' = (overtaken \/ c # V!AsRead)
        /\ overtaken' \in BOOLEAN /\ (overtaken => overtaken')
        /\ ahead' = (ahead \/ view' # view)
        /\ page' \in {{}, page} /\ reply' \in {{}, reply} /\ behind' = behind
        /\ UNCHANGED <<V!rowVars, owed, published, V!streamVars, received>>
  <2>1. overtaken \in BOOLEAN
    BY DEF ViewInv, V!TypeOK
  <2>2. CASE V!MergeRecentMessages
    <3>1. PICK c \in page :
            /\ view' = IF view = Nothing THEN V!Lapsed(c) ELSE view
            /\ overtaken' = (overtaken \/ (view = Nothing /\ c # V!AsRead))
            /\ ahead' = (ahead \/ view' # view)
      BY <2>2 DEF V!MergeRecentMessages
    <3>2. /\ page' = {} /\ reply' = reply /\ behind' = behind
          /\ UNCHANGED <<V!rowVars, owed, published, V!streamVars, received>>
      BY <2>2 DEF V!MergeRecentMessages
    <3> QED
      BY <2>1, <3>1, <3>2
  <2>3. CASE V!TakeReveal
    <3>1. PICK c \in reply \ {Nothing} :
            /\ view' = IF view = Nothing THEN view ELSE V!Lapsed(c)
            /\ overtaken' = (overtaken \/ (view # Nothing /\ c # V!AsRead))
            /\ ahead' = (ahead \/ view' # view)
      BY <2>3 DEF V!TakeReveal
    <3>2. /\ page' = page /\ reply' = {} /\ behind' = behind
          /\ UNCHANGED <<V!rowVars, owed, published, V!streamVars, received>>
      BY <2>3 DEF V!TakeReveal
    <3> QED
      BY <2>1, <3>1, <3>2
  <2> QED
    BY <2>2, <2>3
<1>2. c # Nothing => Sound(c)
  BY DEF ViewInv, TabInv
<1>3. V!Lapsed(Nothing) = Nothing
  BY DEF V!Lapsed
<1>4. /\ c # Nothing /\ V!Lapsed(c) = Nothing => deadline = "passed"
      /\ c # Nothing /\ V!Lapsed(c) # Nothing => Sound(V!Lapsed(c))
      /\ deadline = "passed" => ~ V!Readable(V!Lapsed(c))
  <2>1. CASE c = Nothing
    BY <1>3, <2>1 DEF V!Readable
  <2>2. CASE c # Nothing
    BY <1>2, <2>2, LapsedFacts DEF ViewInv
  <2> QED
    BY <2>1, <2>2
<1>5. view' # Nothing => Sound(view')
  <2>1. view # Nothing => Sound(view)
    BY DEF ViewInv, TabInv
  <2> QED
    BY <1>1, <1>3, <1>4, <2>1
<1>6. behind' \in BOOLEAN /\ ahead' \in BOOLEAN
  BY <1>1 DEF ViewInv, V!TypeOK
<1>7. V!TypeOK' /\ RowInv' /\ EventsInv' /\ PipeInv' /\ TabInv'
  BY <1>1, <1>5, <1>6, TabKeeps
<1>8. /\ UNCHANGED V!rowVars /\ owed' = owed /\ published' = published /\ transit' = transit
      /\ chain' = chain /\ read' = read /\ socket' = socket /\ received' = received
  BY <1>1 DEF V!streamVars
<1>9. DoneInv'
  <2>1. ASSUME NEW e \in received, view' # Nothing, ~ overtaken'
        PROVE  Fits(e, view')
    <3>1. CASE view' = view
      BY <1>1, <2>1, <3>1 DEF ViewInv, DoneInv
    <3>2. CASE view' # view
      <4>1. view' = V!Lapsed(c) /\ c = V!AsRead /\ c # Nothing
        BY <1>1, <1>3, <2>1, <3>2
      <4>2. Fits(e, c)
        BY <2>1, <4>1, ReadFits DEF Known
      <4> QED
        BY <1>2, <2>1, <4>1, <4>2, LapsedFits
    <3> QED
      BY <3>1, <3>2
  <2> QED
    BY <1>8, <2>1, SameRow DEF ViewInv, DoneInv
<1>10. NextInv'
  <2>1. ~ ahead' => view' = view /\ ~ ahead
    BY <1>1
  <2> QED
    BY <1>8, <2>1, SameRow DEF ViewInv, NextInv
<1>11. Coming'
  <2>1. ASSUME view' = Nothing, ~ hidden, deadline # "passed"
        PROVE  view = Nothing /\ page' = page
    <3>1. c \in page => c # Nothing
      BY <2>1 DEF ViewInv, TabInv
    <3> QED
      BY <1>1, <1>4, <2>1, <3>1
  <2> QED
    BY <1>1, <1>8, <2>1 DEF ViewInv, Coming, Chained, Sending, V!rowVars
<1>12. Kept
  <2>1. ~ ahead' /\ view # Nothing => view' = view /\ Le(view, view)
    BY <1>1, SelfLe
  <2>2. deadline = "passed" /\ ~ V!Readable(view) => ~ V!Readable(view')
    BY <1>1, <1>4
  <2> QED
    BY <2>1, <2>2 DEF Kept
<1> QED
  BY <1>7, <1>9, <1>10, <1>11, <1>12 DEF ViewInv

(* A step that leaves what is shown.                                       *)
LEMMA SameView == ASSUME ViewInv, view' = view PROVE Kept
  BY SelfLe DEF Kept

LEMMA ViewStep == ViewInv /\ [V!Next]_(V!vars) => ViewInv' /\ Kept
<1> SUFFICES ASSUME ViewInv, [V!Next]_(V!vars) PROVE ViewInv' /\ Kept
  OBVIOUS
<1>1. CASE V!EditMessage
  BY <1>1, Editing, SameView DEF V!EditMessage
<1>2. CASE V!SoftDeleteMessage
  BY <1>2, Deleting, SameView DEF V!SoftDeleteMessage
<1>3. CASE V!DeleteForMe
  BY <1>3, Hiding, SameView DEF V!DeleteForMe
<1>4. ASSUME NEW mine \in BOOLEAN, V!RevealSelfDestruct(mine) PROVE ViewInv' /\ Kept
  BY <1>4, Revealing, SameView DEF V!RevealSelfDestruct
<1>5. CASE V!PassDeadline
  BY <1>5, Passing, SameView DEF V!PassDeadline
<1>6. CASE V!CleanupExpiredMessages
  BY <1>6, Sweeping, SameView DEF V!CleanupExpiredMessages
<1>7. ASSUME NEW e \in V!MessageEvents, V!Publish(e) PROVE ViewInv' /\ Kept
  BY <1>7, Publishing, SameView DEF V!Publish
<1>8. ASSUME NEW e \in V!MessageEvents, V!Deliver(e) PROVE ViewInv' /\ Kept
  BY <1>8, Delivering, SameView DEF V!Deliver
<1>9. CASE V!CurrentMessageEvent
  BY <1>9, Reading, SameView DEF V!CurrentMessageEvent
<1>10. CASE V!SendCurrent
  BY <1>10, SendsCurrent, SameView DEF V!SendCurrent
<1>11. CASE V!Reconnect
  BY <1>11, Reconnecting, SameView DEF V!Reconnect
<1>12. CASE V!Receive
  BY <1>12, Receives
<1>13. CASE V!Expire
  BY <1>13, Expires
<1>14. CASE V!ReadPage \/ V!AnswerReveal
  BY <1>14, Asking, SameView
<1>15. CASE V!MergeRecentMessages \/ V!TakeReveal
  BY <1>15, Answers
<1>16. CASE UNCHANGED V!vars
  <2>1. /\ UNCHANGED V!rowVars /\ owed' = owed /\ published' = published /\ transit' = transit
        /\ chain' = chain /\ read' = read /\ socket' = socket /\ received' = received
        /\ behind' = behind /\ page' = page /\ reply' = reply /\ overtaken' = overtaken
        /\ ahead' = ahead /\ view' = view
    BY <1>16 DEF V!vars, V!streamVars, V!tabVars
  <2>2. EventsInv' /\ RowInv'
    BY <2>1, SameEvents DEF Known, Chained, Sending
  <2>3. V!TypeOK'
    BY <2>1, SameRow DEF ViewInv, V!TypeOK, V!rowVars
  <2>4. PipeInv' /\ TabInv' /\ DoneInv' /\ NextInv' /\ Coming'
    BY <2>1, SameRow DEF ViewInv, PipeInv, TabInv, DoneInv, NextInv, Coming, Chained, Sending,
                         V!rowVars
  <2> QED
    BY <2>1, <2>2, <2>3, <2>4, SameView DEF ViewInv
<1> QED
  BY <1>1, <1>2, <1>3, <1>4, <1>5, <1>6, <1>7, <1>8, <1>9, <1>10, <1>11, <1>12, <1>13, <1>14,
     <1>15, <1>16 DEF V!Next

(* What the tab shows when nothing is under way.                           *)
LEMMA Converged == ViewInv => V!Converges
<1> SUFFICES ASSUME ViewInv, V!Quiet, ~ hidden, deadline # "passed", ~ overtaken
             PROVE  view # Nothing /\ view.text = text /\ view.deleted = deleted
  BY DEF V!Converges
<1>1. Chained = {} /\ Sending = {} /\ owed = {} /\ transit = {} /\ ~ behind /\ page = {}
  BY DEF V!Quiet, Chained, Sending
<1>2. view # Nothing /\ published \subseteq received
  BY <1>1 DEF ViewInv, Coming
<1>3. Sound(view) /\ \A e \in received : Fits(e, view)
  BY <1>2 DEF ViewInv, TabInv, DoneInv
<1>4. view \in V!Content /\ text \in Nat
  BY <1>3, ViewAssumption DEF Sound, ViewInv, V!TypeOK, V!Texts
<1>5. view.text \in Nat /\ view.deleted \in BOOLEAN /\ deleted \in BOOLEAN
  BY <1>4, Contents DEF ViewInv, V!TypeOK
<1>6. text > 0 => text <= view.text
  <2>1. text > 0 => [kind |-> "update", n |-> text] \in received
    BY <1>1, <1>2 DEF ViewInv, Coming
  <2> QED
    BY <1>3, <2>1 DEF Fits
<1>7. deleted => view.deleted
  <2>1. deleted => [kind |-> "deleted", n |-> 0] \in received
    BY <1>1, <1>2 DEF ViewInv, Coming
  <2> QED
    BY <1>3, <2>1 DEF Fits
<1>8. view.text = text
  BY <1>3, <1>4, <1>5, <1>6 DEF Sound
<1>9. view.deleted = deleted
  BY <1>3, <1>5, <1>7 DEF Sound
<1> QED
  BY <1>2, <1>8, <1>9

LEMMA Dated == ViewInv => V!DeadlineIsKnown
  BY DEF ViewInv, TabInv, Sound, V!DeadlineIsKnown, V!Readable

LEMMA ViewPart == [PartsNext]_Parts => [V!Next]_(V!vars)
  BY DEF PartsNext, Parts, viewVars, V!vars, V!rowVars, V!streamVars, V!tabVars

(* The invariant of the view among the other parts.                        *)
THEOREM ViewInvariance == PartsSpec => []ViewInv
<1>1. PartsInit => ViewInv
  BY ViewInitially DEF PartsInit
<1>2. ViewInv /\ [PartsNext]_Parts => ViewInv'
  BY ViewPart, ViewStep
<1> QED
  BY <1>1, <1>2, PTL DEF PartsSpec

(* In whatever order the events of edits and of a deletion are published,  *)
(* read and sent, and wherever streams break and replay, a tab that has    *)
(* everything shows the message as it is, unless it took an answer that a  *)
(* change had overtaken (currentMessageEvent, messageDelivery).            *)
THEOREM ViewConverges == PartsSpec => []Converges
<1>1. ViewInv => Converges
  BY Converged DEF Converges
<1> QED
  BY <1>1, ViewInvariance, PTL

(* No late or replayed event and no history read brings an older text or a *)
(* deleted message back (onmessage, reconcileRecentMessages).              *)
THEOREM NothingReverts == PartsSpec => NeverReverts
<1>1. ViewInv /\ [PartsNext]_Parts =>
        [/\ view # Nothing /\ view' # Nothing /\ ~ ahead /\ ~ ahead'
              => view.text <= view'.text /\ (view.deleted => view'.deleted)
         /\ deadline = "passed" /\ ~ V!Readable(view) => ~ V!Readable(view')]_(V!vars)
  BY ViewPart, ViewStep DEF Kept, Le
<1> QED
  BY <1>1, ViewInvariance, PTL DEF PartsSpec, NeverReverts, V!NeverReverts

(* Whichever event, history read or answer a text came with, a deadline it *)
(* has came with it (getMessageDTO, message:lifetime).                     *)
THEOREM DeadlinesAreKnown == PartsSpec => []DeadlineIsKnown
<1>1. ViewInv => DeadlineIsKnown
  BY Dated DEF DeadlineIsKnown
<1> QED
  BY <1>1, ViewInvariance, PTL

-----------------------------------------------------------------------------
(* The same stream among the other parts.                                  *)
THEOREM PartsStrandNothing == PartsSpec => []NothingStranded
  <1>1. PartsInit => IInv
    BY Initially DEF PartsInit
  <1>2. IInv /\ [PartsNext]_Parts => IInv'
    BY NextKeeps DEF PartsNext, Parts
  <1>3. IInv => NothingStranded
    BY DEF IInv, TypeOK, Stages, Covered, Stored, NothingStranded
  <1>4. QED
    BY <1>1, <1>2, <1>3, PTL DEF PartsSpec
=============================================================================
