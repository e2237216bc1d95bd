-------------------------- MODULE TemporaryRooms --------------------------
(* One temporary room: the server's transactions on its row, and the tabs  *)
(* of the people who have its code, each with the refresh that runs in it, *)
(* its event stream and what it shows.  Times are kept as what is left of  *)
(* them, or as what has passed, and Tick moves them all.  A definition     *)
(* named Bug... is a plausible defect of one below it, for the mutants.    *)
EXTENDS Integers, Sequences, SequencesExt, FiniteSetsExt, Functions

CONSTANTS
  Host, Joiners,  \* who creates the room, who has its one-time code
  Author,         \* the messages that people write, each with its writer's role
  Requests,       \* POST requests under way at once
  Nobody,         \* no person
  Life, Extra,    \* initial lifetime, extensions that can be asked for
  MaxLife,        \* at most so long after the creation (24 hours)
  Page,           \* messages of one answer
  Scenes          \* bound: each with those whose tabs are followed (the others
                  \* see the room as it is) and the extensions asked for

People == {Host} \cup Joiners
Role(p) == IF p = Host THEN "host" ELSE "guest"
Messages == DOMAIN Author
Kinds == {"create", "join", "message", "extend", "approve", "reject", "end"}

VARIABLES
  scene,    \* the bound that this behaviour keeps to
  room,     \* temporary_rooms
  log,      \* temporary_room_messages in the order of created_at
  req,      \* POST requests and their answers
  tab,      \* the state of temporary-room.tsx
  asked,    \* extensions that were asked for; the row names the last, if any
  acked,    \* history: messages whose sender was told that they are sent
  granted   \* history: extensions in the order they were added, each with its
            \* approver and how long after its creation the room then lives

history == <<acked, granted>>
vars == <<scene, room, log, asked, req, tab, history>>

NoAsk == 0
Absent == [open |-> FALSE, gone |-> FALSE]
Gone == [open |-> FALSE, gone |-> TRUE]
Free == [kind |-> "none", by |-> Nobody, awaited |-> FALSE]
Plain == [plain |-> TRUE]
Idle == [state |-> "idle"]
Asked == [state |-> "asked"]
Stale == [state |-> "stale"]
NoTab == [in |-> "out", view |-> "hidden", again |-> FALSE, checking |-> TRUE, cursor |-> 0, shown |-> <<>>,
          read |-> Idle]

(* again: refresh will be called, by refreshAgain, by a message of the     *)
(* stream or by the retry timer.                                           *)
TypeOK ==
  /\ scene \in Scenes
  /\ room \in {Absent, Gone} \cup [open : {TRUE}, age : 0..MaxLife, left : 0..MaxLife,
               guest : Joiners \cup {Nobody}, ask : DOMAIN asked \cup {NoAsk}]
  /\ log \in Seq(Messages) /\ (~ room.open => log = <<>>)
  /\ asked \in Seq([by : People, minutes : Extra]) /\ Len(asked) <= scene.asks
  /\ req \in [Requests -> {Free} \cup
       [kind : Kinds, by : People,
        what : {Plain} \cup [message : Messages] \cup [minutes : Extra] \cup [ask : 1..scene.asks],
        awaited : BOOLEAN]]
  /\ tab \in [People -> [in : {"out", "in", "ended"},
         view : {"current", "hidden", "broken", "connected"}, again : BOOLEAN,
         checking : BOOLEAN, cursor : Nat,
         shown : Seq(Messages),
         read : {Idle, Asked, Stale} \cup [state : {"served"}, page : Seq(Messages)]]]
  /\ acked \subseteq Messages /\ granted \in Seq([ask : 1..scene.asks, by : People, until : 0..MaxLife])

Init ==
  /\ scene \in Scenes
  /\ room = Absent /\ log = <<>> /\ asked = <<>>
  /\ req = [q \in Requests |-> Free]
  /\ tab = [p \in People |-> NoTab]
  /\ acked = {} /\ granted = <<>>

-----------------------------------------------------------------------------
(* What temporary-room.tsx does to its own state.  A refresh or a send of  *)
(* an older generation is stale.                                           *)

Running(t) == t.read # Idle
BugRefresh(t) ==
  IF t.in # "in" \/ t.view = "current" \/ Running(t) THEN t ELSE [t EXCEPT !.read = Asked]
Refresh(t) ==
  IF t.in # "in" \/ t.view = "current" THEN t
  ELSE IF Running(t) THEN [t EXCEPT !.again = TRUE] ELSE [t EXCEPT !.read = Asked]
Finish(t) == [t EXCEPT !.read = Idle]
BugSuspend(t) == [t EXCEPT !.cursor = 0, !.shown = <<>>, !.checking = TRUE]
Suspend(t) ==
  [t EXCEPT !.read = IF Running(t) THEN Stale ELSE @,
            !.cursor = 0, !.shown = <<>>, !.checking = TRUE]
Retired == [NoTab EXCEPT !.in = "ended"]

Awaits(p, kinds) == \E q \in Requests : req[q].by = p /\ req[q].awaited /\ req[q].kind \in kinds
Busy(p) == \E q \in Requests : req[q].by = p /\ req[q].awaited

(* The row as a transaction finds it.                                      *)
Open == room.open /\ room.left > 0
IsIn(p) == p = Host \/ room.guest = p

-----------------------------------------------------------------------------
(* POST requests: the buttons and forms of a tab.                          *)

Post(q, p, kind, what) ==
  /\ req[q] = Free /\ (kind = "end" \/ ~ Busy(p))
  /\ req' = [req EXCEPT ![q] = [kind |-> kind, by |-> p, what |-> what, awaited |-> TRUE]]
  /\ UNCHANGED <<room, log, asked, tab, history>>

EnterCreate(q) == tab[Host].in = "out" /\ Post(q, Host, "create", Plain)
EnterJoin(q, p) == p # Host /\ tab[p].in = "out" /\ tab[Host].in # "out" /\ Post(q, p, "join", Plain)
Send(q, p, m) ==
  /\ tab[p].in = "in" /\ (p \in scene.watched => ~ tab[p].checking)
  /\ m \notin acked /\ Author[m] = Role(p) /\ Post(q, p, "message", [message |-> m])
AskForTime(q, p, n) ==
  tab[p].in = "in" /\ (room.open => room.guest # Nobody) /\ Post(q, p, "extend", [minutes |-> n])
(* The buttons name the extension that the tab was last told of, however   *)
(* long ago.                                                               *)
ApproveTime(q, p, i) ==
  tab[p].in = "in" /\ asked[i].by # p /\ Post(q, p, "approve", [ask |-> i])
DeclineTime(q, p, i) == tab[p].in = "in" /\ Post(q, p, "reject", [ask |-> i])
EndRoom(q, p) == tab[p].in = "in" /\ ~ Awaits(p, {"end"}) /\ Post(q, p, "end", Plain)

(* The tab stops waiting: its time limit ends, or the request or its answer *)
(* is lost.  The server may still work on it, unless it never came.        *)
GiveUp(q) ==
  /\ req[q].awaited /\ req' = [req EXCEPT ![q].awaited = FALSE]
  /\ UNCHANGED <<room, log, asked, tab, history>>
Lost(q) ==
  /\ req[q] # Free /\ ~ req[q].awaited /\ req' = [req EXCEPT ![q] = Free]
  /\ UNCHANGED <<room, log, asked, tab, history>>

-----------------------------------------------------------------------------
(* The server.  An answer that is still awaited arrives with the step.     *)

(* pg_notify, and the listener's pass to the connected streams.            *)
Told(t) == IF t.view = "connected" THEN [t EXCEPT !.again = TRUE] ELSE t

(* A good answer: the rest of enter, send and action.                      *)
Entered(p) ==
  IF p \in scene.watched THEN [NoTab EXCEPT !.in = "in", !.view = "broken", !.read = Asked]
                         ELSE [NoTab EXCEPT !.in = "in", !.view = "current"]
Answered(kind, p, t) ==
  CASE kind \in {"create", "join"} -> Entered(p)
    [] kind = "end" -> Retired
    [] OTHER -> Refresh(t)

(* The request ends well, with or without a change that is told.           *)
Ok(q, told) ==
  /\ req' = [req EXCEPT ![q] = Free]
  /\ tab' = [p \in People |->
       LET t == IF told THEN Told(tab[p]) ELSE tab[p] IN
       IF req[q].awaited /\ req[q].by = p THEN Answered(req[q].kind, p, t) ELSE t]

(* A refusal that leaves the tab as it is, and one that retires it.        *)
Refused(q) == req' = [req EXCEPT ![q] = Free] /\ UNCHANGED tab
RefusedAndRetired(q) ==
  /\ req' = [req EXCEPT ![q] = Free]
  /\ tab' = [tab EXCEPT ![req[q].by] = IF req[q].awaited THEN Retired ELSE @]

Acts(q, kind) == req[q].kind = kind /\ Open /\ IsIn(req[q].by)

CreateTemporaryRoom(q) ==
  /\ req[q].kind = "create" /\ room = Absent
  /\ room' = [open |-> TRUE, age |-> 0, left |-> Life, guest |-> Nobody, ask |-> NoAsk]
  /\ Ok(q, FALSE)
  /\ UNCHANGED <<log, asked, history>>
RecreateTemporaryRoom(q) ==
  /\ req[q].kind = "create" /\ room # Absent
  /\ IF Open THEN Ok(q, FALSE) ELSE RefusedAndRetired(q)
  /\ UNCHANGED <<room, log, asked, history>>

JoinTemporaryRoom(q) ==
  LET p == req[q].by IN
  /\ req[q].kind = "join"
  /\ \/ Open /\ room.guest = Nobody /\ room' = [room EXCEPT !.guest = p] /\ Ok(q, TRUE)
     \/ Open /\ room.guest = p /\ Ok(q, FALSE) /\ UNCHANGED room
     \/ (Open => room.guest \notin {p, Nobody}) /\ Refused(q) /\ UNCHANGED room
  /\ UNCHANGED <<log, asked, history>>

Message(q) ==
  LET m == req[q].what.message IN
  /\ Acts(q, "message")
  /\ IF room.guest = Nobody THEN Refused(q) /\ UNCHANGED <<log, acked>>
     ELSE /\ Ok(q, m \notin Range(log))
          /\ log' = IF m \in Range(log) THEN log ELSE Append(log, m)
          /\ acked' = IF req[q].awaited THEN acked \cup {m} ELSE acked
  /\ UNCHANGED <<room, asked, granted>>

Extend(q) ==
  /\ Acts(q, "extend") /\ Len(asked) < scene.asks
  /\ asked' = Append(asked, [by |-> req[q].by, minutes |-> req[q].what.minutes])
  /\ room' = [room EXCEPT !.ask = Len(asked')]
  /\ Ok(q, TRUE)
  /\ UNCHANGED <<log, history>>

BugMatches(ask) == room.ask # NoAsk
(* The extension request that the client names is the current one.         *)
Matches(ask) == room.ask = ask

Approve(q) ==
  LET p == req[q].by IN
  /\ Acts(q, "approve")
  /\ IF Matches(req[q].what.ask) /\ asked[room.ask].by # p
     THEN /\ room' = [room EXCEPT !.ask = NoAsk,
                                  !.left = Min({@ + asked[room.ask].minutes, MaxLife - room.age})]
          /\ granted' = Append(granted,
               [ask |-> req[q].what.ask, by |-> p, until |-> room'.age + room'.left])
          /\ Ok(q, TRUE)
     ELSE Refused(q) /\ UNCHANGED <<room, granted>>
  /\ UNCHANGED <<log, asked, acked>>

Reject(q) ==
  /\ Acts(q, "reject")
  /\ IF Matches(req[q].what.ask) THEN room' = [room EXCEPT !.ask = NoAsk] /\ Ok(q, TRUE)
     ELSE Refused(q) /\ UNCHANGED room
  /\ UNCHANGED <<log, asked, history>>

(* The row goes, and its messages with it.                                 *)
Delete == room' = Gone /\ log' = <<>> /\ asked' = <<>> /\ acked' = {} /\ granted' = <<>>
End(q) == Acts(q, "end") /\ Delete /\ Ok(q, TRUE)
CleanupTemporaryRooms ==
  room.open /\ room.left = 0 /\ Delete /\ UNCHANGED <<req, tab>>

(* 404 or 410 retire the tab, except that a send of an older generation is *)
(* silent.                                                                 *)
ToldGone(q) ==
  /\ req[q].kind \notin {"none", "create", "join"} /\ ~ (Open /\ IsIn(req[q].by))
  /\ RefusedAndRetired(q) \/ (req[q].kind = "message" /\ Refused(q))
  /\ UNCHANGED <<room, log, asked, history>>

-----------------------------------------------------------------------------
(* The refresh that runs in a tab.                                         *)

Steps(p, t) == tab' = [tab EXCEPT ![p] = t] /\ UNCHANGED <<room, log, asked, history>>

ReadTemporaryRoom(p) ==
  LET t == tab[p]
      upto == Min({Len(log), t.cursor + Page})
  IN
  /\ t.read = Asked /\ Open /\ IsIn(p)
  /\ Steps(p, [t EXCEPT !.read =
       [state |-> "served", page |-> SubSeq(log, t.cursor + 1, upto)]])
  /\ UNCHANGED req
ReadGone(p) ==
  /\ tab[p].read \in {Asked, Stale} /\ ~ (Open /\ IsIn(p))
  /\ Steps(p, IF tab[p].read = Stale THEN Finish(tab[p]) ELSE Retired)
  /\ UNCHANGED req
ReadFails(p) ==
  /\ Running(tab[p])
  /\ Steps(p, Finish([tab[p] EXCEPT !.again = @ \/ (tab[p].read # Stale /\ tab[p].view # "hidden")]))
  /\ UNCHANGED req

(* The page has been decrypted.  If the countdown has ended meanwhile, the *)
(* server is asked first; when it ends is left open, the tab's clock is    *)
(* not the server's.  A full page is followed by the next one, or after    *)
(* five pages by a new refresh.                                            *)
More(read) == Len(read.page) = Page
Receive(p) ==
  LET t == tab[p]
      shows == [t EXCEPT !.shown = @ \o t.read.page, !.cursor = @ + Len(t.read.page)]
  IN
  /\ t.read.state = "served"
  /\ \/ Steps(p, Finish([Suspend(t) EXCEPT !.again = TRUE]))
     \/ More(t.read) /\ Steps(p, [shows EXCEPT !.read = Asked])
     \/ Steps(p, Finish([shows EXCEPT !.again = @ \/ More(t.read), !.checking = FALSE]))
  /\ UNCHANGED req

-----------------------------------------------------------------------------
(* The event stream, the timers and the visibility of a tab.               *)

Connect(p) ==
  /\ tab[p].in = "in" /\ tab[p].view = "broken" /\ Open /\ IsIn(p)
  /\ Steps(p, [tab[p] EXCEPT !.view = "connected", !.again = TRUE]) /\ UNCHANGED req
Disconnect(p) ==
  /\ tab[p].view = "connected"
  /\ \E again \in {tab[p].again, FALSE} :
       Steps(p, [tab[p] EXCEPT !.view = "broken", !.again = again])
  /\ UNCHANGED req
Look(p) == tab[p].again /\ ~ Running(tab[p]) /\ Steps(p, Refresh([tab[p] EXCEPT !.again = FALSE])) /\ UNCHANGED req
Fallback(p) == tab[p].in = "in" /\ tab[p].view = "broken" /\ Steps(p, Refresh(tab[p])) /\ UNCHANGED req

Hide(p) ==
  /\ tab[p].view \in {"broken", "connected"}
  /\ \E again \in {tab[p].again, FALSE} :
       Steps(p, [Suspend(tab[p]) EXCEPT !.view = "hidden", !.again = again])
  /\ UNCHANGED req
Resume(p) ==
  tab[p].in = "in" /\ tab[p].view = "hidden" /\ Steps(p, Refresh([tab[p] EXCEPT !.view = "broken"])) /\ UNCHANGED req

(* The countdown reaches zero: the server is asked before anything else.   *)
CountedDown(p) ==
  /\ p \in scene.watched /\ tab[p].in = "in"
  /\ Steps(p, Refresh(Suspend(tab[p])))
  /\ UNCHANGED req

(* An extension request that is older than a minute counts as none.        *)
Tick ==
  /\ Open
  /\ \E ask \in {room.ask, NoAsk} :
       room' = [room EXCEPT !.left = @ - 1, !.age = @ + 1, !.ask = ask]
  /\ UNCHANGED <<log, asked, req, tab, history>>

Step ==
  \/ \E q \in Requests :
       \/ EnterCreate(q)
       \/ \E p \in People :
            \/ EnterJoin(q, p) \/ EndRoom(q, p)
            \/ \E i \in DOMAIN asked : ApproveTime(q, p, i) \/ DeclineTime(q, p, i)
            \/ \E m \in Messages : Send(q, p, m)
            \/ \E n \in Extra : AskForTime(q, p, n)
       \/ CreateTemporaryRoom(q) \/ RecreateTemporaryRoom(q) \/ JoinTemporaryRoom(q)
       \/ Message(q) \/ Extend(q) \/ Approve(q) \/ Reject(q) \/ End(q)
       \/ ToldGone(q) \/ GiveUp(q) \/ Lost(q)
  \/ \E p \in People :
       \/ ReadTemporaryRoom(p) \/ ReadGone(p) \/ ReadFails(p) \/ Receive(p)
       \/ Connect(p) \/ Disconnect(p) \/ Look(p) \/ Fallback(p)
       \/ Hide(p) \/ Resume(p) \/ CountedDown(p)
  \/ CleanupTemporaryRooms
  \/ Tick

Next == Step /\ UNCHANGED scene

Spec == Init /\ [][Next]_vars

-----------------------------------------------------------------------------
(* Safety.                                                                 *)

(* What a tab shows is a gapless prefix of the room's messages, whatever   *)
(* refreshes, suspensions and resumptions overlapped                       *)
(* (temporary-room.tsx: refresh, suspend).                                 *)
ShownInOrder == \A p \in People :
  room.open => IsPrefix(tab[p].shown, log)

(* A message that was reported as sent is in the room, once, however often *)
(* it was retried (actOnTemporaryRoom, send).                              *)
SentOnce == acked \subseteq Range(log) /\ IsInjective(log)

(* The room lives as long as its creator chose and as somebody else than   *)
(* the asker approved, each request once and for what it showed, up to the *)
(* limit; nothing else moves its end (actOnTemporaryRoom: extend, approve). *)
Until(i) == IF i = 0 THEN Life ELSE granted[i].until
LifeIsConsented ==
  /\ \A i \in DOMAIN granted :
       /\ granted[i].by # asked[granted[i].ask].by
       /\ Until(i) = Min({MaxLife, Until(i - 1) + asked[granted[i].ask].minutes})
  /\ \A i, j \in DOMAIN granted : granted[i].ask = granted[j].ask => i = j
  /\ room.open => room.age + room.left = Until(Len(granted))

(* Whoever is in the room by its code is its one guest                     *)
(* (joinTemporaryRoom: a code admits one other person).                    *)
OneGuest == \A p \in Joiners :
  tab[p].in = "in" /\ room.open => room.guest = p

(* RoomIsSound: the two who are in the room see what was sent, all of it,  *)
(* in order and once.                                                      *)
RoomIsSound == TypeOK /\ ShownInOrder /\ SentOnce /\ OneGuest

(* A visible tab whose view is not the room's, even with the answer that   *)
(* is on its way, has a reason to look again: no change and no end of the  *)
(* room is lost between streams, refreshes and suspensions                 *)
(* (temporary-room.tsx: refresh and its effects, events/route.ts).         *)
Coming(t) ==
  IF t.read.state # "served" THEN t
  ELSE [t EXCEPT !.shown = @ \o t.read.page, !.checking = FALSE]
Behind(t) == t.shown # log \/ t.checking
WillLook(t) ==
  \/ t.view = "broken" \/ t.again \/ t.read = Asked
  \/ t.read.state = "served" /\ More(t.read)
CaughtUp == \A p \in scene.watched :
  LET t == Coming(tab[p]) IN
  Open /\ t.in = "in" /\ t.view # "hidden" /\ Behind(t) => WillLook(t)
=============================================================================
