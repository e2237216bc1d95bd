---------------------------- MODULE MessageView ----------------------------
(* What a recipient's tab shows of one message. The message is edited and  *)
(* deleted by its sender and deleted "for me" by the member; it may have a *)
(* deadline from the start, or get one when it is revealed. Each change    *)
(* commits first and is published afterwards. The member's stream reads    *)
(* the message again for each event about its content, one event after the *)
(* other; every other event is sent at once. A stream may break at any     *)
(* moment, and the next one replays every event. The tab also reads the    *)
(* newest page of the history and adds what it lacks.                      *)
(*                                                                         *)
(* A definition named Bug... is a variant of the one after it with a       *)
(* plausible defect, for the mutants.                                      *)
EXTENDS Naturals, Sequences

CONSTANTS
  MaxEdits,  \* bound on the edits
  Lives,     \* the kinds of message that are looked at
  Hideable,  \* those of them that the member may delete for himself
  Nothing    \* no message: not shown, or not visible to the member

VARIABLES
  life,      \* the kind of the message
  text,      \* the version of the message's text
  deleted,   \* messages.deleted_at
  hidden,    \* the member's row in message_deletions
  deadline,  \* messages.expires_at: "none", "set" or "passed"
  cleaned,   \* the sweep has been over it
  owed,      \* events of changes that are committed, not yet published
  published, \* rows of realtime_events for the member
  transit,   \* of these, what the open stream has yet to deal with
  chain,     \* events that wait for authorisation (messageDelivery)
  read,      \* what was read for the first of them, in a set
  socket,    \* sent, not yet received
  received,  \* events the tab has handled
  behind,    \* a history read is due since the stream opened
  page,      \* what a history read found, on its way, in a set
  reply,     \* the answer to the tab's reveal, in a set; {Nothing}: awaited
  view,      \* what the tab shows
  overtaken, \* history: the tab took an answer that was out of date
  ahead      \* history: ... or one newer than what this stream may yet send

rowVars == <<life, text, deleted, hidden, deadline, cleaned>>
streamVars == <<transit, chain, read, socket>>
tabVars == <<behind, page, reply, overtaken, ahead>>
vars == <<rowVars, owed, published, streamVars, received, tabVars, view>>

Texts == 0..MaxEdits
Content == [text : Texts, veiled : BOOLEAN, deleted : BOOLEAN, due : BOOLEAN]
ContentKinds == {"new", "update", "deleted"}
MessageEvents == [kind : {"new", "deleted", "hide"}, n : {0}] \cup [kind : {"update"}, n : Texts]
            \cup [kind : {"lifetime"}, n : {0, 1}]
Sent == [event : MessageEvents, content : Content \cup {Nothing}]

New == [kind |-> "new", n |-> 0]
Revealed == [kind |-> "lifetime", n |-> 0]
Swept == [kind |-> "lifetime", n |-> 1]

(* Only the deadline that the message was sent with is told.               *)
BugAsRead ==
  IF hidden THEN Nothing
  ELSE [text |-> text, veiled |-> life = "selfDestruct" /\ deadline = "none",
        deleted |-> deleted \/ deadline = "passed", due |-> life = "disappearing"]
(* getMessageDTO for the member: no text before the reveal or after the    *)
(* deadline.                                                               *)
AsRead ==
  IF hidden THEN Nothing
  ELSE [text |-> text, veiled |-> life = "selfDestruct" /\ deadline = "none",
        deleted |-> deleted \/ deadline = "passed", due |-> deadline # "none"]

(* The type of every variable; one message is read at a time, for an event *)
(* that waits, and a message that was swept has passed its deadline.       *)
TypeOK ==
  /\ life \in Lives
  /\ text \in Texts /\ deleted \in BOOLEAN /\ hidden \in BOOLEAN
  /\ deadline \in {"none", "set", "passed"} /\ cleaned \in BOOLEAN
  /\ cleaned => deleted /\ deadline = "passed" /\ New \notin published
  /\ owed \cup published \cup transit \cup received \subseteq MessageEvents
  /\ chain \in Seq(MessageEvents)
  /\ {read, page, reply} \subseteq {{}} \cup {{c} : c \in Content \cup {Nothing}}
  /\ read # {} => chain # <<>>
  /\ socket \in Seq(Sent)
  /\ {behind, overtaken, ahead} \subseteq BOOLEAN
  /\ view \in Content \cup {Nothing}

(* The tab may be opened before or after the message was sent, and too     *)
(* late for the replay to have the message.                                *)
Init ==
  /\ life \in Lives
  /\ text = 0 /\ deleted = FALSE /\ hidden = FALSE /\ cleaned = FALSE
  /\ deadline = IF life = "disappearing" THEN "set" ELSE "none"
  /\ owed = {} /\ published \in {{}, {New}} /\ transit = published
  /\ chain = <<>> /\ read = {} /\ socket = <<>>
  /\ received = {} /\ behind = TRUE /\ page = {} /\ reply = {}
  /\ view \in {Nothing, AsRead} /\ overtaken = FALSE /\ ahead = FALSE

-----------------------------------------------------------------------------
(* Changes of the message                                                  *)

EditMessage ==
  /\ life # "selfDestruct" /\ ~ deleted /\ deadline # "passed" /\ text < MaxEdits
  /\ text' = text + 1
  /\ owed' = owed \cup {[kind |-> "update", n |-> text + 1]}
  /\ UNCHANGED <<life, deleted, hidden, deadline, cleaned, published, streamVars, received, tabVars, view>>

SoftDeleteMessage ==
  /\ ~ deleted /\ deadline # "passed"
  /\ deleted' = TRUE
  /\ owed' = owed \cup {[kind |-> "deleted", n |-> 0]}
  /\ UNCHANGED <<life, text, hidden, deadline, cleaned, published, streamVars, received, tabVars, view>>

DeleteForMe ==
  /\ life \in Hideable /\ ~ hidden
  /\ hidden' = TRUE
  /\ owed' = owed \cup {[kind |-> "hide", n |-> 0]}
  /\ UNCHANGED <<life, text, deleted, deadline, cleaned, published, streamVars, received, tabVars, view>>

(* revealSelfDestruct, asked for by this tab or, mine = FALSE, elsewhere.  *)
(* Who asks again keeps the deadline.                                      *)
RevealSelfDestruct(mine) ==
  /\ life = "selfDestruct" /\ ~ deleted /\ deadline # "passed"
  /\ IF mine THEN ~ hidden /\ view # Nothing /\ view.veiled /\ ~ view.due /\ reply = {} /\ reply' = {Nothing}
             ELSE UNCHANGED reply
  /\ deadline' = "set"
  /\ owed' = owed \cup ({Revealed} \ published)
  /\ UNCHANGED <<life, text, deleted, hidden, cleaned, published, streamVars, received,
                 behind, page, view, overtaken, ahead>>

PassDeadline ==
  /\ deadline = "set" /\ deadline' = "passed"
  /\ UNCHANGED <<life, text, deleted, hidden, cleaned, owed, published, streamVars, received, tabVars, view>>

CleanupExpiredMessages ==
  /\ deadline = "passed" /\ ~ cleaned
  /\ cleaned' = TRUE /\ deleted' = TRUE
  /\ LET rest(events) == {e \in events : e.kind \notin ContentKinds} \cup {Swept}
     IN /\ published' = rest(published)
        /\ transit' \in {transit \cup {Swept}, rest(transit)}
  /\ UNCHANGED <<life, text, hidden, deadline, owed, chain, read, socket, received, tabVars, view>>

(* The routes publish in a statement of their own.  An event that a sweep  *)
(* overtakes is published nevertheless.                                    *)
Publish(e) ==
  /\ e \in owed
  /\ owed' = owed \ {e}
  /\ published' = published \cup {e} /\ transit' = transit \cup {e}
  /\ UNCHANGED <<rowVars, chain, read, socket, received, tabVars, view>>

-----------------------------------------------------------------------------
(* The stream                                                              *)

(* deliver                                                                 *)
Deliver(e) ==
  /\ e \in transit
  /\ transit' = transit \ {e}
  /\ IF e.kind \in ContentKinds
     THEN chain' = Append(chain, e) /\ UNCHANGED socket
     ELSE socket' = Append(socket, [event |-> e, content |-> Nothing]) /\ UNCHANGED chain
  /\ UNCHANGED <<rowVars, owed, published, read, received, tabVars, view>>

(* The event's own content is sent, as it was when it was published.       *)
BugTrustsPayload ==
  /\ chain # <<>> /\ read = {}
  /\ read' = {IF hidden THEN Nothing
             ELSE [AsRead EXCEPT !.text = Head(chain).n, !.deleted = Head(chain).kind = "deleted"]}
  /\ UNCHANGED <<rowVars, owed, published, transit, chain, socket, received, tabVars, view>>

(* currentMessageEvent queries the message for the first event ...         *)
CurrentMessageEvent ==
  /\ chain # <<>> /\ read = {}
  /\ read' = {AsRead}
  /\ UNCHANGED <<rowVars, owed, published, transit, chain, socket, received, tabVars, view>>

(* ... and sends the answer, unless the member may not see the message.    *)
SendCurrent ==
  /\ \E c \in read : socket' = IF c = Nothing THEN socket
                               ELSE Append(socket, [event |-> Head(chain), content |-> c])
  /\ chain' = Tail(chain) /\ read' = {}
  /\ UNCHANGED <<rowVars, owed, published, transit, received, tabVars, view>>

(* Only what the old stream had not dealt with is replayed.                *)
BugReplaysRest ==
  /\ chain' = <<>> /\ read' = {} /\ socket' = <<>> /\ behind' = TRUE /\ page' = {} /\ ahead' = FALSE
  /\ UNCHANGED <<rowVars, owed, published, transit, received, reply, overtaken, view>>

(* A stream breaks; the next one replays, and a history read is due.       *)
Reconnect ==
  /\ transit' = published
  /\ chain' = <<>> /\ read' = {} /\ socket' = <<>> /\ behind' = TRUE /\ page' = {} /\ ahead' = FALSE
  /\ UNCHANGED <<rowVars, owed, published, received, reply, overtaken, view>>

-----------------------------------------------------------------------------
(* The tab                                                                 *)

Readable(v) == v # Nothing /\ ~ v.veiled /\ ~ v.deleted

(* The effect that looks for deadlines runs after every change of the      *)
(* items; the timer it sets is Expire.                                     *)
Lapsed(v) ==
  IF v = Nothing \/ ~ v.due \/ deadline # "passed" THEN v
  ELSE IF life = "disappearing" THEN Nothing ELSE [v EXCEPT !.deleted = TRUE]

Lifetime(v) == [v EXCEPT !.due = TRUE]
Shown(e, c) ==
  IF e.kind = "hide" THEN Nothing
  ELSE IF e.kind = "lifetime" THEN IF view = Nothing THEN view ELSE Lifetime(view)
  ELSE IF (e.kind = "new") = (view = Nothing) THEN c ELSE view

(* onmessage handles an event once, and chat-view shows its content.       *)
Receive ==
  /\ socket # <<>>
  /\ LET m == Head(socket)
     IN /\ received' = received \cup {m.event}
        /\ view' = IF m.event \in received THEN view ELSE Lapsed(Shown(m.event, m.content))
  /\ socket' = Tail(socket)
  /\ UNCHANGED <<rowVars, owed, published, transit, chain, read, tabVars>>

Expire ==
  /\ Lapsed(view) # view /\ view' = Lapsed(view)
  /\ UNCHANGED <<rowVars, owed, published, streamVars, received, tabVars>>

(* reconcileRecentMessages: once for each stream, after a resync, and      *)
(* while no stream is open.  A read that fails is due again when the next  *)
(* stream opens.                                                           *)
ReadPage ==
  /\ page = {} /\ page' = {AsRead}
  /\ behind' = FALSE
  /\ UNCHANGED <<rowVars, owed, published, streamVars, received, reply, overtaken, ahead, view>>

MergeRecentMessages ==
  /\ \E c \in page :
       /\ view' = IF view = Nothing THEN Lapsed(c) ELSE view
       /\ overtaken' = (overtaken \/ (view = Nothing /\ c # AsRead))
       /\ ahead' = (ahead \/ view' # view)
  /\ page' = {}
  /\ UNCHANGED <<rowVars, owed, published, streamVars, received, behind, reply>>

(* The reveal route reads the message once the event is published; its     *)
(* answer replaces what the tab shows.                                     *)
AnswerReveal ==
  /\ reply = {Nothing} /\ Revealed \in published
  /\ reply' \in {{AsRead}, {}}
  /\ UNCHANGED <<rowVars, owed, published, streamVars, received, behind, page, overtaken, ahead, view>>
TakeReveal ==
  /\ \E c \in reply \ {Nothing} :
       /\ view' = IF view = Nothing THEN view ELSE Lapsed(c)
       /\ overtaken' = (overtaken \/ (view # Nothing /\ c # AsRead))
       /\ ahead' = (ahead \/ view' # view)
  /\ reply' = {}
  /\ UNCHANGED <<rowVars, owed, published, streamVars, received, behind, page>>

Next ==
  \/ EditMessage \/ SoftDeleteMessage \/ DeleteForMe
  \/ \E mine \in BOOLEAN : RevealSelfDestruct(mine)
  \/ PassDeadline \/ CleanupExpiredMessages
  \/ \E e \in MessageEvents : Publish(e) \/ Deliver(e)
  \/ CurrentMessageEvent \/ SendCurrent \/ Reconnect \/ Receive
  \/ Expire \/ ReadPage \/ MergeRecentMessages \/ AnswerReveal \/ TakeReveal

Spec == Init /\ [][Next]_vars

-----------------------------------------------------------------------------
(* Nothing about the message is under way.                                 *)
Quiet ==
  /\ owed = {} /\ transit = {} /\ chain = <<>> /\ socket = <<>>
  /\ ~ behind /\ page = {} /\ reply = {}

(* Converges: once every event has arrived and the history was read, the   *)
(* tab shows the message as it is, in whatever order the events of its     *)
(* edits and of its deletion came and wherever streams broke, unless it    *)
(* took an answer to a request that a change had overtaken.                *)
Converges ==
  Quiet /\ ~ hidden /\ deadline # "passed" /\ ~ overtaken
    => view # Nothing /\ view.text = text /\ view.deleted = deleted

(* NeverReverts: a late or replayed event, or a history read, never brings *)
(* an older text back, nor a message that was deleted for everyone, nor,   *)
(* after the deadline, a text that is no longer shown.  Only a message the *)
(* tab had from an answer, and not from the stream, may go back to what    *)
(* that stream had read before.                                            *)
NeverReverts ==
  [][/\ view # Nothing /\ view' # Nothing /\ ~ ahead /\ ~ ahead'
          => view.text <= view'.text /\ (view.deleted => view'.deleted)
     /\ deadline = "passed" /\ ~ Readable(view) => ~ Readable(view')]_vars

(* DeadlineIsKnown: a recipient's tab that shows the text of a message     *)
(* with a deadline knows the deadline, whichever event, history read or    *)
(* answer the text came with; so its timer removes it.                     *)
DeadlineIsKnown ==
  life # "plain" /\ Readable(view) => view.due
=============================================================================
