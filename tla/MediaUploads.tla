---------------------------- MODULE MediaUploads ----------------------------
(* Encrypted attachments on their way to a message.  A client stages a     *)
(* file in chunks; a request claims the staged files, stores each in a     *)
(* transaction that holds the storage budget's lock, commits the message   *)
(* and gives the claims up.  Status photos are stored next to them, and    *)
(* retention removes stored objects that nothing refers to.  A definition  *)
(* named Bug... is a plausible defect of one below it, for the mutants.    *)
EXTENDS Naturals, FiniteSets

CONSTANTS
  Stages,  \* staged files
  Chunks,  \* chunks of each
  Puts,    \* requests at a time that append a chunk
  Posts,   \* requests that send a message with attachments
  Photos,  \* status photos
  Pool,    \* connections of the database pool
  Shelf,   \* photos the status storage may hold
  Scenes   \* what takes part, and how many attachments the chat storage may hold

VARIABLES
  scene,   \* the part of the above a behaviour is about
  stops,   \* times the server may still stop
  file,    \* name of the staged file: .cipher, .claim or none
  size,    \* its length in halves of a chunk
  lock,    \* its .lock exists
  acked,   \* chunks the client knows to be stored
  put,     \* an append past its check of the offset
  post,    \* a send: its progress, claims and stored files
  photo,   \* a status and its photo
  message, \* rows of messages, by the request that sent them
  attached,\* rows of message_attachments
  upload,  \* rows of stored_uploads
  object,  \* objects in the storage
  sweep    \* the retention transaction

stageVars == <<file, size, lock, acked, put>>
storeVars == <<upload, object>>
vars == <<scene, stops, stageVars, post, photo, message, attached, storeVars, sweep>>

(* A stored file is named after nothing but itself: here, by its request   *)
(* and staged file, or as a photo.                                         *)
Media == Posts \X Stages
Paths == Media \cup Photos

Full == 2 * Chunks
NoPut == [stage |-> {}, chunk |-> 0]
NoPost == [at |-> "none", want |-> {}, claims |-> {}, saved |-> {}]
NoSweep == [on |-> FALSE, left |-> {}, gone |-> {}]

PostSteps == {"none", "claiming", "queued", "saving", "failed", "committed", "done"}

(* The type of every variable.                                             *)
TypeOK ==
  /\ scene \in Scenes /\ stops \in Nat
  /\ file \in [Stages -> {"none", "cipher", "claim"}]
  /\ size \in [Stages -> 0..Full] /\ lock \in [Stages -> BOOLEAN]
  /\ acked \in [Stages -> 0..Chunks]
  /\ put \in [Puts -> [stage : SUBSET Stages, chunk : 0..(Chunks - 1)]]
  /\ post \in [Posts -> [at : PostSteps, want : SUBSET Stages,
                         claims : SUBSET Stages, saved : SUBSET Stages]]
  /\ photo \in [Photos -> {"none", "queued", "saving", "saved", "visible", "expired", "gone"}]
  /\ message \in [Posts -> {"none", "live", "deleted"}]
  /\ attached \subseteq Media
  /\ upload \in [Paths -> {"none", "new", "old"}]
  /\ object \in [Paths -> {"none", "part", "full"}]
  /\ sweep \in [on : BOOLEAN, left : SUBSET Paths, gone : SUBSET Paths]

Init ==
  /\ scene \in Scenes /\ stops = scene.stops
  /\ file = [s \in Stages |-> "none"] /\ size = [s \in Stages |-> 0]
  /\ lock = [s \in Stages |-> FALSE] /\ acked = [s \in Stages |-> 0]
  /\ put = [h \in Puts |-> NoPut] /\ post = [p \in Posts |-> NoPost]
  /\ photo = [f \in Photos |-> "none"]
  /\ message = [p \in Posts |-> "none"] /\ attached = {}
  /\ upload = [x \in Paths |-> "none"] /\ object = [x \in Paths |-> "none"]
  /\ sweep = NoSweep

-----------------------------------------------------------------------------
(* Staging: POST and PUT /api/upload/staged, stageEncryptedFile.           *)

(* createStage makes an empty file; the token names a fresh one.           *)
CreateStage(s) ==
  /\ s \in scene.stages /\ file[s] = "none" /\ size[s] = 0
  /\ file' = [file EXCEPT ![s] = "cipher"]
  /\ size' = [size EXCEPT ![s] = IF scene.chunked THEN 0 ELSE Full]
  /\ acked' = [acked EXCEPT ![s] = IF scene.chunked THEN 0 ELSE Chunks]
  /\ UNCHANGED <<scene, stops, lock, put, post, photo, message, attached, storeVars, sweep>>

(* The client sends the chunk after those it knows of; appendStage takes   *)
(* the lock file and compares the file's length with the offset.  A first  *)
(* request may still be under way when the client sends it once more.      *)
AppendStage(h, s) ==
  /\ put[h] = NoPut /\ file[s] = "cipher" /\ ~ lock[s]
  /\ acked[s] < Chunks /\ size[s] = 2 * acked[s]
  /\ put' = [put EXCEPT ![h] = [stage |-> {s}, chunk |-> acked[s]]]
  /\ lock' = [lock EXCEPT ![s] = TRUE]
  /\ UNCHANGED <<scene, stops, file, size, acked, post, photo, message, attached,
                 storeVars, sweep>>

(* It writes at that offset, all of the chunk or, when the disk fails or   *)
(* the inventory is full, a part or nothing, unless the file is gone or    *)
(* claimed, and removes the lock file, whoever's it is by now.             *)
WriteChunk(h) ==
  /\ \E s \in put[h].stage, half \in 0..2 :
       /\ size' = [size EXCEPT ![s] =
            IF file[s] = "cipher" /\ @ < 2 * put[h].chunk + half
            THEN 2 * put[h].chunk + half ELSE @]
       /\ lock' = [lock EXCEPT ![s] = FALSE]
  /\ put' = [put EXCEPT ![h] = NoPut]
  /\ UNCHANGED <<scene, stops, file, acked, post, photo, message, attached,
                 storeVars, sweep>>

(* The answer, or the offset that the client asks for when none came.      *)
LearnOffset(s) ==
  /\ file[s] = "cipher" /\ acked[s] < Chunks /\ size[s] = 2 * (acked[s] + 1)
  /\ acked' = [acked EXCEPT ![s] = @ + 1]
  /\ UNCHANGED <<scene, stops, file, size, lock, put, post, photo, message, attached,
                 storeVars, sweep>>

(* A lock file is taken for stale after a minute, ...                      *)
BreakLock(s) ==
  /\ lock[s]
  /\ lock' = [lock EXCEPT ![s] = FALSE]
  /\ UNCHANGED <<scene, stops, file, size, acked, put, post, photo, message, attached,
                 storeVars, sweep>>

(* ... and a staged file after two hours, which no request takes.          *)
Busy(s) == \/ \E h \in Puts : s \in put[h].stage
           \/ \E p \in Posts : post[p].at \notin {"none", "done"} /\ s \in post[p].want
Inventory(s) ==
  /\ file[s] # "none" /\ ~ Busy(s)
  /\ file' = [file EXCEPT ![s] = "none"]
  /\ UNCHANGED <<scene, stops, size, lock, acked, put, post, photo, message, attached,
                 storeVars, sweep>>

-----------------------------------------------------------------------------
(* Sending: POST /api/upload/message.                                      *)

(* Connections of the pool that an open transaction holds.  Some of them   *)
(* need one more for a single statement, and wait ten seconds for it.      *)
InUse ==
  Cardinality({p \in Posts : post[p].at \in {"queued", "saving"}})
    + Cardinality({f \in Photos : photo[f] \in {"queued", "saving"}}) + (IF sweep.on THEN 1 ELSE 0)

Step(p, at) == post' = [post EXCEPT ![p].at = at]
Sent == <<scene, stops, size, lock, acked, put, photo, sweep>>

(* The request names files that its client has staged completely.          *)
BeginPost(p) ==
  /\ post[p] = NoPost /\ p \in scene.posts
  /\ \E want \in SUBSET {s \in Stages : acked[s] = Chunks} :
       /\ want # {}
       /\ post' = [post EXCEPT ![p] = [NoPost EXCEPT !.at = "claiming", !.want = want]]
  /\ UNCHANGED <<Sent, file, message, attached, storeVars>>

(* claimStage renames a complete file that nobody has locked or claimed.   *)
ClaimStage(p, s) ==
  /\ post[p].at = "claiming" /\ s \in post[p].want \ post[p].claims
  /\ IF file[s] = "cipher" /\ ~ lock[s] /\ size[s] = Full
     THEN /\ file' = [file EXCEPT ![s] = "claim"]
          /\ post' = [post EXCEPT ![p].claims = @ \cup {s}]
     ELSE UNCHANGED file /\ Step(p, "failed")
  /\ UNCHANGED <<Sent, message, attached, storeVars>>

BeginTransaction(p) ==
  /\ post[p].at = "claiming" /\ post[p].claims = post[p].want /\ InUse < Pool
  /\ Step(p, "queued")
  /\ UNCHANGED <<Sent, file, message, attached, storeVars>>

(* One transaction at a time counts what is stored and stores more.        *)
LockBudget(p) ==
  /\ post[p].at = "queued" /\ \A q \in Posts : post[q].at # "saving"
  /\ Step(p, IF Cardinality(attached) + Cardinality(post[p].want) <= scene.budget
             THEN "saving" ELSE "failed")
  /\ UNCHANGED <<Sent, file, message, attached, storeVars>>

(* saveFile: trackUpload inserts the inventory row on a connection of its  *)
(* own, ...                                                                *)
Tracked(p) == {s \in post[p].want : upload[<<p, s>>] # "none"}
TrackUpload(p, s) ==
  /\ post[p].at = "saving" /\ Tracked(p) = post[p].saved
  /\ s \in post[p].want \ post[p].saved /\ InUse < Pool
  /\ upload' = [upload EXCEPT ![<<p, s>>] = "new"]
  /\ UNCHANGED <<Sent, post, file, message, attached, object>>

(* ... and the object is written, or as much of it as the storage took.    *)
SaveFile(p, s) ==
  /\ post[p].at = "saving" /\ s \in Tracked(p) \ post[p].saved
  /\ \E got \in {"none", "part", "full"} :
       /\ object' = [object EXCEPT ![<<p, s>>] = got]
       /\ post' = IF got = "full" THEN [post EXCEPT ![p].saved = @ \cup {s}]
                  ELSE [post EXCEPT ![p].at = "failed"]
  /\ UNCHANGED <<Sent, file, message, attached, upload>>

(* Nobody gives up waiting for a connection.                               *)
BugNoConnection(p) == FALSE /\ UNCHANGED vars

(* No connection is free within connectionTimeoutMillis.                   *)
NoConnection(p) ==
  /\ InUse >= Pool
  /\ \/ post[p].at = "claiming" /\ post[p].claims = post[p].want
     \/ post[p].at = "saving" /\ Tracked(p) = post[p].saved /\ post[p].saved # post[p].want
  /\ Step(p, "failed")
  /\ UNCHANGED <<Sent, file, message, attached, storeVars>>

(* The database ends the transaction.                                      *)
LoseTransaction(p) ==
  /\ post[p].at \in {"queued", "saving"}
  /\ Step(p, "failed")
  /\ UNCHANGED <<Sent, file, message, attached, storeVars>>

CommitPost(p) ==
  /\ post[p].at = "saving" /\ post[p].saved = post[p].want
  /\ message' = [message EXCEPT ![p] = "live"]
  /\ attached' = attached \cup ({p} \X post[p].want)
  /\ Step(p, "committed")
  /\ UNCHANGED <<Sent, file, storeVars>>

(* The claims count as used only once the message has been published.      *)
BugFinishPost(p) ==
  /\ post[p].at = "committed"
  /\ \E name \in {"none", "cipher"} :
       file' = [s \in Stages |-> IF s \in post[p].claims THEN name ELSE file[s]]
  /\ Step(p, "done")
  /\ UNCHANGED <<Sent, message, attached, storeVars>>

(* finish(true), whether or not the message could be published.            *)
FinishPost(p) ==
  /\ post[p].at = "committed"
  /\ file' = [s \in Stages |-> IF s \in post[p].claims THEN "none" ELSE file[s]]
  /\ Step(p, "done")
  /\ UNCHANGED <<Sent, message, attached, storeVars>>

(* What was written is deleted if the storage can, and finish(false) gives *)
(* the claimed files their names back, for another attempt.                *)
FailPost(p) ==
  /\ post[p].at = "failed"
  /\ \E left \in SUBSET post[p].saved :
       object' = [x \in Paths |-> IF x \in {p} \X (post[p].saved \ left)
                                  THEN "none" ELSE object[x]]
  /\ file' = [s \in Stages |->
                IF s \in post[p].claims /\ file[s] = "claim" THEN "cipher" ELSE file[s]]
  /\ Step(p, "done")
  /\ UNCHANGED <<Sent, message, attached, upload>>

(* deletedAt or expiresAt of the message, or the deletion of its chat,     *)
(* which takes the rows along.                                             *)
DeleteMessage(p) ==
  /\ message[p] = "live"
  /\ message' = [message EXCEPT ![p] = "deleted"]
  /\ attached' \in {attached, attached \ ({p} \X Stages)}
  /\ UNCHANGED <<scene, stops, stageVars, post, photo, storeVars, sweep>>

-----------------------------------------------------------------------------
(* Status photos: POST /api/status and DELETE /api/status/[id].            *)

Rest == <<scene, stops, stageVars, post, message, attached>>
Now(f, state) == photo' = [photo EXCEPT ![f] = state]

BeginPhoto(f) ==
  /\ f \in scene.photos /\ photo[f] = "none" /\ InUse < Pool
  /\ Now(f, "queued")
  /\ UNCHANGED <<Rest, storeVars, sweep>>

(* One transaction at a time counts the photos in the inventory, ...       *)
LockShelf(f) ==
  /\ photo[f] = "queued" /\ \A g \in Photos : photo[g] # "saving"
  /\ Now(f, IF Cardinality({g \in Photos : upload[g] # "none"}) < Shelf
            THEN "saving" ELSE "gone")
  /\ UNCHANGED <<Rest, storeVars, sweep>>

(* ... and saveBuffer adds one, on a connection of its own; the inventory  *)
(* row is there even when the object is not.                               *)
SavePhoto(f) ==
  /\ photo[f] = "saving"
  /\ IF InUse < Pool
     THEN \E got \in {"none", "part", "full"} :
            /\ upload' = [upload EXCEPT ![f] = "new"]
            /\ object' = [object EXCEPT ![f] = got]
            /\ Now(f, IF got = "full" THEN "saved" ELSE "gone")
     ELSE Now(f, "gone") /\ UNCHANGED storeVars
  /\ UNCHANGED <<Rest, sweep>>

(* The status is created, or its audience is refused and the photo deleted *)
(* again if the storage can.                                               *)
CreateStatus(f) ==
  /\ photo[f] = "saved"
  /\ \/ Now(f, "visible") /\ UNCHANGED object
     \/ /\ Now(f, "gone")
        /\ object' \in {object, [object EXCEPT ![f] = "none"]}
  /\ UNCHANGED <<Rest, upload, sweep>>

ExpireStatus(f) ==
  /\ photo[f] = "visible" /\ Now(f, "expired")
  /\ UNCHANGED <<Rest, storeVars, sweep>>

(* deleteOwnStatus deletes the row first.                                  *)
DeleteOwnStatus(f) ==
  /\ photo[f] \in {"visible", "expired"} /\ Now(f, "gone")
  /\ object' \in {object, [object EXCEPT ![f] = "none"]}
  /\ UNCHANGED <<Rest, upload, sweep>>

-----------------------------------------------------------------------------
(* Retention: cleanupUploads.                                              *)

Kept == <<scene, stops, stageVars, post, message>>

(* A day after its inventory row.  A status lives as long from its         *)
(* creation, which is later than its photo's row; no request takes a day.  *)
Age(x) ==
  /\ scene.ages /\ upload[x] = "new"
  /\ x \in Media => post[x[1]].at = "done"
  /\ x \in Photos => photo[x] \notin {"saving", "saved"}
  /\ upload' = [upload EXCEPT ![x] = "old"]
  /\ UNCHANGED <<Kept, photo, attached, object, sweep>>

Referenced(x) ==
  IF x \in Photos THEN photo[x] = "visible"
  ELSE x \in attached /\ message[x[1]] = "live"

BeginCleanup ==
  /\ ~ sweep.on /\ InUse < Pool
  /\ LET due == {x \in Paths : upload[x] = "old" /\ ~ Referenced(x)}
     IN due # {} /\ sweep' = [NoSweep EXCEPT !.on = TRUE, !.left = due]
  /\ UNCHANGED <<Kept, photo, attached, storeVars>>

(* deleteStoredStrict: an object that is gone counts as deleted; one that  *)
(* cannot be deleted keeps its inventory row.                              *)
DeleteStored(x) ==
  /\ x \in sweep.left
  /\ \/ /\ object' = [object EXCEPT ![x] = "none"]
        /\ sweep' = [sweep EXCEPT !.left = @ \ {x}, !.gone = @ \cup {x}]
     \/ /\ sweep' = [sweep EXCEPT !.left = @ \ {x}]
        /\ UNCHANGED object
  /\ UNCHANGED <<Kept, photo, attached, upload>>

(* The rows of what was deleted go, and those of statuses long expired     *)
(* whose photo is no longer stored.                                        *)
CommitCleanup ==
  /\ sweep.on /\ sweep.left = {}
  /\ upload' = [x \in Paths |-> IF x \in sweep.gone THEN "none" ELSE upload[x]]
  /\ attached' = attached \ sweep.gone
  /\ \E long \in SUBSET {f \in Photos : photo[f] = "expired" /\ upload'[f] = "none"} :
       photo' = [f \in Photos |-> IF f \in long THEN "gone" ELSE photo[f]]
  /\ sweep' = NoSweep
  /\ UNCHANGED <<Kept, object>>

LoseCleanup ==
  /\ sweep.on /\ sweep' = NoSweep
  /\ UNCHANGED <<Kept, photo, attached, storeVars>>

-----------------------------------------------------------------------------
(* The server stops: requests and transactions end where they are; files,  *)
(* claims and lock files stay.                                             *)
ServerStops ==
  /\ stops > 0 /\ stops' = stops - 1
  /\ put' = [h \in Puts |-> NoPut]
  /\ post' = [p \in Posts |-> IF post[p].at = "none" THEN post[p]
                              ELSE [post[p] EXCEPT !.at = "done"]]
  /\ photo' = [f \in Photos |-> IF photo[f] \in {"queued", "saving", "saved"}
                                   THEN "gone" ELSE photo[f]]
  /\ sweep' = NoSweep
  /\ UNCHANGED <<scene, file, size, lock, acked, message, attached, storeVars>>

PostStep(p) ==
  \/ \E s \in Stages : ClaimStage(p, s) \/ TrackUpload(p, s) \/ SaveFile(p, s)
  \/ BeginTransaction(p) \/ LockBudget(p) \/ NoConnection(p)
  \/ CommitPost(p) \/ FinishPost(p) \/ FailPost(p)

(* Every request goes on, and none waits for a connection for longer than  *)
(* connectionTimeoutMillis.                                                *)
Fairness == \A p \in Posts : WF_vars(PostStep(p))

Next ==
  \/ \E s \in Stages : CreateStage(s) \/ LearnOffset(s) \/ BreakLock(s) \/ Inventory(s)
  \/ \E h \in Puts : WriteChunk(h) \/ (\E s \in Stages : AppendStage(h, s))
  \/ \E p \in Posts :
       BeginPost(p) \/ PostStep(p) \/ LoseTransaction(p) \/ DeleteMessage(p)
  \/ \E f \in Photos : \/ BeginPhoto(f) \/ LockShelf(f) \/ SavePhoto(f) \/ CreateStatus(f)
                       \/ ExpireStatus(f) \/ DeleteOwnStatus(f)
  \/ (\E x \in Paths : Age(x)) \/ BeginCleanup
  \/ (\E x \in Paths : DeleteStored(x)) \/ CommitCleanup \/ LoseCleanup
  \/ ServerStops

-----------------------------------------------------------------------------
(* What each part of MediaIsSound says.                                    *)

UsedOnce ==
  \A s \in Stages : Cardinality({p \in Posts : message[p] # "none" /\ s \in post[p].want}) <= 1

Complete ==
  \A p \in Posts : message[p] = "live" =>
    \A s \in post[p].want : <<p, s>> \in attached /\ object[<<p, s>>] = "full"

PhotoThere == \A f \in Photos : photo[f] = "visible" => object[f] = "full"

Inventoried == \A x \in Paths : object[x] # "none" => upload[x] # "none"

(* MediaIsSound: a staged file becomes part of at most one message, also   *)
(* when its request fails half way, its publication fails after the        *)
(* commit, or the same files are sent in two requests; every attachment of *)
(* a message, and every photo of a visible status, is stored in full until *)
(* the message or the status ends, whatever retention removes meanwhile;   *)
(* nothing is stored that retention would not find; and concurrent         *)
(* requests stay within what either storage may hold (claimStage, finish,  *)
(* saveFile, cleanupUploads and the two routes).                           *)
MediaIsSound ==
  /\ TypeOK /\ UsedOnce /\ Complete /\ PhotoThere /\ Inventoried
  /\ Cardinality(attached) <= scene.budget
  /\ Cardinality({f \in Photos : upload[f] # "none"}) <= Shelf

(* SendsEnd: a send that was begun is over at some time, although every    *)
(* one holds a connection while it waits for the budget's lock and the     *)
(* holder of that lock needs a second one (trackUpload).                   *)
SendsEnd ==
  \A p \in Posts : (post[p].at # "none") ~> (post[p].at = "done")
=============================================================================
