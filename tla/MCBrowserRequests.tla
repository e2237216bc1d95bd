------------------------- MODULE MCBrowserRequests -------------------------
(* Requests of one browser that race one another: several tabs that rotate *)
(* the session's secret (DeviceRotation), and several sends with the same  *)
(* attachments (MediaUploads).  The two share no variable; part says which *)
(* of them a behaviour is about.  Without symmetry, because of the         *)
(* liveness properties.                                                    *)
EXTENDS DeviceRotation, FiniteSets

CONSTANTS Stages, Chunks, Puts, Posts, Photos, Pool, Shelf
VARIABLES part, scene, stops, file, size, lock, acked, put, post, photo,
          message, attached, upload, object, sweep

uploadVars == <<scene, stops, file, size, lock, acked, put, post, photo,
                message, attached, upload, object, sweep>>

(* What is explored together: a file in chunks that two requests send, two *)
(* files at once in storage that has room for both or for one, and what    *)
(* retention removes, of messages and of status photos.                    *)
Scenes ==
  LET one == {CHOOSE s \in Stages : TRUE}
      first == {CHOOSE p \in Posts : TRUE}
  IN [stages : {one}, chunked : {TRUE}, posts : {Posts}, photos : {{}},
      stops : {1}, ages : {FALSE}, budget : {2}]
     \cup [stages : {Stages}, chunked : {FALSE}, posts : {Posts}, photos : {{}},
           stops : {0}, ages : {FALSE}, budget : {1, 2}]
     \cup [stages : {one}, chunked : {FALSE}, posts : {first}, photos : {Photos},
           stops : {1}, ages : {TRUE}, budget : {2}]
     \cup [stages : {one}, chunked : {FALSE}, posts : {Posts}, photos : {{}},
           stops : {1}, ages : {TRUE}, budget : {2}]

U == INSTANCE MediaUploads

(* A chunk is not empty, and a photo is not a part of a message.           *)
ASSUME MediaAssumption ==
  /\ Chunks \in Nat \ {0} /\ Shelf \in Nat
  /\ IsFiniteSet(Stages) /\ IsFiniteSet(Posts) /\ IsFiniteSet(Photos)
  /\ Photos \cap (Posts \X Stages) = {}

(* The part that is not looked at keeps one state.                         *)
PartsInit ==
  /\ part \in {"session", "media"} /\ Init /\ U!Init
  /\ part = "session" => scene = CHOOSE s \in Scenes : TRUE

PartsNext ==
  \/ part = "session" /\ Next /\ UNCHANGED <<part, uploadVars>>
  \/ part = "media" /\ U!Next /\ UNCHANGED <<part, vars>>

Session(A) == part = "session" /\ A

(* The fairness of each part.                                              *)
PartsSpec ==
  /\ PartsInit /\ [][PartsNext]_<<part, vars, uploadVars>>
  /\ \A t \in Tabs : /\ WF_vars(Session(Ask(t))) /\ SF_vars(Session(Rotate(t)))
                     /\ SF_vars(Session(Serve(t))) /\ SF_vars(Session(Receive(t)))
  /\ \A p \in Posts : WF_uploadVars(part = "media" /\ U!PostStep(p))

(* A staged file is in one message at most, attachments and visible photos *)
(* are there, storage stays within its limits (claimStage, saveFile,       *)
(* cleanupUploads).                                                        *)
MediaIsSound == U!MediaIsSound

(* Every send that was begun ends (POST /api/upload/message).              *)
SendsEnd == U!SendsEnd
=============================================================================
