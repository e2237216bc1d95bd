------------------------- MODULE ScheduledMessages -------------------------
(* Messages written for later: their authors schedule, edit and cancel     *)
(* jobs, and several processors (the maintenance timer of every server,    *)
(* the cron worker, clients that ask) deliver the due ones.  A processor   *)
(* reads a batch without a lock, then claims one job after the other in a  *)
(* transaction that locks the job's row and then its conversation; events  *)
(* and notifications follow the commit.  The order within a batch is left  *)
(* open.                                                                   *)
(*                                                                         *)
(* A definition named Bug... is a variant of the one after it with a       *)
(* plausible defect, for the mutants.                                      *)
EXTENDS Naturals, FiniteSets

CONSTANTS
  Jobs,      \* rows of scheduled_messages, of one conversation
  Procs,     \* processors
  Batch,     \* jobs read by one scan (50 in the code)
  MaxTime,   \* bound on the clock
  MaxEdits,  \* bound on the edits of a job
  Nobody

ASSUME ScheduleAssumption ==
  /\ Nobody \notin Procs /\ Nobody \notin Jobs
  /\ Batch \in Nat \ {0} /\ MaxTime \in Nat /\ MaxEdits \in Nat

VARIABLES
  clock,
  job,       \* job[j]: its row; "gone" once cancelled
  allowed,   \* jobs whose sender may write in the conversation
  barred,    \* jobs held up by a block, a suspension, slow mode, the request
  rowLock,   \* rowLock[j]: the processor that locked the job's row
  convLock,  \* the processor that locked the conversation
  proc,      \* proc[p]: where the processor stands
  sent, events, notes,  \* messages, realtime events, notifications per job
  body       \* body[j]: the text its message carries

authorVars == <<clock, job, allowed, barred>>
outVars == <<sent, events, notes, body>>
vars == <<authorVars, rowLock, convLock, proc, outVars>>

Times == 0..MaxTime
Dates == 0..(MaxTime + 1)  \* a job may be put off beyond the bound
Texts == 0..MaxEdits
JobRows == [state : {"none", "waiting", "sent", "gone"}, due : Dates, text : Texts]
Positions == {"idle", "next", "claimed", "checked", "committed", "published"}

(* No lock outlives the transaction that took it.                          *)
LocksHeld ==
  /\ \A j \in Jobs, p \in Procs :
       rowLock[j] = p => proc[p].pc \in {"claimed", "checked"} /\ proc[p].job = j
  /\ \A p \in Procs : convLock = p => proc[p].pc = "checked"

(* The type of every variable, and whose locks they are.                   *)
TypeOK ==
  /\ clock \in Times
  /\ job \in [Jobs -> JobRows]
  /\ allowed \subseteq Jobs /\ barred \subseteq Jobs
  /\ rowLock \in [Jobs -> Procs \cup {Nobody}]
  /\ convLock \in Procs \cup {Nobody}
  /\ proc \in [Procs -> [pc : Positions, list : SUBSET Jobs,
                     job : Jobs \cup {Nobody}, text : Texts]]
  /\ sent \in [Jobs -> Nat] /\ events \in [Jobs -> Nat] /\ notes \in [Jobs -> Nat]
  /\ body \in [Jobs -> Texts]
  /\ LocksHeld

Waiting(j)  == job[j].state = "waiting"
Due(j)      == Waiting(j) /\ job[j].due <= clock
Eligible(j) == j \in allowed \ barred

Init ==
  /\ clock = 0
  /\ job = [j \in Jobs |-> [state |-> "none", due |-> 0, text |-> 0]]
  /\ allowed = Jobs /\ barred = {}
  /\ rowLock = [j \in Jobs |-> Nobody] /\ convLock = Nobody
  /\ proc = [p \in Procs |-> [pc |-> "idle", list |-> {}, job |-> Nobody, text |-> 0]]
  /\ sent = [j \in Jobs |-> 0] /\ events = sent /\ notes = sent /\ body = sent

-----------------------------------------------------------------------------
(* Authors and the world around them                                       *)

(* saveSchedule with POST: the time is ahead.  The route's permission      *)
(* checks come before the write and may be stale by then, so neither this  *)
(* action nor the next assumes them.                                       *)
ScheduleMessage(j, t) ==
  /\ job[j].state = "none" /\ t > clock
  /\ job' = [job EXCEPT ![j] = [state |-> "waiting", due |-> t, text |-> 0]]
  /\ UNCHANGED <<clock, allowed, barred, rowLock, convLock, proc, outVars>>

(* saveSchedule with PATCH: waits for the row, and is told when the job    *)
(* was sent meanwhile.                                                     *)
EditScheduledMessage(j, t) ==
  /\ Waiting(j) /\ rowLock[j] = Nobody /\ t > clock
  /\ job[j].text < MaxEdits
  /\ job' = [job EXCEPT ![j].due = t, ![j].text = @ + 1]
  /\ UNCHANGED <<clock, allowed, barred, rowLock, convLock, proc, outVars>>

CancelScheduledMessage(j) ==
  /\ Waiting(j) /\ rowLock[j] = Nobody
  /\ job' = [job EXCEPT ![j].state = "gone"]
  /\ UNCHANGED <<clock, allowed, barred, rowLock, convLock, proc, outVars>>

(* Membership, role, admin-only messaging and deletion change under the    *)
(* conversation's lock ...                                                 *)
ChangePermission(j) ==
  /\ convLock = Nobody
  /\ allowed' = IF j \in allowed THEN allowed \ {j} ELSE allowed \cup {j}
  /\ UNCHANGED <<clock, job, barred, rowLock, convLock, proc, outVars>>

(* ... blocks, suspensions, recent messages and reply targets do not.      *)
ChangeBar(j) ==
  /\ barred' = IF j \in barred THEN barred \ {j} ELSE barred \cup {j}
  /\ UNCHANGED <<clock, job, allowed, rowLock, convLock, proc, outVars>>

Tick ==
  /\ clock < MaxTime
  /\ clock' = clock + 1
  /\ UNCHANGED <<job, allowed, barred, rowLock, convLock, proc, outVars>>

-----------------------------------------------------------------------------
(* Processors                                                              *)

At(p, pc) == proc[p].pc = pc
Goes(p, pc) == proc' = [proc EXCEPT ![p].pc = pc]

(* On to the next job of the batch, or back to waiting for the timer.      *)
Advance(p) ==
  LET rest == proc[p].list \ {proc[p].job}
  IN proc' = [proc EXCEPT ![p] = [pc |-> IF rest = {} THEN "idle" ELSE "next",
                                  list |-> rest, job |-> Nobody, text |-> 0]]

Release(p) ==
  /\ rowLock' = [j \in Jobs |-> IF rowLock[j] = p THEN Nobody ELSE rowLock[j]]
  /\ convLock' = IF convLock = p THEN Nobody ELSE convLock

(* The due jobs that are read first: no job left out is due before one     *)
(* that is read.                                                           *)
FirstOf(S) ==
  {B \in SUBSET S :
     /\ Cardinality(B) = IF Cardinality(S) < Batch THEN Cardinality(S) ELSE Batch
     /\ \A j \in B, k \in S \ B : job[j].due <= job[k].due}

(* Jobs that may not be sent are read as well, and fill the batch.         *)
BugScanAll(p) ==
  /\ At(p, "idle")
  /\ \E B \in FirstOf({j \in Jobs : Due(j)}) :
       /\ B # {}
       /\ proc' = [proc EXCEPT ![p] = [@ EXCEPT !.list = B, !.pc = "next"]]
  /\ UNCHANGED <<authorVars, rowLock, convLock, outVars>>

Scan(p) ==
  /\ At(p, "idle")
  /\ \E B \in FirstOf({j \in Jobs : Due(j) /\ Eligible(j)}) :
       /\ B # {}
       /\ proc' = [proc EXCEPT ![p] = [@ EXCEPT !.list = B, !.pc = "next"]]
  /\ UNCHANGED <<authorVars, rowLock, convLock, outVars>>

(* The job is read again, but its row is not locked.                       *)
BugClaimUnlocked(p) ==
  /\ At(p, "next")
  /\ \E j \in proc[p].list :
       /\ Due(j)
       /\ proc' = [proc EXCEPT ![p] = [@ EXCEPT !.pc = "claimed", !.job = j, !.text = job[j].text]]
  /\ UNCHANGED <<authorVars, rowLock, convLock, outVars>>

(* The job is read again under a lock on its row.                          *)
Claim(p) ==
  /\ At(p, "next")
  /\ \E j \in proc[p].list :
       /\ rowLock[j] = Nobody /\ Due(j)
       /\ rowLock' = [rowLock EXCEPT ![j] = p]
       /\ proc' = [proc EXCEPT ![p] = [@ EXCEPT !.pc = "claimed", !.job = j, !.text = job[j].text]]
  /\ UNCHANGED <<authorVars, convLock, outVars>>

(* Locked by another processor, sent, cancelled or moved to a later time.  *)
Skip(p) ==
  /\ At(p, "next")
  /\ \E j \in proc[p].list :
       /\ rowLock[j] # Nobody \/ ~ Due(j)
       /\ LET rest == proc[p].list \ {j}
          IN proc' = [proc EXCEPT ![p] = [@ EXCEPT !.list = rest,
                                               !.pc = IF rest = {} THEN "idle" ELSE "next"]]
  /\ UNCHANGED <<authorVars, rowLock, convLock, outVars>>

(* The permissions are read again before the conversation is locked.       *)
BugCheckUnlocked(p) ==
  /\ At(p, "claimed")
  /\ IF Eligible(proc[p].job)
     THEN Goes(p, "checked") /\ UNCHANGED <<rowLock, convLock>>
     ELSE Advance(p) /\ Release(p)
  /\ UNCHANGED <<authorVars, outVars>>

(* The conversation is locked, then every permission is read again.        *)
CheckAllowed(p) ==
  /\ At(p, "claimed") /\ convLock = Nobody
  /\ IF Eligible(proc[p].job)
     THEN Goes(p, "checked") /\ convLock' = p /\ UNCHANGED rowLock
     ELSE Advance(p) /\ Release(p)
  /\ UNCHANGED <<authorVars, outVars>>

(* The message and the job's sent mark commit together.                    *)
Deliver(p) ==
  LET j == proc[p].job
  IN /\ At(p, "checked")
     /\ sent' = [sent EXCEPT ![j] = @ + 1]
     /\ body' = [body EXCEPT ![j] = proc[p].text]
     /\ job' = [job EXCEPT ![j].state = IF Waiting(j) THEN "sent" ELSE @]
     /\ Goes(p, "committed")
     /\ Release(p)
     /\ UNCHANGED <<clock, allowed, barred, events, notes>>

PublishToConversation(p) ==
  /\ At(p, "committed")
  /\ events' = [events EXCEPT ![proc[p].job] = @ + 1]
  /\ Goes(p, "published")
  /\ UNCHANGED <<authorVars, rowLock, convLock, sent, notes, body>>

NotifyNewMessage(p) ==
  /\ At(p, "published")
  /\ notes' = [notes EXCEPT ![proc[p].job] = @ + 1]
  /\ Advance(p)
  /\ UNCHANGED <<authorVars, rowLock, convLock, sent, events, body>>

(* An error in the transaction or after it: the batch goes on.             *)
Fail(p) ==
  /\ proc[p].pc \in {"claimed", "checked", "committed", "published"}
  /\ Advance(p) /\ Release(p)
  /\ UNCHANGED <<authorVars, outVars>>

(* The process stops; its transaction rolls back.                          *)
Crash(p) ==
  /\ ~ At(p, "idle")
  /\ proc' = [proc EXCEPT ![p] = [pc |-> "idle", list |-> {}, job |-> Nobody, text |-> 0]]
  /\ Release(p)
  /\ UNCHANGED <<authorVars, outVars>>

AuthorStep ==
  \/ \E j \in Jobs, t \in Dates : ScheduleMessage(j, t) \/ EditScheduledMessage(j, t)
  \/ \E j \in Jobs : CancelScheduledMessage(j) \/ ChangePermission(j) \/ ChangeBar(j)
  \/ Tick

ProcessorStep(p) ==
  \/ Scan(p) \/ Claim(p) \/ Skip(p) \/ CheckAllowed(p) \/ Deliver(p)
  \/ PublishToConversation(p) \/ NotifyNewMessage(p) \/ Fail(p) \/ Crash(p)

Next == AuthorStep \/ \E p \in Procs : ProcessorStep(p)

Spec == Init /\ [][Next]_vars

(* The timer starts a scan every ten seconds and no processor stands still *)
(* for ever; errors and crashes do not hit every single try of a job.      *)
Fairness ==
  /\ \A p \in Procs : /\ WF_vars(Scan(p)) /\ WF_vars(Skip(p))
                      /\ WF_vars(PublishToConversation(p)) /\ WF_vars(NotifyNewMessage(p))
  /\ \A j \in Jobs :
       /\ SF_vars(\E p \in Procs : Claim(p) /\ proc'[p].job = j)
       /\ SF_vars(\E p \in Procs : proc[p].job = j /\ CheckAllowed(p))
       /\ SF_vars(\E p \in Procs : proc[p].job = j /\ Deliver(p))

FairSpec == Spec /\ Fairness

-----------------------------------------------------------------------------
(* A job becomes one message, announced and notified at most once; a job   *)
(* that was cancelled becomes none.                                        *)
SentOnce ==
  \A j \in Jobs :
    /\ sent[j] = IF job[j].state = "sent" THEN 1 ELSE 0
    /\ notes[j] <= events[j] /\ events[j] <= sent[j]

(* The message carries the text of the last edit its author was told had   *)
(* succeeded, even if a processor had read the job before that edit.       *)
LastEditIsSent == \A j \in Jobs : job[j].state = "sent" => body[j] = job[j].text

(* SentAsWritten: both, however many processors read the same batch, and   *)
(* wherever they stop.                                                     *)
SentAsWritten == SentOnce /\ LastEditIsSent

(* PermittedWhenSent: a job is delivered only at its time, as last edited, *)
(* and only while its sender may write in the conversation; a permission   *)
(* that was lost after the scan, or while the job was claimed, counts.     *)
PermittedWhenSent ==
  [][\A j \in Jobs : sent'[j] # sent[j] => j \in allowed /\ job[j].due <= clock]_vars

(* DueIsSent: a due job that its sender may send does not wait for ever,   *)
(* even if jobs before it may not be sent and processors fail, provided    *)
(* permissions settle.                                                     *)
Settled == \A j \in Jobs : <>[]Eligible(j) \/ <>[](~ Eligible(j))
DueIsSent == Settled => \A j \in Jobs : []<>(~ (Due(j) /\ Eligible(j)))

=============================================================================
