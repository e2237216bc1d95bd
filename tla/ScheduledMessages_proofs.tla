---------------------- MODULE ScheduledMessages_proofs ----------------------
(***************************************************************************)
(* A scheduled message is sent at most once, with its last edit, never     *)
(* after it was cancelled and only while its sender may send it, for any   *)
(* number of jobs and processors, scans and crashes.                       *)
(***************************************************************************)
EXTENDS ScheduledMessages, TLAPS

-----------------------------------------------------------------------------
(* The inductive invariant                                                 *)

InTransaction(p) == proc[p].pc \in {"claimed", "checked"}
Afterwards(p)    == proc[p].pc \in {"committed", "published"}

(* A claimed job is its processor's alone and as it was read; nobody takes *)
(* a permission away from a processor that holds the conversation; after   *)
(* the commit the processor alone announces the message.                   *)
ProcInv(p) ==
  LET j == proc[p].job
  IN /\ InTransaction(p) \/ Afterwards(p) => j \in Jobs
     /\ InTransaction(p) => rowLock[j] = p /\ Due(j) /\ proc[p].text = job[j].text
     /\ At(p, "checked") => convLock = p /\ j \in allowed
     /\ Afterwards(p) => sent[j] = 1 /\ notes[j] = 0
     /\ At(p, "committed") => events[j] = 0
     /\ At(p, "published") => events[j] = 1

OneAnnouncer ==
  \A p, q \in Procs :
    Afterwards(p) /\ Afterwards(q) /\ proc[p].job = proc[q].job => p = q

IInv ==
  /\ TypeOK
  /\ SentOnce
  /\ LastEditIsSent
  /\ OneAnnouncer
  /\ \A p \in Procs : ProcInv(p)

USE DEF authorVars, outVars, vars, At, Goes, Waiting, Due, InTransaction, Afterwards
USE ScheduleAssumption

PositionRows == [pc : Positions, list : SUBSET Jobs, job : Jobs \cup {Nobody}, text : Texts]

LEMMA InitInv == Init => IInv
<1> SUFFICES ASSUME Init PROVE IInv
  OBVIOUS
<1>1. TypeOK
  BY DEF Init, TypeOK, LocksHeld, JobRows, Dates, Times, Texts, Positions
<1>2. SentOnce /\ LastEditIsSent
  BY DEF Init, SentOnce, LastEditIsSent
<1>3. OneAnnouncer /\ \A p \in Procs : ProcInv(p)
  BY DEF Init, OneAnnouncer, ProcInv
<1> QED
  BY <1>1, <1>2, <1>3 DEF IInv

-----------------------------------------------------------------------------
(* Authors                                                                 *)

(* A job that no processor holds changes, or a permission that no          *)
(* processor relies on, or the clock.                                      *)
LEMMA AuthorKeeps == IInv /\ AuthorStep => IInv'
<1> SUFFICES ASSUME IInv, AuthorStep PROVE IInv'
  OBVIOUS
<1>1. ASSUME NEW j \in Jobs, NEW t \in Dates, ScheduleMessage(j, t) PROVE IInv'
  <2>1. TypeOK'
    BY <1>1 DEF IInv, TypeOK, JobRows, Texts, LocksHeld, ScheduleMessage
  <2>2. SentOnce' /\ LastEditIsSent' /\ OneAnnouncer'
    BY <1>1 DEF IInv, TypeOK, JobRows, SentOnce, LastEditIsSent, OneAnnouncer, ScheduleMessage
  <2>3. ASSUME NEW p \in Procs PROVE ProcInv(p)'
    BY <1>1 DEF IInv, TypeOK, JobRows, ProcInv, ScheduleMessage
  <2> QED
    BY <2>1, <2>2, <2>3 DEF IInv
<1>2. ASSUME NEW j \in Jobs, NEW t \in Dates, EditScheduledMessage(j, t) PROVE IInv'
  <2>1. TypeOK'
    BY <1>2 DEF IInv, TypeOK, JobRows, Texts, LocksHeld, EditScheduledMessage
  <2>2. SentOnce'
    BY <1>2 DEF IInv, TypeOK, JobRows, SentOnce, EditScheduledMessage
  <2>3. LastEditIsSent'
    BY <1>2 DEF IInv, TypeOK, JobRows, LastEditIsSent, EditScheduledMessage
  <2>4. OneAnnouncer'
    BY <1>2 DEF IInv, OneAnnouncer, EditScheduledMessage
  <2>5. ASSUME NEW p \in Procs PROVE ProcInv(p)'
    BY <1>2 DEF IInv, TypeOK, JobRows, ProcInv, EditScheduledMessage
  <2> QED
    BY <2>1, <2>2, <2>3, <2>4, <2>5 DEF IInv
<1>3. ASSUME NEW j \in Jobs, CancelScheduledMessage(j) PROVE IInv'
  <2>1. TypeOK'
    <3>1. job \in [Jobs -> JobRows] /\ [job[j] EXCEPT !.state = "gone"] \in JobRows
      BY DEF IInv, TypeOK, JobRows
    <3> QED
      BY <1>3, <3>1 DEF IInv, TypeOK, LocksHeld, CancelScheduledMessage
  <2>2. SentOnce'
    BY <1>3 DEF IInv, TypeOK, JobRows, SentOnce, CancelScheduledMessage
  <2>3. LastEditIsSent'
    BY <1>3 DEF IInv, TypeOK, JobRows, LastEditIsSent, CancelScheduledMessage
  <2>4. OneAnnouncer'
    BY <1>3 DEF IInv, OneAnnouncer, CancelScheduledMessage
  <2>5. ASSUME NEW p \in Procs PROVE ProcInv(p)'
    BY <1>3 DEF IInv, TypeOK, JobRows, ProcInv, CancelScheduledMessage
  <2> QED
    BY <2>1, <2>2, <2>3, <2>4, <2>5 DEF IInv
<1>4. ASSUME NEW j \in Jobs, ChangePermission(j) PROVE IInv'
  <2>1. TypeOK'
    BY <1>4 DEF IInv, TypeOK, LocksHeld, ChangePermission
  <2>2. SentOnce' /\ LastEditIsSent' /\ OneAnnouncer'
    BY <1>4 DEF IInv, SentOnce, LastEditIsSent, OneAnnouncer, ChangePermission
  <2>3. ASSUME NEW p \in Procs PROVE ProcInv(p)'
    BY <1>4 DEF IInv, ProcInv, ChangePermission
  <2> QED
    BY <2>1, <2>2, <2>3 DEF IInv
<1>5. ASSUME NEW j \in Jobs, ChangeBar(j) PROVE IInv'
  <2>1. TypeOK'
    BY <1>5 DEF IInv, TypeOK, LocksHeld, ChangeBar
  <2> QED
    BY <1>5, <2>1 DEF IInv, SentOnce, LastEditIsSent, OneAnnouncer, ProcInv, ChangeBar
<1>6. ASSUME Tick PROVE IInv'
  <2>1. TypeOK'
    BY <1>6 DEF IInv, TypeOK, Times, LocksHeld, Tick
  <2>2. \A j \in Jobs : Due(j) => Due(j)'
    BY <1>6 DEF IInv, TypeOK, JobRows, Dates, Times, Tick
  <2> QED
    BY <1>6, <2>1, <2>2 DEF IInv, SentOnce, LastEditIsSent, OneAnnouncer, ProcInv, Tick
<1> QED
  BY <1>1, <1>2, <1>3, <1>4, <1>5, <1>6 DEF AuthorStep

-----------------------------------------------------------------------------
(* Processors                                                              *)

(* A processor that moves to a place where it relies on nothing and gives  *)
(* up its locks, if any.                                                   *)
LEMMA LetsGo ==
  ASSUME IInv, NEW p \in Procs, NEW r \in PositionRows, r.pc \in {"idle", "next"},
         proc' = [proc EXCEPT ![p] = r],
         Release(p) \/ (proc[p].pc \in {"idle", "next"} /\ UNCHANGED <<rowLock, convLock>>),
         UNCHANGED <<authorVars, outVars>>
  PROVE  IInv'
<1>1. TypeOK'
  <2>1. proc' \in [Procs -> PositionRows]
    BY DEF IInv, TypeOK, PositionRows
  <2>2. rowLock' \in [Jobs -> Procs \cup {Nobody}] /\ convLock' \in Procs \cup {Nobody}
    BY DEF IInv, TypeOK, Release
  <2>3. LocksHeld'
    BY DEF IInv, TypeOK, LocksHeld, Release
  <2> QED
    BY <2>1, <2>2, <2>3 DEF IInv, TypeOK, PositionRows
<1>2. SentOnce' /\ LastEditIsSent'
  BY DEF IInv, SentOnce, LastEditIsSent
<1>3. proc'[p].pc \in {"idle", "next"} /\ \A q \in Procs \ {p} : proc'[q] = proc[q]
  BY DEF IInv, TypeOK
<1>4. OneAnnouncer'
  BY <1>3 DEF IInv, OneAnnouncer
<1>5. ASSUME NEW q \in Procs PROVE ProcInv(q)'
  <2>1. CASE q = p
    BY <1>3, <2>1 DEF ProcInv
  <2>2. CASE q # p
    BY <1>3, <2>2 DEF IInv, TypeOK, ProcInv, Release
  <2> QED
    BY <2>1, <2>2
<1> QED
  BY <1>1, <1>2, <1>4, <1>5 DEF IInv

LEMMA AdvanceKeeps ==
  ASSUME IInv, NEW p \in Procs, Advance(p),
         Release(p),
         UNCHANGED <<authorVars, outVars>>
  PROVE  IInv'
<1> DEFINE rest == proc[p].list \ {proc[p].job}
           n == IF rest = {} THEN "idle" ELSE "next"
<1>1. rest \in SUBSET Jobs /\ n \in {"idle", "next"} /\ 0 \in Texts
  BY DEF IInv, TypeOK, Texts
<1>2. proc' = [proc EXCEPT ![p] = [pc |-> n, list |-> rest, job |-> Nobody, text |-> 0]]
  BY DEF Advance
<1>3. /\ [pc |-> n, list |-> rest, job |-> Nobody, text |-> 0] \in PositionRows
      /\ [pc |-> n, list |-> rest, job |-> Nobody, text |-> 0].pc \in {"idle", "next"}
  BY <1>1 DEF PositionRows, Positions
<1> HIDE DEF rest, n
<1> QED
  BY <1>2, <1>3, LetsGo

LEMMA ScanKeeps ==
  ASSUME IInv, NEW p \in Procs, Scan(p) \/ Skip(p)
  PROVE  IInv'
<1>1. PICK L \in SUBSET Jobs, n \in {"idle", "next"} :
        proc' = [proc EXCEPT ![p] = [@ EXCEPT !.list = L, !.pc = n]]
  BY DEF Scan, Skip, FirstOf, IInv, TypeOK
<1> DEFINE r == [proc[p] EXCEPT !.list = L, !.pc = n]
<1>2. proc[p] \in PositionRows /\ n \in Positions
  BY DEF IInv, TypeOK, PositionRows, Positions
<1>3. r \in PositionRows /\ r.pc \in {"idle", "next"}
  BY <1>2 DEF PositionRows
<1>4. proc' = [proc EXCEPT ![p] = r]
  BY <1>1 DEF IInv, TypeOK
<1>5. /\ proc[p].pc \in {"idle", "next"}
      /\ UNCHANGED <<authorVars, rowLock, convLock, outVars>>
  BY DEF Scan, Skip
<1> HIDE DEF r
<1> QED
  BY <1>3, <1>4, <1>5, LetsGo

LEMMA ClaimKeeps ==
  ASSUME IInv, NEW p \in Procs, Claim(p)
  PROVE  IInv'
<1>1. PICK j \in Jobs :
        /\ rowLock[j] = Nobody /\ Due(j)
        /\ rowLock' = [rowLock EXCEPT ![j] = p]
        /\ proc' = [proc EXCEPT ![p] = [@ EXCEPT !.pc = "claimed", !.job = j,
                                                  !.text = job[j].text]]
  BY DEF Claim, IInv, TypeOK
<1>2. UNCHANGED <<authorVars, convLock, outVars>>
  BY DEF Claim
<1> DEFINE r == [proc[p] EXCEPT !.pc = "claimed", !.job = j, !.text = job[j].text]
<1>3. r \in PositionRows /\ r.pc = "claimed" /\ r.job = j /\ r.text = job[j].text
  <2>1. job[j].text \in Texts /\ proc[p] \in PositionRows
    BY DEF IInv, TypeOK, JobRows, PositionRows
  <2> QED
    BY <2>1 DEF PositionRows, Positions
<1>4. /\ proc' \in [Procs -> PositionRows]
      /\ proc'[p].pc = "claimed" /\ proc'[p].job = j /\ proc'[p].text = job[j].text
      /\ \A q \in Procs \ {p} : proc'[q] = proc[q]
  <2>1. proc' = [proc EXCEPT ![p] = r]
    BY <1>1 DEF IInv, TypeOK
  <2> HIDE DEF r
  <2> QED
    BY <1>3, <2>1 DEF IInv, TypeOK, PositionRows
<1>50. TypeOK'
  <2>1. rowLock' \in [Jobs -> Procs \cup {Nobody}]
    BY <1>1 DEF IInv, TypeOK
  <2>2. LocksHeld'
    BY <1>1, <1>2, <1>4 DEF IInv, TypeOK, LocksHeld, Claim
  <2> QED
    BY <1>2, <1>4, <2>1, <2>2 DEF IInv, TypeOK, PositionRows
<1>5. SentOnce' /\ LastEditIsSent' /\ OneAnnouncer'
  BY <1>2, <1>4 DEF IInv, SentOnce, LastEditIsSent, OneAnnouncer
<1>6. ASSUME NEW q \in Procs PROVE ProcInv(q)'
  <2>1. CASE q = p
    BY <1>1, <1>2, <1>4, <2>1 DEF IInv, TypeOK, ProcInv
  <2>2. CASE q # p
    BY <1>1, <1>2, <1>4, <2>2 DEF IInv, TypeOK, ProcInv
  <2> QED
    BY <2>1, <2>2
<1> QED
  BY <1>50, <1>5, <1>6 DEF IInv

LEMMA CheckKeeps ==
  ASSUME IInv, NEW p \in Procs, CheckAllowed(p)
  PROVE  IInv'
<1>1. CASE Eligible(proc[p].job)
  <2>1. /\ proc' = [proc EXCEPT ![p].pc = "checked"]
        /\ convLock = Nobody /\ convLock' = p /\ UNCHANGED <<authorVars, rowLock, outVars>>
    BY <1>1 DEF CheckAllowed
  <2>2. TypeOK'
    BY <2>1 DEF IInv, TypeOK, Positions, LocksHeld, CheckAllowed
  <2>3. /\ proc'[p] = [proc[p] EXCEPT !.pc = "checked"]
        /\ \A q \in Procs \ {p} : proc'[q] = proc[q]
    BY <2>1 DEF IInv, TypeOK
  <2>4. proc'[p].pc = "checked" /\ proc'[p].job = proc[p].job /\ proc'[p].text = proc[p].text
    BY <2>3 DEF IInv, TypeOK
  <2>5. SentOnce' /\ LastEditIsSent' /\ OneAnnouncer'
    BY <2>1, <2>3, <2>4 DEF IInv, SentOnce, LastEditIsSent, OneAnnouncer
  <2>6. ASSUME NEW q \in Procs PROVE ProcInv(q)'
    <3>1. CASE q = p
      BY <1>1, <2>1, <2>4, <3>1 DEF IInv, ProcInv, Eligible, CheckAllowed
    <3>2. CASE q # p
      BY <2>1, <2>3, <3>2 DEF IInv, TypeOK, ProcInv
    <3> QED
      BY <3>1, <3>2
  <2> QED
    BY <2>2, <2>5, <2>6 DEF IInv
<1>2. CASE ~ Eligible(proc[p].job)
  BY <1>2, AdvanceKeeps DEF CheckAllowed
<1> QED
  BY <1>1, <1>2

(* The commit: the job was waiting, so nobody has announced it yet.        *)
LEMMA DeliverKeeps ==
  ASSUME IInv, NEW p \in Procs, Deliver(p)
  PROVE  IInv'
<1> DEFINE j == proc[p].job
<1>1. /\ j \in Jobs /\ rowLock[j] = p /\ Due(j) /\ proc[p].text = job[j].text
      /\ proc[p].pc = "checked"
  BY DEF IInv, ProcInv, Deliver
<1>2. sent[j] = 0 /\ events[j] = 0 /\ notes[j] = 0
  BY <1>1 DEF IInv, TypeOK, SentOnce
<1>3. /\ sent' = [sent EXCEPT ![j] = 1]
      /\ body' = [body EXCEPT ![j] = job[j].text]
      /\ job' = [job EXCEPT ![j].state = "sent"]
      /\ proc' = [proc EXCEPT ![p].pc = "committed"]
      /\ Release(p) /\ UNCHANGED <<clock, allowed, barred, events, notes>>
  BY <1>1, <1>2 DEF Deliver, IInv, TypeOK
<1>4. TypeOK'
  <2>1. job' \in [Jobs -> JobRows]
    BY <1>1, <1>3 DEF IInv, TypeOK, JobRows
  <2>2. job[j].text \in Texts
    BY <1>1 DEF IInv, TypeOK, JobRows
  <2>3. sent' \in [Jobs -> Nat] /\ body' \in [Jobs -> Texts]
    BY <1>3, <2>2 DEF IInv, TypeOK
  <2>4. proc' \in [Procs -> PositionRows]
    <3>1. proc \in [Procs -> PositionRows]
      BY DEF IInv, TypeOK, PositionRows
    <3>2. [proc[p] EXCEPT !.pc = "committed"] \in PositionRows
      BY <3>1 DEF PositionRows, Positions
    <3> QED
      BY <1>3, <3>1, <3>2
  <2>5. rowLock' \in [Jobs -> Procs \cup {Nobody}] /\ convLock' \in Procs \cup {Nobody}
    BY <1>3 DEF IInv, TypeOK, Release
  <2>6. LocksHeld'
    BY <1>3 DEF IInv, TypeOK, LocksHeld, Release
  <2> QED
    BY <1>3, <2>1, <2>3, <2>4, <2>5, <2>6 DEF IInv, TypeOK, PositionRows
<1>5. SentOnce' /\ LastEditIsSent'
  BY <1>1, <1>2, <1>3 DEF IInv, TypeOK, JobRows, SentOnce, LastEditIsSent
<1>6. /\ proc'[p].pc = "committed" /\ proc'[p].job = j
      /\ \A q \in Procs \ {p} : proc'[q] = proc[q]
  BY <1>3 DEF IInv, TypeOK
<1>7. \A q \in Procs \ {p} : Afterwards(q) => proc[q].job # j
  BY <1>2 DEF IInv, ProcInv
<1>8. OneAnnouncer'
  BY <1>6, <1>7 DEF IInv, OneAnnouncer
<1>9. ASSUME NEW q \in Procs PROVE ProcInv(q)'
  <2>1. CASE q = p
    BY <1>1, <1>2, <1>3, <1>6, <2>1 DEF IInv, TypeOK, ProcInv
  <2>2. CASE q # p
    <3>1. (InTransaction(q) \/ Afterwards(q)) => proc[q].job \in Jobs \ {j}
      BY <1>1, <1>7, <2>2 DEF IInv, ProcInv
    <3>2. convLock = q => convLock' = q
      BY <1>3, <2>2 DEF Release
    <3>3. ASSUME NEW i \in Jobs \ {j}
          PROVE  /\ job'[i] = job[i] /\ sent'[i] = sent[i]
                 /\ rowLock[i] = q => rowLock'[i] = q
      BY <1>3, <2>2 DEF IInv, TypeOK, Release
    <3>4. proc'[q] = proc[q] /\ UNCHANGED <<clock, allowed, events, notes>>
      BY <1>3, <1>6, <2>2
    <3> HIDE DEF j
    <3> QED
      BY <3>1, <3>2, <3>3, <3>4 DEF IInv, ProcInv
  <2> QED
    BY <2>1, <2>2
<1> QED
  BY <1>4, <1>5, <1>8, <1>9 DEF IInv

LEMMA PublishKeeps ==
  ASSUME IInv, NEW p \in Procs, PublishToConversation(p)
  PROVE  IInv'
<1> DEFINE j == proc[p].job
<1>1. /\ j \in Jobs /\ sent[j] = 1 /\ notes[j] = 0 /\ events[j] = 0
      /\ proc[p].pc = "committed"
  BY DEF IInv, ProcInv, PublishToConversation
<1>2. /\ events' = [events EXCEPT ![j] = 1]
      /\ proc' = [proc EXCEPT ![p].pc = "published"]
      /\ UNCHANGED <<authorVars, rowLock, convLock, sent, notes, body>>
  BY <1>1 DEF PublishToConversation, IInv, TypeOK
<1>3. TypeOK'
  <2>1. proc' \in [Procs -> PositionRows]
    BY <1>2 DEF IInv, TypeOK, PositionRows, Positions
  <2>2. events' \in [Jobs -> Nat]
    BY <1>2 DEF IInv, TypeOK
  <2>3. LocksHeld'
    BY <1>1, <1>2 DEF IInv, TypeOK, LocksHeld
  <2> QED
    BY <1>2, <2>1, <2>2, <2>3 DEF IInv, TypeOK, PositionRows
<1>4. /\ proc'[p].pc = "published" /\ proc'[p].job = j
      /\ \A q \in Procs \ {p} : proc'[q] = proc[q]
  BY <1>2 DEF IInv, TypeOK
<1>5. \A q \in Procs \ {p} : Afterwards(q) => proc[q].job # j
  BY <1>1 DEF IInv, OneAnnouncer
<1>6. SentOnce' /\ LastEditIsSent'
  BY <1>1, <1>2 DEF IInv, TypeOK, SentOnce, LastEditIsSent
<1>7. OneAnnouncer'
  BY <1>4, <1>5 DEF IInv, OneAnnouncer
<1>8. ASSUME NEW q \in Procs PROVE ProcInv(q)'
  <2>1. CASE q = p
    BY <1>1, <1>2, <1>4, <2>1 DEF IInv, TypeOK, ProcInv
  <2>2. CASE q # p
    BY <1>1, <1>2, <1>4, <1>5, <2>2 DEF IInv, TypeOK, ProcInv
  <2> QED
    BY <2>1, <2>2
<1> QED
  BY <1>3, <1>6, <1>7, <1>8 DEF IInv

LEMMA NotifyKeeps ==
  ASSUME IInv, NEW p \in Procs, NotifyNewMessage(p)
  PROVE  IInv'
<1> DEFINE j == proc[p].job
           rest == proc[p].list \ {j}
           n == IF rest = {} THEN "idle" ELSE "next"
<1>1. /\ j \in Jobs /\ sent[j] = 1 /\ notes[j] = 0 /\ events[j] = 1
      /\ proc[p].pc = "published"
  BY DEF IInv, ProcInv, NotifyNewMessage
<1>2. /\ notes' = [notes EXCEPT ![j] = 1]
      /\ proc' = [proc EXCEPT ![p] = [pc |-> n, list |-> rest, job |-> Nobody, text |-> 0]]
      /\ UNCHANGED <<authorVars, rowLock, convLock, sent, events, body>>
  BY <1>1 DEF NotifyNewMessage, Advance, IInv, TypeOK
<1>3. TypeOK'
  <2>1. [pc |-> n, list |-> rest, job |-> Nobody, text |-> 0] \in PositionRows
    BY DEF IInv, TypeOK, PositionRows, Positions, Texts
  <2>2. proc' \in [Procs -> PositionRows]
    BY <1>2, <2>1 DEF IInv, TypeOK, PositionRows
  <2>3. notes' \in [Jobs -> Nat]
    BY <1>2 DEF IInv, TypeOK
  <2>4. LocksHeld'
    BY <1>1, <1>2 DEF IInv, TypeOK, LocksHeld
  <2> QED
    BY <1>2, <2>2, <2>3, <2>4 DEF IInv, TypeOK, PositionRows
<1>4. proc'[p].pc = n /\ \A q \in Procs \ {p} : proc'[q] = proc[q]
  BY <1>2 DEF IInv, TypeOK
<1>5. \A q \in Procs \ {p} : Afterwards(q) => proc[q].job # j
  BY <1>1 DEF IInv, OneAnnouncer
<1>6. SentOnce' /\ LastEditIsSent'
  BY <1>1, <1>2 DEF IInv, TypeOK, SentOnce, LastEditIsSent
<1>7. OneAnnouncer'
  BY <1>4 DEF IInv, OneAnnouncer
<1>8. ASSUME NEW q \in Procs PROVE ProcInv(q)'
  <2>1. CASE q = p
    BY <1>4, <2>1 DEF ProcInv
  <2>2. CASE q # p
    BY <1>1, <1>2, <1>4, <1>5, <2>2 DEF IInv, TypeOK, ProcInv
  <2> QED
    BY <2>1, <2>2
<1> QED
  BY <1>3, <1>6, <1>7, <1>8 DEF IInv

LEMMA FailKeeps ==
  ASSUME IInv, NEW p \in Procs, Fail(p) \/ Crash(p)
  PROVE  IInv'
<1>1. CASE Fail(p)
  BY <1>1, AdvanceKeeps DEF Fail
<1>2. CASE Crash(p)
  <2> DEFINE r == [pc |-> "idle", list |-> {}, job |-> Nobody, text |-> 0]
  <2>1. r \in PositionRows /\ r.pc \in {"idle", "next"}
    BY DEF PositionRows, Positions, Texts
  <2>2. /\ proc' = [proc EXCEPT ![p] = r]
        /\ Release(p) /\ UNCHANGED <<authorVars, outVars>>
    BY <1>2 DEF Crash
  <2> HIDE DEF r
  <2> QED
    BY <2>1, <2>2, LetsGo
<1> QED
  BY <1>1, <1>2

LEMMA StepInv == IInv /\ [Next]_vars => IInv'
<1> SUFFICES ASSUME IInv, [Next]_vars PROVE IInv'
  OBVIOUS
<1>1. CASE UNCHANGED vars
  BY <1>1 DEF IInv, TypeOK, LocksHeld, SentOnce, LastEditIsSent, OneAnnouncer, ProcInv
<1>2. ASSUME NEW p \in Procs, ProcessorStep(p) PROVE IInv'
  BY <1>2, ScanKeeps, ClaimKeeps, CheckKeeps, DeliverKeeps, PublishKeeps, NotifyKeeps,
     FailKeeps DEF ProcessorStep
<1> QED
  BY <1>1, <1>2, AuthorKeeps DEF Next

THEOREM Invariance == Spec => []IInv
<1>1. Init => IInv
  BY InitInv
<1>2. IInv /\ [Next]_vars => IInv'
  BY StepInv
<1> QED
  BY <1>1, <1>2, PTL DEF Spec

(* Types.                                                                  *)
THEOREM TypeCorrect == Spec => []TypeOK
<1>1. IInv => TypeOK
  BY DEF IInv
<1> QED
  BY <1>1, Invariance, PTL

(* At most one message, event and notification; none after cancellation.   *)
THEOREM DeliveredOnce == Spec => []SentOnce
<1>1. IInv => SentOnce
  BY DEF IInv
<1> QED
  BY <1>1, Invariance, PTL

(* The message carries the last edit.                                      *)
THEOREM EditsCount == Spec => []LastEditIsSent
<1>1. IInv => LastEditIsSent
  BY DEF IInv
<1> QED
  BY <1>1, Invariance, PTL

(* Both together: one message per job, as it was last edited.              *)
THEOREM DeliveredAsWritten == Spec => []SentAsWritten
<1>1. SentOnce /\ LastEditIsSent => SentAsWritten
  BY DEF SentAsWritten
<1> QED
  BY <1>1, DeliveredOnce, EditsCount, PTL

(* A job is delivered at its time and with its sender's permission.        *)
LEMMA PermittedStep ==
  IInv /\ [Next]_vars =>
    [\A j \in Jobs : sent'[j] # sent[j] => j \in allowed /\ job[j].due <= clock]_vars
<1> SUFFICES ASSUME IInv, Next, NEW j \in Jobs, sent'[j] # sent[j]
             PROVE  j \in allowed /\ job[j].due <= clock
  OBVIOUS
<1>1. PICK p \in Procs : Deliver(p)
  BY DEF Next, AuthorStep, ScheduleMessage, EditScheduledMessage,
     CancelScheduledMessage, ChangePermission, ChangeBar, Tick, ProcessorStep,
     Scan, Claim, Skip, CheckAllowed, PublishToConversation, NotifyNewMessage,
     Fail, Crash
<1>2. proc[p].job = j
  BY <1>1 DEF Deliver, IInv, TypeOK
<1> QED
  BY <1>1, <1>2 DEF Deliver, IInv, ProcInv

THEOREM DeliveredWithPermission == Spec => PermittedWhenSent
<1>1. IInv /\ [Next]_vars =>
        [\A j \in Jobs : sent'[j] # sent[j] => j \in allowed /\ job[j].due <= clock]_vars
  BY PermittedStep
<1> QED
  BY <1>1, Invariance, PTL DEF Spec, PermittedWhenSent
=============================================================================
