-------------------------- MODULE NoteServiceProofs --------------------------
(***************************************************************************)
(* Theorems about NoteService, for every number of ids, tokens, handlers,  *)
(* every choice of the time constants and every budget of faults.          *)
(***************************************************************************)
EXTENDS NoteService, TLAPS

-----------------------------------------------------------------------------
(* Types *)

\* The record of an idle handler is a job.
LEMMA NoJobType == NoJob \in Job
BY DEF NoJob, Job, HttpStatus

\* Goto keeps the types of the handlers' variables.
LEMMA GotoType ==
    ASSUME TypeOK, NEW p \in Procs, NEW label \in Control, NEW j \in Job,
           Goto(p, label, j)
    PROVE  pc' \in [Procs -> Control] /\ job' \in [Procs -> Job]
BY DEF TypeOK, Goto

\* Answer keeps the types of the handlers' variables.
LEMMA AnswerType ==
    ASSUME TypeOK, NEW p \in Procs, NEW status \in HttpStatus,
           NEW note \in Note \cup {Nil}, Answer(p, status, note)
    PROVE  pc' \in [Procs -> Control] /\ job' \in [Procs -> Job]
<1>1. [NoJob EXCEPT !.status = status, !.note = note] \in Job
  BY NoJobType DEF Job, NoJob
<1>2. "reply" \in Control
  BY DEF Control
<1> QED
  BY <1>1, <1>2, GotoType DEF Answer

\* Deleting records leaves functions of the buckets' types.
LEMMA DeleteType ==
    ASSUME TypeOK, NEW ids, DeleteNoteRecords(ids)
    PROVE  /\ metadata' \in [Ids -> Metadata \cup {Nil}]
           /\ payloads' \in [Ids -> Note \cup {Nil}]
BY DEF TypeOK, DeleteNoteRecords

\* A cleanup leaves the three buckets that it writes with their types.
LEMMA CleanupType ==
    ASSUME TypeOK, NEW t, Cleanup(t)
    PROVE  /\ metadata' \in [Ids -> Metadata \cup {Nil}]
           /\ payloads' \in [Ids -> Note \cup {Nil}]
           /\ usedTickets' \in [Ids -> Nat \cup {Nil}]
BY DeleteType DEF TypeOK, Cleanup

\* The failure of a commit does not overdraw the budget of failures.
LEMMA CommitFailsType ==
    ASSUME TypeOK, CommitFails
    PROVE  faults' \in 0..MaxFaults
BY BoundsAssumption DEF TypeOK, CommitFails

\* Control labels in which CreateNote has verified its ticket, and the ones in
\* which it has dated the note too.
Creating == {"verified", "stamped", "full", "sweeping", "retry"}
Stamped  == Creating \ {"verified"}

\* What CreateNote knows once verifyTicket has returned.
CreatorType ==
    \A p \in Procs : pc[p] \in Creating =>
       /\ job[p].id \in Ids /\ job[p].verifier \in Verifier

\* What OpenNote knows when its transaction starts.
OpenerType ==
    \A p \in Procs : pc[p] = "opening" => job[p].id \in Ids /\ job[p].token \in Tokens

Types == TypeOK /\ CreatorType /\ OpenerType

\* The initial state has the types.
LEMMA InitTypes == Init => Types
BY NoJobType, BoundsAssumption
   DEF Init, Types, TypeOK, CreatorType, OpenerType, Control, CurrentSchemaVersion, Creating

\* Every step keeps the types.
LEMMA NextTypes == Types /\ [Next]_vars => Types'
<1> SUFFICES ASSUME Types, [Next]_vars PROVE Types'
  OBVIOUS
<1> USE DEF Types, CreatorType, OpenerType
<1>1. CASE OpenDB
  BY <1>1, CommitFailsType
     DEF OpenDB, TypeOK, CurrentSchemaVersion, CommitFails, history
<1>2. CASE EnsureRootKeys
  BY <1>2, CommitFailsType DEF EnsureRootKeys, TypeOK, CommitFails, history
<1>3. CASE MaintenanceReadsClock
  BY <1>3 DEF MaintenanceReadsClock, TypeOK, db, history, budgets
<1>4. CASE MaintenanceCommits
  BY <1>4, CommitFailsType, CleanupType DEF MaintenanceCommits, TypeOK, CommitFails, history
<1>5. CASE CreateTicket
  <2>1. tickets' \in [Ids -> Ticket \cup {Nil}]
    BY <1>5, TimesAssumption DEF CreateTicket, TypeOK, Ticket, Verifier, BurnTokenVerifier
  <2> QED
    BY <2>1, <1>5 DEF CreateTicket, TypeOK, db, budgets
<1>6. ASSUME NEW p \in Procs, BeginCreateNote(p) PROVE Types'
  <2>0. PICK id \in Ids, token \in Tokens, body \in Bodies, life \in Lifetimes :
          \E ticket \in TicketsInHand(id, token) :
          LET status == CreateRejection(id, ticket, token, body, life) IN
          IF status # 0
          THEN Goto(p, "reply", [NoJob EXCEPT !.status = status])
          ELSE Goto(p, "verified", [NoJob EXCEPT !.id = id, !.exp = ticket.exp,
                                    !.verifier = ticket.verifier, !.life = life])
    BY <1>6 DEF BeginCreateNote
  <2>1. PICK ticket \in TicketsInHand(id, token) :
          LET status == CreateRejection(id, ticket, token, body, life) IN
          IF status # 0
          THEN Goto(p, "reply", [NoJob EXCEPT !.status = status])
          ELSE Goto(p, "verified", [NoJob EXCEPT !.id = id, !.exp = ticket.exp,
                                    !.verifier = ticket.verifier, !.life = life])
    BY <2>0
  <2>frame. UNCHANGED <<now, db, server, sweepAt, history, budgets>>
    BY <1>6 DEF BeginCreateNote
  <2> DEFINE status == CreateRejection(id, ticket, token, body, life)
             bad    == [NoJob EXCEPT !.status = status]
             good   == [NoJob EXCEPT !.id = id, !.exp = ticket.exp,
                                     !.verifier = ticket.verifier, !.life = life]
  <2>2. status \in HttpStatus
    BY DEF CreateRejection, HttpStatus
  <2>3. bad \in Job
    BY <2>2, NoJobType DEF Job, NoJob
  <2>4. ticket \in Ticket
    BY TimesAssumption DEF TicketsInHand, ForeignTicket, TypeOK, Ticket, Verifier, BurnTokenVerifier
  <2>5. life \in Nat
    BY TimesAssumption
  <2>6. good \in Job /\ good.id = id /\ good.verifier \in Verifier
    BY <2>4, <2>5, NoJobType DEF Job, NoJob, Ticket
  <2>7. CASE status # 0
    <3>1. Goto(p, "reply", bad)
      BY <2>1, <2>7
    <3> HIDE DEF bad
    <3> QED
      BY <3>1, <2>3, <2>frame, GotoType
         DEF TypeOK, Goto, db, history, budgets, Control, Creating
  <2>8. CASE status = 0
    <3>1. Goto(p, "verified", good)
      BY <2>1, <2>8
    <3> HIDE DEF good
    <3> QED
      BY <3>1, <2>6, <2>frame, GotoType
         DEF TypeOK, Goto, db, history, budgets, Control, Creating
  <2> QED
    BY <2>7, <2>8
<1>7. ASSUME NEW p \in Procs, StampNote(p) PROVE Types'
  <2> DEFINE j == [job[p] EXCEPT !.stamp = now]
  <2>1. j \in Job /\ j.id = job[p].id /\ j.verifier = job[p].verifier
    BY DEF TypeOK, Job
  <2> HIDE DEF j
  <2>2. Goto(p, "stamped", j)
    BY <1>7 DEF StampNote, j
  <2> QED
    BY <2>1, <2>2, <1>7, GotoType
       DEF StampNote, TypeOK, Goto, db, history, budgets, Control, Creating
<1>8. ASSUME NEW p \in Procs, TryCreate(p) PROVE Types'
  <2> DEFINE j == job[p]
  <2>1. j \in Job /\ j.id \in Ids /\ j.verifier \in Verifier
    BY <1>8 DEF TryCreate, TypeOK, Creating
  <2>2. \A status \in HttpStatus : Answer(p, status, Nil) =>
           /\ pc' \in [Procs -> Control] /\ job' \in [Procs -> Job]
           /\ CreatorType' /\ OpenerType'
    BY AnswerType DEF Answer, Goto, TypeOK, Creating
  <2>3. {409, 201, 507, 500} \subseteq HttpStatus
    BY DEF HttpStatus
  <2>4. CASE StoreNote(j) /\ Answer(p, 201, Nil) /\ UNCHANGED faults
    <3>1. NewMetadata(j) \in Metadata
      BY <2>1 DEF NewMetadata, Metadata, Job
    <3>2. metadata' \in [Ids -> Metadata \cup {Nil}]
      BY <2>4, <3>1 DEF StoreNote, TypeOK
    <3>3. created[j.id] + 1 \in Nat
      BY <2>1 DEF TypeOK
    <3>4. payloads' \in [Ids -> Note \cup {Nil}]
      BY <2>4, <2>1, <3>3 DEF StoreNote, TypeOK, Note
    <3>5. usedTickets' \in [Ids -> Nat \cup {Nil}]
      BY <2>4, <2>1 DEF StoreNote, TypeOK, Job
    <3>6. created' \in [Ids -> Nat]
      BY <2>4, <2>1, <3>3 DEF StoreNote, TypeOK
    <3> QED
      BY <3>2, <3>4, <3>5, <3>6, <2>2, <2>3, <2>4, <1>8 DEF TryCreate, TypeOK
  <2>5. CASE /\ Answer(p, 409, Nil) \/ Answer(p, 507, Nil)
             /\ UNCHANGED <<metadata, payloads, usedTickets, created, faults>>
    BY <2>2, <2>3, <2>5, <1>8 DEF TryCreate, TypeOK
  <2>6. CASE /\ Goto(p, "full", j)
             /\ UNCHANGED <<metadata, payloads, usedTickets, created, faults>>
    BY <2>1, <2>6, <1>8, GotoType DEF TryCreate, TypeOK, Goto, Control, Creating
  <2>7. CASE /\ CommitFails /\ Answer(p, 500, Nil)
             /\ UNCHANGED <<metadata, payloads, usedTickets, created>>
    BY <2>2, <2>3, <2>7, <1>8, CommitFailsType DEF TryCreate, TypeOK
  <2> QED
    BY <1>8, <2>4, <2>5, <2>6, <2>7 DEF TryCreate
<1>9. ASSUME NEW p \in Procs, SweepReadsClock(p) PROVE Types'
  <2> DEFINE j == [job[p] EXCEPT !.at = now]
  <2>1. j \in Job /\ j.id = job[p].id /\ j.verifier = job[p].verifier
    BY DEF TypeOK, Job
  <2> HIDE DEF j
  <2>2. Goto(p, "sweeping", j)
    BY <1>9 DEF SweepReadsClock, j
  <2> QED
    BY <2>1, <2>2, <1>9, GotoType
       DEF SweepReadsClock, TypeOK, Goto, db, history, budgets, Control, Creating
<1>10. ASSUME NEW p \in Procs, SweepCommits(p) PROVE Types'
  <2>1. CASE Cleanup(job[p].at) /\ Goto(p, "retry", job[p]) /\ UNCHANGED faults
    <3>1. job[p] \in Job /\ "retry" \in Control
      BY DEF TypeOK, Control
    <3>2. /\ metadata' \in [Ids -> Metadata \cup {Nil}] /\ payloads' \in [Ids -> Note \cup {Nil}]
          /\ usedTickets' \in [Ids -> Nat \cup {Nil}]
      BY <2>1, CleanupType
    <3>3. pc' \in [Procs -> Control] /\ job' \in [Procs -> Job]
      BY <2>1, <3>1, GotoType
    <3>4. TypeOK'
      BY <2>1, <3>2, <3>3, <1>10 DEF SweepCommits, TypeOK, history
    <3>5. CreatorType' /\ OpenerType'
      BY <2>1, <1>10 DEF SweepCommits, TypeOK, Goto, Creating
    <3> QED
      BY <3>4, <3>5
  <2>2. CASE /\ CommitFails /\ Answer(p, 500, Nil)
             /\ UNCHANGED <<metadata, payloads, usedTickets>>
    <3>1. 500 \in HttpStatus
      BY DEF HttpStatus
    <3>2. faults' \in 0..MaxFaults /\ pc' \in [Procs -> Control] /\ job' \in [Procs -> Job]
      BY <2>2, <3>1, CommitFailsType, AnswerType
    <3> QED
      BY <2>2, <3>2, <1>10 DEF SweepCommits, TypeOK, Answer, Goto, history, Creating
  <2> QED
    BY <1>10, <2>1, <2>2 DEF SweepCommits
<1>11. ASSUME NEW p \in Procs, BeginOpenNote(p) PROVE Types'
  <2>1. PICK id \in Ids, token \in Tokens, body \in Bodies :
          LET status == OpenRejection(body) IN
          IF status # 0
          THEN Goto(p, "reply", [NoJob EXCEPT !.status = status])
          ELSE Goto(p, "opening", [NoJob EXCEPT !.id = id, !.token = token, !.at = now])
    BY <1>11 DEF BeginOpenNote
  <2>frame. UNCHANGED <<now, db, server, sweepAt, history, budgets>>
    BY <1>11 DEF BeginOpenNote
  <2> DEFINE status == OpenRejection(body)
             bad    == [NoJob EXCEPT !.status = status]
             good   == [NoJob EXCEPT !.id = id, !.token = token, !.at = now]
  <2>2. status \in HttpStatus
    BY DEF OpenRejection, HttpStatus
  <2>3. bad \in Job
    BY <2>2, NoJobType DEF Job, NoJob
  <2>4. good \in Job /\ good.id = id /\ good.token = token
    BY NoJobType DEF Job, NoJob, TypeOK
  <2>5. CASE status # 0
    <3>1. Goto(p, "reply", bad)
      BY <2>1, <2>5
    <3> HIDE DEF bad
    <3> QED
      BY <3>1, <2>3, <2>frame, GotoType
         DEF TypeOK, Goto, db, history, budgets, Control, Creating
  <2>6. CASE status = 0
    <3>1. Goto(p, "opening", good)
      BY <2>1, <2>6
    <3> HIDE DEF good
    <3> QED
      BY <3>1, <2>4, <2>frame, GotoType
         DEF TypeOK, Goto, db, history, budgets, Control, Creating
  <2> QED
    BY <2>5, <2>6
<1>12. ASSUME NEW p \in Procs, OpenNote(p) PROVE Types'
  <2> DEFINE j == job[p]
  <2>1. j.id \in Ids /\ payloads[j.id] \in Note \cup {Nil}
    BY <1>12 DEF OpenNote, TypeOK
  <2>2. \A status \in HttpStatus, note \in Note \cup {Nil} : Answer(p, status, note) =>
           /\ pc' \in [Procs -> Control] /\ job' \in [Procs -> Job]
           /\ CreatorType' /\ OpenerType'
    BY AnswerType DEF Answer, Goto, TypeOK, Creating
  <2>3. {200, 404, 500} \subseteq HttpStatus
    BY DEF HttpStatus
  <2>4. CASE /\ Answer(p, 404, Nil) \/ Answer(p, 200, payloads[j.id])
             /\ \/ UNCHANGED <<metadata, payloads>>
                \/ DeleteNoteRecords({j.id})
             /\ UNCHANGED faults
    BY <2>1, <2>2, <2>3, <2>4, <1>12, DeleteType DEF OpenNote, TypeOK, history
  <2>5. CASE /\ CommitFails /\ Answer(p, 500, Nil)
             /\ UNCHANGED <<metadata, payloads>>
    BY <2>2, <2>3, <2>5, <1>12, CommitFailsType DEF OpenNote, TypeOK, history
  <2> QED
    BY <1>12, <2>4, <2>5 DEF OpenNote
<1>13. ASSUME NEW p \in Procs, Reply(p) PROVE Types'
  <2>1. "idle" \in Control
    BY DEF Control
  <2>2. delivered' \subseteq Note
    BY <1>13 DEF Reply, TypeOK, Job
  <2> QED
    BY <2>1, <2>2, <1>13, GotoType, NoJobType
       DEF Reply, TypeOK, Goto, db, budgets, Creating
<1>14. CASE Tick
  BY <1>14 DEF Tick, TypeOK, db, history, budgets
<1>15. CASE ClockSetBack
  BY <1>15, BoundsAssumption DEF ClockSetBack, TypeOK, db, history
<1>16. CASE Crash
  BY <1>16, NoJobType, BoundsAssumption DEF Crash, TypeOK, db, history, Control, Creating
<1>17. CASE UNCHANGED vars
  BY <1>17 DEF vars, TypeOK, db, history, budgets
<1> QED
  BY <1>1, <1>2, <1>3, <1>4, <1>5, <1>6, <1>7, <1>8, <1>9, <1>10, <1>11, <1>12,
     <1>13, <1>14, <1>15, <1>16, <1>17 DEF Next, Maintenance, Handler

\* The buckets, the handlers and the budgets keep their types in every reachable
\* state of the service.
THEOREM TypeCorrect == Spec => []TypeOK
<1>1. Spec => []Types
  BY InitTypes, NextTypes, PTL DEF Spec
<1>2. Types => TypeOK
  BY DEF Types
<1> QED
  BY <1>1, <1>2, PTL

-----------------------------------------------------------------------------
(* One delivery per note *)

\* OneDeliveryPerNote is not inductive: a state in which a stored payload has
\* the name of a note yet to be created is a counterexample.  The strengthening
\* says that the payload stored under an id is the last note created under it,
\* that only notes created so far are held or delivered, and that a handler
\* holds a note only while it answers.
NoteInv ==
    /\ \A id \in Ids : payloads[id] # Nil =>
          created[id] > 0 /\ payloads[id] = <<id, created[id]>>
    /\ \A p \in Procs : job[p].note # Nil =>
          pc[p] = "reply" /\ job[p].note[2] =< created[job[p].note[1]]
    /\ \A n \in delivered : n[2] =< created[n[1]]
    /\ OneDeliveryPerNote

\* The five things that a step can do to notes.
SameNotes == \A q \in Procs : job'[q].note = job[q].note

StepDrop ==
    /\ \A id \in Ids : payloads'[id] \in {payloads[id], Nil}
    /\ SameNotes /\ UNCHANGED <<created, delivered>>

StepLose ==
    /\ \A q \in Procs : job'[q].note \in {job[q].note, Nil}
    /\ UNCHANGED <<payloads, created, delivered>>

StepStore(id) ==
    /\ payloads[id] = Nil
    /\ payloads' = [payloads EXCEPT ![id] = <<id, created[id] + 1>>]
    /\ created' = [created EXCEPT ![id] = @ + 1]
    /\ SameNotes /\ UNCHANGED delivered

StepTake(p, id) ==
    /\ payloads[id] # Nil /\ job[p].note = Nil
    /\ payloads' = [i \in Ids |-> IF i \in {id} THEN Nil ELSE payloads[i]]
    /\ job'[p].note = payloads[id]
    /\ \A q \in Procs \ {p} : job'[q].note = job[q].note
    /\ UNCHANGED <<created, delivered>>

StepGive(p) ==
    /\ job[p].note # Nil /\ job'[p].note = Nil
    /\ \A q \in Procs \ {p} : job'[q].note = job[q].note
    /\ delivered' = delivered \cup {job[p].note}
    /\ UNCHANGED <<payloads, created>>

NoteStep ==
    /\ \A q \in Procs : job'[q].note # Nil => pc'[q] = "reply"
    /\ \/ StepDrop \/ StepLose \/ \E id \in Ids : StepStore(id)
       \/ \E p \in Procs, id \in Ids : StepTake(p, id)
       \/ \E p \in Procs : StepGive(p)

\* A handler that is not answering holds no note, and still holds none after a
\* move to a job without one.
LEMMA QuietMove ==
    ASSUME TypeOK, NoteInv, NEW p \in Procs, pc[p] # "reply",
           NEW label, NEW j, j.note = Nil, Goto(p, label, j)
    PROVE  SameNotes /\ \A q \in Procs : job'[q].note # Nil => pc'[q] = "reply"
BY DEF TypeOK, NoteInv, Goto, SameNotes

\* An answer without a note moves no note, if the handler held none.
LEMMA QuietAnswer ==
    ASSUME TypeOK, NoteInv, NEW p \in Procs, pc[p] # "reply",
           NEW status, Answer(p, status, Nil)
    PROVE  SameNotes /\ \A q \in Procs : job'[q].note # Nil => pc'[q] = "reply"
<1>1. [NoJob EXCEPT !.status = status, !.note = Nil].note = Nil
  BY DEF NoJob
<1> QED
  BY <1>1, QuietMove DEF Answer

\* Deleting records only empties places.
LEMMA DeleteDrops ==
    ASSUME TypeOK, NEW ids, DeleteNoteRecords(ids)
    PROVE  \A id \in Ids : payloads'[id] \in {payloads[id], Nil}
BY DEF TypeOK, DeleteNoteRecords

\* Every step of the service does one of the five things to notes.
LEMMA NextNoteStep == Types /\ NoteInv /\ [Next]_vars => NoteStep
<1> SUFFICES ASSUME Types, NoteInv, [Next]_vars PROVE NoteStep
  OBVIOUS
<1> USE DEF Types
<1>a. ASSUME UNCHANGED <<payloads, pc, job, created, delivered>> PROVE NoteStep
  BY <1>a DEF NoteStep, StepDrop, SameNotes, NoteInv
<1>b. ASSUME NEW p \in Procs, pc[p] # "reply", NEW label, NEW j, j.note = Nil,
             Goto(p, label, j),
             \A id \in Ids : payloads'[id] \in {payloads[id], Nil},
             UNCHANGED <<created, delivered>>
      PROVE  NoteStep
  BY <1>b, QuietMove DEF NoteStep, StepDrop
<1>c. ASSUME NEW p \in Procs, pc[p] # "reply", NEW status, Answer(p, status, Nil),
             \A id \in Ids : payloads'[id] \in {payloads[id], Nil},
             UNCHANGED <<created, delivered>>
      PROVE  NoteStep
  BY <1>c, QuietAnswer DEF NoteStep, StepDrop
<1>1. CASE OpenDB \/ EnsureRootKeys \/ MaintenanceReadsClock \/ CreateTicket \/ Tick
           \/ ClockSetBack \/ UNCHANGED vars
  BY <1>1, <1>a DEF OpenDB, EnsureRootKeys, MaintenanceReadsClock, CreateTicket, Tick,
                    ClockSetBack, vars, db, history
<1>2. CASE MaintenanceCommits
  <2>1. \A id \in Ids : payloads'[id] \in {payloads[id], Nil}
    BY <1>2, DeleteDrops DEF MaintenanceCommits, Cleanup
  <2> QED
    BY <2>1, <1>2 DEF MaintenanceCommits, NoteStep, StepDrop, SameNotes, NoteInv, history
<1>3. ASSUME NEW p \in Procs, BeginCreateNote(p) PROVE NoteStep
  <2>1. \E label, j : j.note = Nil /\ Goto(p, label, j)
    BY <1>3 DEF BeginCreateNote, NoJob
  <2> QED
    BY <2>1, <1>3, <1>b DEF BeginCreateNote, db, history
<1>4. ASSUME NEW p \in Procs, StampNote(p) PROVE NoteStep
  <2>1. [job[p] EXCEPT !.stamp = now].note = Nil
    BY <1>4 DEF StampNote, NoteInv, TypeOK, Job
  <2> QED
    BY <2>1, <1>4, <1>b DEF StampNote, db, history
<1>5. ASSUME NEW p \in Procs, TryCreate(p) PROVE NoteStep
  <2> DEFINE j == job[p]
  <2>1. pc[p] # "reply" /\ j.note = Nil /\ j.id \in Ids
    BY <1>5 DEF TryCreate, NoteInv, CreatorType, Creating
  <2>2. CASE Unused(j.id) /\ StoreNote(j) /\ Answer(p, 201, Nil)
    <3>1. SameNotes /\ \A q \in Procs : job'[q].note # Nil => pc'[q] = "reply"
      BY <2>1, <2>2, QuietAnswer
    <3>2. UNCHANGED delivered
      BY <1>5 DEF TryCreate
    <3>3. StepStore(j.id)
      BY <2>2, <3>1, <3>2 DEF StepStore, StoreNote, Unused
    <3> QED
      BY <2>1, <3>1, <3>3 DEF NoteStep
  <2>3. CASE /\ Goto(p, "full", j) \/ \E status : Answer(p, status, Nil)
             /\ UNCHANGED <<payloads, created>>
    BY <2>1, <2>3, <1>5, <1>b, <1>c DEF TryCreate
  <2> QED
    BY <1>5, <2>2, <2>3 DEF TryCreate
<1>6. ASSUME NEW p \in Procs, SweepReadsClock(p) PROVE NoteStep
  <2>1. [job[p] EXCEPT !.at = now].note = Nil
    BY <1>6 DEF SweepReadsClock, NoteInv, TypeOK, Job
  <2> QED
    BY <2>1, <1>6, <1>b DEF SweepReadsClock, db, history
<1>7. ASSUME NEW p \in Procs, SweepCommits(p) PROVE NoteStep
  <2>1. pc[p] # "reply" /\ job[p].note = Nil /\ UNCHANGED <<created, delivered>>
    BY <1>7 DEF SweepCommits, NoteInv, history
  <2>2. \A id \in Ids : payloads'[id] \in {payloads[id], Nil}
    BY <1>7, DeleteDrops DEF SweepCommits, Cleanup
  <2> QED
    BY <2>1, <2>2, <1>7, <1>b, <1>c DEF SweepCommits
<1>8. ASSUME NEW p \in Procs, BeginOpenNote(p) PROVE NoteStep
  <2>1. \E label, j : j.note = Nil /\ Goto(p, label, j)
    BY <1>8 DEF BeginOpenNote, NoJob
  <2> QED
    BY <2>1, <1>8, <1>b DEF BeginOpenNote, db, history
<1>9. ASSUME NEW p \in Procs, OpenNote(p) PROVE NoteStep
  <2> DEFINE id == job[p].id
  <2>1. /\ pc[p] # "reply" /\ job[p].note = Nil /\ id \in Ids
        /\ UNCHANGED <<created, delivered>>
    BY <1>9 DEF OpenNote, NoteInv, OpenerType, history
  <2>2. CASE /\ \E status : Answer(p, status, Nil)
             /\ \/ UNCHANGED payloads
                \/ DeleteNoteRecords({id})
    BY <2>1, <2>2, <1>c, DeleteDrops
  <2>3. CASE /\ payloads[id] # Nil /\ DeleteNoteRecords({id})
             /\ Answer(p, 200, payloads[id])
    <3> DEFINE j == [NoJob EXCEPT !.status = 200, !.note = payloads[id]]
    <3>1. j.note = payloads[id]
      BY DEF NoJob
    <3>2. Goto(p, "reply", j)
      BY <2>3 DEF Answer
    <3> HIDE DEF j
    <3>3. /\ job'[p].note = payloads[id]
          /\ \A q \in Procs \ {p} : job'[q].note = job[q].note /\ pc'[q] = pc[q]
          /\ pc'[p] = "reply"
      BY <3>1, <3>2 DEF Goto, TypeOK
    <3>4. StepTake(p, id)
      BY <2>1, <2>3, <3>3 DEF StepTake, DeleteNoteRecords
    <3> QED
      BY <2>1, <3>3, <3>4 DEF NoteStep, NoteInv
  <2> QED
    BY <1>9, <2>2, <2>3 DEF OpenNote
<1>10. ASSUME NEW p \in Procs, Reply(p) PROVE NoteStep
  <2>1. /\ job'[p].note = Nil
        /\ \A q \in Procs \ {p} : job'[q].note = job[q].note /\ pc'[q] = pc[q]
    BY <1>10 DEF Reply, Goto, NoJob, TypeOK
  <2>2. UNCHANGED <<payloads, created>>
    BY <1>10 DEF Reply, db
  <2>3. CASE job[p].note # Nil /\ delivered' = delivered \cup {job[p].note}
    BY <2>1, <2>2, <2>3 DEF NoteStep, StepGive, NoteInv
  <2>4. CASE UNCHANGED delivered
    BY <2>1, <2>2, <2>4 DEF NoteStep, StepLose, NoteInv
  <2> QED
    BY <1>10, <2>3, <2>4 DEF Reply
<1>11. CASE Crash
  BY <1>11 DEF Crash, NoteStep, StepLose, NoJob, db, history
<1> QED
  BY <1>1, <1>2, <1>3, <1>4, <1>5, <1>6, <1>7, <1>8, <1>9, <1>10, <1>11
     DEF Next, Maintenance, Handler

\* The strengthened invariant survives each of the five.
LEMMA NoteStepInv == Types /\ Types' /\ NoteInv /\ NoteStep => NoteInv'
<1> SUFFICES ASSUME Types, Types', NoteInv, NoteStep PROVE NoteInv'
  OBVIOUS
<1> USE DEF Types, OneDeliveryPerNote
<1>t. /\ payloads \in [Ids -> Note \cup {Nil}] /\ payloads' \in [Ids -> Note \cup {Nil}]
      /\ \A p \in Procs : job[p].note \in Note \cup {Nil} /\ job'[p].note \in Note \cup {Nil}
      /\ created \in [Ids -> Nat] /\ created' \in [Ids -> Nat]
      /\ delivered \subseteq Note
  BY DEF TypeOK, Job
<1>r. \A q \in Procs : job'[q].note # Nil => pc'[q] = "reply"
  BY DEF NoteStep
<1>1. CASE StepDrop
  BY <1>1, <1>r DEF StepDrop, SameNotes, NoteInv
<1>2. CASE StepLose
  BY <1>2, <1>r DEF StepLose, NoteInv
<1>3. ASSUME NEW id \in Ids, StepStore(id) PROVE NoteInv'
  <2> DEFINE new == <<id, created[id] + 1>>
  <2>1. /\ payloads'[id] = new /\ created'[id] = created[id] + 1
        /\ \A i \in Ids \ {id} : payloads'[i] = payloads[i] /\ created'[i] = created[i]
        /\ \A i \in Ids : created[i] =< created'[i]
    BY <1>3, <1>t DEF StepStore
  <2>2. new \notin delivered /\ \A p \in Procs : job[p].note # new
    BY <1>t, NilAssumption DEF NoteInv, Note
  <2>3. \A i \in Ids : payloads'[i] # Nil =>
           created'[i] > 0 /\ payloads'[i] = <<i, created'[i]>>
    BY <2>1, <1>t DEF NoteInv
  <2>4. \A p \in Procs : job'[p].note # Nil => job'[p].note[2] =< created'[job'[p].note[1]]
    BY <2>1, <1>3, <1>t DEF StepStore, SameNotes, NoteInv, Note
  <2>5. \A n \in delivered' : n[2] =< created'[n[1]]
    BY <2>1, <1>3, <1>t DEF StepStore, NoteInv, Note
  <2>6. OneDeliveryPerNote'
    BY <2>1, <2>2, <1>3 DEF StepStore, SameNotes, NoteInv
  <2> QED
    BY <1>r, <2>3, <2>4, <2>5, <2>6 DEF NoteInv
<1>4. ASSUME NEW p \in Procs, NEW id \in Ids, StepTake(p, id) PROVE NoteInv'
  <2>1. /\ payloads'[id] = Nil /\ job'[p].note = <<id, created[id]>>
        /\ payloads[id] = <<id, created[id]>>
        /\ \A i \in Ids \ {id} : payloads'[i] = payloads[i]
    BY <1>4, <1>t DEF StepTake, NoteInv
  <2>2. \A i \in Ids \ {id} : payloads[i] # Nil => payloads[i] # payloads[id]
    BY <2>1 DEF NoteInv
  <2>3. OneDeliveryPerNote'
    BY <2>1, <2>2, <1>4 DEF StepTake, NoteInv
  <2>4. \A q \in Procs : job'[q].note # Nil => job'[q].note[2] =< created'[job'[q].note[1]]
    BY <2>1, <1>4, <1>t DEF StepTake, NoteInv
  <2> QED
    BY <1>4, <1>r, <2>1, <2>3, <2>4 DEF StepTake, NoteInv
<1>5. ASSUME NEW p \in Procs, StepGive(p) PROVE NoteInv'
  <2>1. OneDeliveryPerNote'
    BY <1>5 DEF StepGive, NoteInv
  <2> QED
    BY <1>5, <1>r, <2>1 DEF StepGive, NoteInv
<1> QED
  BY <1>1, <1>2, <1>3, <1>4, <1>5 DEF NoteStep

\* The invariant about the places of notes holds at first.
LEMMA InitNoteInv == Init => NoteInv
BY DEF Init, NoteInv, OneDeliveryPerNote, NoJob

\* Types and NoteInv are inductive together.
LEMMA NoteInvariance == Spec => [](Types /\ NoteInv)
<1>1. Types /\ NoteInv /\ [Next]_vars => (Types /\ NoteInv)'
  BY NextTypes, NextNoteStep, NoteStepInv
<1> QED
  BY <1>1, InitTypes, InitNoteInv, PTL DEF Spec

\* No note is handed out twice: what a handler is about to send is neither in
\* the database, nor with another handler, nor with a client already, in every
\* reachable state, with any number of handlers, failed commits and crashes and
\* with a clock that may go back.
THEOREM OneDelivery == Spec => []OneDeliveryPerNote
<1>1. NoteInv => OneDeliveryPerNote
  BY DEF NoteInv
<1> QED
  BY <1>1, NoteInvariance, PTL

-----------------------------------------------------------------------------
(* Refinement of the abstract one-time note *)

\* A database without notes and handlers without notes are the abstract start.
LEMMA InitAbstract == Init => Abstract!Init
BY DEF Init, Abstract!Init, SealedNotes, HeldNotes, NoJob

\* Each of the five things a step does to notes is an abstract step.
LEMMA StepAbstract ==
    Types /\ Types' /\ NoteInv /\ NoteStep => [Abstract!Next]_(Abstract!notes)
<1> SUFFICES ASSUME Types, Types', NoteInv, NoteStep
             PROVE  [Abstract!Next]_(Abstract!notes)
  OBVIOUS
<1> USE DEF Types
<1>t. /\ payloads \in [Ids -> Note \cup {Nil}] /\ payloads' \in [Ids -> Note \cup {Nil}]
      /\ \A p \in Procs : job[p].note \in Note \cup {Nil} /\ job'[p].note \in Note \cup {Nil}
      /\ created \in [Ids -> Nat]
  BY DEF TypeOK, Job
<1>h. ASSUME SameNotes PROVE HeldNotes' = HeldNotes
  BY <1>h DEF HeldNotes, SameNotes
<1>s. ASSUME UNCHANGED payloads PROVE SealedNotes' = SealedNotes
  BY <1>s DEF SealedNotes
<1>1. CASE StepDrop
  <2> DEFINE gone == SealedNotes \ SealedNotes'
  <2>1. SealedNotes' \subseteq SealedNotes
    BY <1>1 DEF StepDrop, SealedNotes
  <2>2. gone \in SUBSET SealedNotes /\ SealedNotes' = SealedNotes \ gone
    BY <2>1
  <2>3. Abstract!Drop(gone)
    BY <2>2, <1>1, <1>h DEF StepDrop, Abstract!Drop
  <2> QED
    BY <2>2, <2>3 DEF Abstract!Next
<1>2. CASE StepLose
  <2> DEFINE gone == HeldNotes \ HeldNotes'
  <2>1. HeldNotes' \subseteq HeldNotes
    BY <1>2 DEF StepLose, HeldNotes
  <2>2. gone \in SUBSET HeldNotes /\ HeldNotes' = HeldNotes \ gone
    BY <2>1
  <2>3. Abstract!Lose(gone)
    BY <2>2, <1>2, <1>s DEF StepLose, Abstract!Lose
  <2> QED
    BY <2>2, <2>3 DEF Abstract!Next
<1>3. ASSUME NEW id \in Ids, StepStore(id) PROVE Abstract!Next
  <2> DEFINE new == <<id, created[id] + 1>>
  <2>1. payloads'[id] = new /\ \A i \in Ids \ {id} : payloads'[i] = payloads[i]
    BY <1>3, <1>t DEF StepStore
  <2>2. new # Nil
    BY <1>t, NilAssumption DEF Note
  <2>3. SealedNotes' = SealedNotes \cup {new}
    BY <2>1, <2>2, <1>3 DEF StepStore, SealedNotes
  <2>4. \A n \in SealedNotes : n[1] # id
    BY <1>3 DEF SealedNotes, NoteInv, StepStore
  <2>5. Abstract!Seal(id)
    BY <2>3, <2>4, <1>3, <1>h DEF Abstract!Seal, StepStore
  <2> QED
    BY <2>5 DEF Abstract!Next
<1>4. ASSUME NEW p \in Procs, NEW id \in Ids, StepTake(p, id) PROVE Abstract!Next
  <2> DEFINE n == payloads[id]
  <2>1. n \in SealedNotes
    BY <1>4 DEF StepTake, SealedNotes
  <2>2. SealedNotes' = SealedNotes \ {n}
    BY <1>4, <1>t DEF StepTake, SealedNotes, NoteInv
  <2>3. HeldNotes' = HeldNotes \cup {n}
    BY <1>4 DEF StepTake, HeldNotes
  <2>4. Abstract!Burn(n)
    BY <2>1, <2>2, <2>3, <1>4 DEF Abstract!Burn, StepTake
  <2> QED
    BY <2>1, <2>4 DEF Abstract!Next
<1>5. ASSUME NEW p \in Procs, StepGive(p) PROVE Abstract!Next
  <2> DEFINE n == job[p].note
  <2>1. n \in HeldNotes
    BY <1>5 DEF StepGive, HeldNotes
  <2>2. HeldNotes' = HeldNotes \ {n}
    BY <1>5 DEF StepGive, HeldNotes, NoteInv, OneDeliveryPerNote
  <2>3. Abstract!Give(n)
    BY <2>1, <2>2, <1>5, <1>s DEF Abstract!Give, StepGive
  <2> QED
    BY <2>1, <2>3 DEF Abstract!Next
<1> QED
  BY <1>1, <1>2, <1>3, <1>4, <1>5 DEF NoteStep

\* The service, with its tickets, transactions, clocks and crashes, implements
\* the one-time note.
THEOREM Refinement == Spec => ImplementsOneTimeNote
<1>1. Types /\ NoteInv /\ [Next]_vars => [Abstract!Next]_(Abstract!notes)
  BY NextTypes, NextNoteStep, StepAbstract
<1> QED
  BY <1>1, InitAbstract, NoteInvariance, PTL DEF Spec, ImplementsOneTimeNote, Abstract!Spec

-----------------------------------------------------------------------------
(* Tickets, the root key and the records of the database: stored notes     *)
(* stay openable across restarts, a ticket that is still valid is not      *)
(* spent twice, and notes leave the store for two reasons only.  What      *)
(* depends on the cleanup's clock reading is proved for a wall clock that  *)
(* is not set back.                                                        *)

\* What is known of the root key and of the tickets signed with it, at every
\* moment: a ticket exists only if the key does, and the key then stays; and
\* the maintenance thread sweeps only after EnsureRootKeys.
TicketInv ==
    /\ server \in {"keyed", "up"} => rootKey # 0
    /\ sweepAt # Nil => server \in {"keyed", "up"}
    /\ \A id \in Ids : tickets[id] # Nil =>
          /\ rootKey # 0
          /\ tickets[id].id = id
          /\ tickets[id].verifier[1] = rootKey

\* What CreateNote has established about its request when it gets to the
\* transaction, however long ago it verified the ticket.
CreatorInv ==
    \A p \in Procs :
       /\ pc[p] \in Creating =>
             /\ tickets[job[p].id] # Nil
             /\ job[p].verifier = tickets[job[p].id].verifier
             /\ job[p].exp = tickets[job[p].id].exp
             /\ ValidLifetime(job[p].life)
       /\ pc[p] \in Stamped => job[p].stamp # 0

\* The three records of an id agree with its ticket.
RecordInv ==
    \A id \in Ids :
       /\ metadata[id] = Nil <=> payloads[id] = Nil
       /\ metadata[id] # Nil =>
             /\ ValidMetadata(metadata[id])
             /\ tickets[id] # Nil
             /\ metadata[id].verifier = tickets[id].verifier
       /\ created[id] > 0 => tickets[id] # Nil
       /\ usedTickets[id] # Nil => created[id] > 0 /\ usedTickets[id] = tickets[id].exp

KeyInv == TicketInv /\ CreatorInv /\ RecordInv

\* Before the first start there are no keys, tickets or records.
LEMMA InitKeyInv == Init => KeyInv
BY NilAssumption
   DEF Init, KeyInv, TicketInv, CreatorInv, RecordInv, Creating, Stamped

\* A step that leaves the key, the tickets and the server alone and moves one
\* handler to a place outside of CreateNote keeps what is known of the others.
LEMMA LeaveCreate ==
    ASSUME Types, KeyInv, NEW p \in Procs, NEW label, NEW j, Goto(p, label, j),
           label \notin Creating, UNCHANGED tickets
    PROVE  CreatorInv'
BY DEF Types, TypeOK, KeyInv, CreatorInv, Goto, Stamped

\* A handler that answers is no longer in the middle of a create.
LEMMA AnswerLeavesCreate ==
    ASSUME Types, KeyInv, NEW p \in Procs, NEW status, NEW note, Answer(p, status, note),
           UNCHANGED tickets
    PROVE  CreatorInv'
BY LeaveCreate DEF Answer, Creating

\* Deleting both records of some ids, and any markers, keeps the rest in order.
LEMMA DeleteRecordInv ==
    ASSUME Types, KeyInv, NEW ids, DeleteNoteRecords(ids), UNCHANGED <<tickets, created>>,
           \A id \in Ids : usedTickets'[id] \in {usedTickets[id], Nil}
    PROVE  RecordInv'
BY DEF Types, TypeOK, KeyInv, RecordInv, DeleteNoteRecords, ValidMetadata

\* A cleanup deletes records whole, so what it leaves is still legal.
LEMMA CleanupRecordInv ==
    ASSUME Types, KeyInv, NEW t, Cleanup(t), UNCHANGED <<tickets, created>>
    PROVE  RecordInv'
<1>1. \A id \in Ids : usedTickets'[id] \in {usedTickets[id], Nil}
  BY DEF Cleanup, Types, TypeOK
<1> QED
  BY <1>1, DeleteRecordInv DEF Cleanup

\* A ticket in hand that verifyTicket accepts under an existing root key is the
\* one that was issued for the path's id.
LEMMA VerifiedTicketIssued ==
    ASSUME Types, KeyInv, rootKey # 0, NEW id \in Ids, NEW token \in Tokens,
           NEW ticket \in TicketsInHand(id, token), VerifyTicket(ticket, id, token)
    PROVE  tickets[id] # Nil /\ ticket = tickets[id]
BY DEF Types, TypeOK, KeyInv, TicketInv, TicketsInHand, ForeignTicket, VerifyTicket,
       ValidTicketPayload

\* Every step preserves what ties tickets, creates and records to the root key.
LEMMA NextKeyInv == Types /\ Types' /\ NoteInv /\ KeyInv /\ [Next]_vars => KeyInv'
<1> SUFFICES ASSUME Types, Types', NoteInv, KeyInv, [Next]_vars PROVE KeyInv'
  OBVIOUS
<1>k. ASSUME UNCHANGED <<rootKey, tickets, server, sweepAt>> PROVE TicketInv'
  BY <1>k DEF KeyInv, TicketInv
<1>r. ASSUME UNCHANGED <<metadata, payloads, usedTickets, tickets, created>> PROVE RecordInv'
  BY <1>r DEF KeyInv, RecordInv, ValidMetadata
<1>c. ASSUME UNCHANGED <<pc, job, tickets>> PROVE CreatorInv'
  BY <1>c DEF KeyInv, CreatorInv
<1>1. CASE OpenDB
  <2>1. TicketInv'
    BY <1>1 DEF OpenDB, KeyInv, TicketInv, history
  <2> QED
    BY <1>1, <2>1, <1>r, <1>c DEF OpenDB, KeyInv, history
<1>2. CASE EnsureRootKeys
  <2>1. TicketInv'
    BY <1>2 DEF EnsureRootKeys, KeyInv, TicketInv, history, Types, TypeOK
  <2> QED
    BY <1>2, <2>1, <1>r, <1>c DEF EnsureRootKeys, KeyInv, history
<1>3. CASE MaintenanceReadsClock
  <2>1. TicketInv'
    BY <1>3 DEF MaintenanceReadsClock, KeyInv, TicketInv, db, history
  <2> QED
    BY <1>3, <2>1, <1>r, <1>c DEF MaintenanceReadsClock, db, history, KeyInv
<1>15. CASE Tick \/ ClockSetBack \/ UNCHANGED vars
  BY <1>15, <1>k, <1>r, <1>c
     DEF Tick, ClockSetBack, vars, db, history, KeyInv
<1>4. CASE MaintenanceCommits
  <2>1. TicketInv'
    BY <1>4 DEF MaintenanceCommits, KeyInv, TicketInv, history, Types, TypeOK
  <2>2. RecordInv'
    BY <1>4, <1>r, CleanupRecordInv DEF MaintenanceCommits, history
  <2> QED
    BY <1>4, <2>1, <2>2, <1>c DEF MaintenanceCommits, KeyInv, history
<1>5. CASE CreateTicket
  <2>1. PICK id \in Ids, token \in Tokens :
          /\ tickets[id] = Nil
          /\ tickets' = [tickets EXCEPT ![id] =
                [id |-> id, iat |-> now, exp |-> now + TicketTimeout,
                 verifier |-> BurnTokenVerifier(rootKey, token), signedBy |-> rootKey]]
    BY <1>5 DEF CreateTicket
  <2>2. /\ \A i \in Ids \ {id} : tickets'[i] = tickets[i]
        /\ tickets'[id].id = id /\ tickets'[id].verifier[1] = rootKey
    BY <2>1 DEF Types, TypeOK, BurnTokenVerifier
  <2>3. rootKey # 0 /\ UNCHANGED <<rootKey, server, sweepAt, metadata, payloads, usedTickets,
                                   created, pc, job>>
    BY <1>5 DEF CreateTicket, KeyInv, TicketInv, db
  <2>4. TicketInv'
    BY <2>2, <2>3 DEF KeyInv, TicketInv
  <2>5. \A p \in Procs : pc[p] \in Creating => job[p].id \in Ids \ {id}
    BY <2>1 DEF Types, CreatorType, KeyInv, CreatorInv
  <2>6. CreatorInv'
    BY <2>2, <2>3, <2>5 DEF KeyInv, CreatorInv
  <2>7. /\ metadata[id] = Nil /\ usedTickets[id] = Nil /\ ~(created[id] > 0)
        /\ payloads[id] = Nil
    BY <2>1 DEF KeyInv, RecordInv
  <2>8. RecordInv'
    BY <2>2, <2>3, <2>7 DEF KeyInv, RecordInv, ValidMetadata
  <2> QED
    BY <2>4, <2>6, <2>8 DEF KeyInv
<1>6. ASSUME NEW p \in Procs, BeginCreateNote(p) PROVE KeyInv'
  <2>0. PICK id \in Ids, token \in Tokens, body \in Bodies, life \in Lifetimes :
          \E ticket \in TicketsInHand(id, token) :
          LET status == CreateRejection(id, ticket, token, body, life) IN
          IF status # 0
          THEN Goto(p, "reply", [NoJob EXCEPT !.status = status])
          ELSE Goto(p, "verified", [NoJob EXCEPT !.id = id, !.exp = ticket.exp,
                                    !.verifier = ticket.verifier, !.life = life])
    BY <1>6 DEF BeginCreateNote
  <2>1. PICK ticket \in TicketsInHand(id, token) :
          LET status == CreateRejection(id, ticket, token, body, life) IN
          IF status # 0
          THEN Goto(p, "reply", [NoJob EXCEPT !.status = status])
          ELSE Goto(p, "verified", [NoJob EXCEPT !.id = id, !.exp = ticket.exp,
                                    !.verifier = ticket.verifier, !.life = life])
    BY <2>0
  <2>frame. /\ UNCHANGED <<rootKey, tickets, server, sweepAt, metadata, payloads, usedTickets, created>>
            /\ rootKey # 0
    BY <1>6 DEF BeginCreateNote, db, history, KeyInv, TicketInv
  <2> DEFINE status == CreateRejection(id, ticket, token, body, life)
             good   == [NoJob EXCEPT !.id = id, !.exp = ticket.exp,
                                     !.verifier = ticket.verifier, !.life = life]
  <2>2. CASE status # 0
    <3>1. \E j : Goto(p, "reply", j)
      BY <2>1, <2>2
    <3>2. CreatorInv'
      BY <3>1, <2>frame, LeaveCreate DEF Creating
    <3> QED
      BY <3>2, <2>frame, <1>k, <1>r DEF KeyInv
  <2>3. CASE status = 0
    <3>1. ValidLifetime(life) /\ VerifyTicket(ticket, id, token)
      BY <2>3 DEF CreateRejection
    <3>2. tickets[id] # Nil /\ ticket = tickets[id]
      BY <3>1, <2>frame, VerifiedTicketIssued
    <3>3. /\ good.id = id /\ good.exp = tickets[id].exp
          /\ good.verifier = tickets[id].verifier /\ good.life = life
      BY <3>2 DEF NoJob
    <3>4. Goto(p, "verified", good)
      BY <2>1, <2>3
    <3> HIDE DEF good
    <3>5. CreatorInv'
      BY <3>1, <3>2, <3>3, <3>4, <2>frame
         DEF KeyInv, CreatorInv, Goto, Types, TypeOK, Creating, Stamped, ValidLifetime
    <3> QED
      BY <3>5, <2>frame, <1>k, <1>r DEF KeyInv
  <2> QED
    BY <2>2, <2>3
<1>7. ASSUME NEW p \in Procs, StampNote(p) PROVE KeyInv'
  <2> DEFINE j == [job[p] EXCEPT !.stamp = now]
  <2>1. /\ j.id = job[p].id /\ j.verifier = job[p].verifier /\ j.exp = job[p].exp
        /\ j.life = job[p].life /\ j.stamp # 0
    BY DEF Types, TypeOK, Job
  <2> HIDE DEF j
  <2>2. Goto(p, "stamped", j) /\ pc[p] \in Creating
    BY <1>7 DEF StampNote, j, Creating
  <2>3. UNCHANGED <<rootKey, tickets, server, sweepAt, metadata, payloads, usedTickets, created>>
    BY <1>7 DEF StampNote, db, history
  <2>4. CreatorInv'
    BY <2>1, <2>2, <2>3
       DEF KeyInv, CreatorInv, Goto, Types, TypeOK, Creating, Stamped, ValidLifetime
  <2> QED
    BY <2>3, <2>4, <1>k, <1>r DEF KeyInv
<1>8. ASSUME NEW p \in Procs, TryCreate(p) PROVE KeyInv'
  <2> DEFINE j == job[p]
  <2>1. UNCHANGED <<rootKey, tickets, server, sweepAt>> /\ pc[p] \in Stamped /\ pc[p] \in Creating
    BY <1>8 DEF TryCreate, Stamped, Creating
  <2>2. CASE StoreNote(j) /\ Answer(p, 201, Nil)
    <3>1. /\ j.id \in Ids /\ tickets[j.id] # Nil /\ j.verifier = tickets[j.id].verifier
          /\ j.exp = tickets[j.id].exp /\ ValidLifetime(j.life) /\ j.stamp # 0
          /\ j.stamp \in Nat /\ j.life \in Nat
      BY <2>1 DEF KeyInv, CreatorInv, Types, CreatorType, TypeOK, Job
    <3> DEFINE m == NewMetadata(j)
    <3>2. m \in Metadata /\ m.verifier = tickets[j.id].verifier /\ ValidMetadata(m)
      BY <3>1, TimesAssumption
         DEF NewMetadata, Metadata, ValidMetadata, ValidLifetime, Types, CreatorType, TypeOK, Ticket
    <3>3. m # Nil /\ <<j.id, created[j.id] + 1>> # Nil /\ j.exp # Nil
      <4>1. created[j.id] + 1 \in Nat /\ j.exp \in Nat
        BY <3>1 DEF Types, TypeOK, Job
      <4> QED
        BY <3>1, <3>2, <4>1, NilAssumption DEF Metadata, Verifier
    <3> HIDE DEF m
    <3>4. /\ metadata'[j.id] = m /\ payloads'[j.id] = <<j.id, created[j.id] + 1>>
          /\ usedTickets'[j.id] = j.exp /\ created'[j.id] > 0
          /\ \A i \in Ids \ {j.id} :
                /\ metadata'[i] = metadata[i] /\ payloads'[i] = payloads[i]
                /\ usedTickets'[i] = usedTickets[i] /\ created'[i] = created[i]
      BY <2>2, <3>1 DEF StoreNote, Types, TypeOK, m
    <3>5. RecordInv'
      BY <2>1, <3>1, <3>2, <3>3, <3>4 DEF KeyInv, RecordInv, ValidMetadata
    <3>6. CreatorInv'
      BY <2>1, <2>2, AnswerLeavesCreate
    <3> QED
      BY <2>1, <3>5, <3>6, <1>k DEF KeyInv
  <2>3. CASE /\ \E status : Answer(p, status, Nil)
             /\ UNCHANGED <<metadata, payloads, usedTickets, created>>
    BY <2>1, <2>3, <1>k, <1>r, AnswerLeavesCreate DEF KeyInv
  <2>4. CASE Goto(p, "full", j) /\ UNCHANGED <<metadata, payloads, usedTickets, created>>
    <3>1. CreatorInv'
      BY <2>1, <2>4 DEF KeyInv, CreatorInv, Goto, Types, TypeOK, ValidLifetime
    <3> QED
      BY <2>1, <2>4, <3>1, <1>k, <1>r DEF KeyInv
  <2> QED
    BY <1>8, <2>2, <2>3, <2>4 DEF TryCreate
<1>9. ASSUME NEW p \in Procs, SweepReadsClock(p) PROVE KeyInv'
  <2> DEFINE j == [job[p] EXCEPT !.at = now]
  <2>1. /\ j.id = job[p].id /\ j.verifier = job[p].verifier /\ j.exp = job[p].exp
        /\ j.life = job[p].life /\ j.stamp = job[p].stamp
    BY DEF Types, TypeOK, Job
  <2> HIDE DEF j
  <2>2. Goto(p, "sweeping", j) /\ pc[p] \in Creating /\ pc[p] \in Stamped
    BY <1>9 DEF SweepReadsClock, j, Creating, Stamped
  <2>3. UNCHANGED <<rootKey, tickets, server, sweepAt, metadata, payloads, usedTickets, created>>
    BY <1>9 DEF SweepReadsClock, db, history
  <2>4. CreatorInv'
    BY <2>1, <2>2, <2>3 DEF KeyInv, CreatorInv, Goto, Types, TypeOK, ValidLifetime
  <2> QED
    BY <2>3, <2>4, <1>k, <1>r DEF KeyInv
<1>10. ASSUME NEW p \in Procs, SweepCommits(p) PROVE KeyInv'
  <2>1. /\ UNCHANGED <<rootKey, tickets, server, sweepAt, created>>
        /\ pc[p] \in Stamped /\ pc[p] \in Creating
    BY <1>10 DEF SweepCommits, history, Stamped, Creating
  <2>2. RecordInv'
    BY <1>10, <2>1, <1>r, CleanupRecordInv DEF SweepCommits
  <2>3. CreatorInv'
    <3>1. CASE Goto(p, "retry", job[p])
      BY <2>1, <3>1 DEF KeyInv, CreatorInv, Goto, Types, TypeOK, ValidLifetime
    <3>2. CASE Answer(p, 500, Nil)
      BY <2>1, <3>2, AnswerLeavesCreate
    <3> QED
      BY <1>10, <3>1, <3>2 DEF SweepCommits
  <2> QED
    BY <2>1, <2>2, <2>3, <1>k DEF KeyInv
<1>11. ASSUME NEW p \in Procs, BeginOpenNote(p) PROVE KeyInv'
  <2>1. \E j : Goto(p, "reply", j) \/ Goto(p, "opening", j)
    BY <1>11 DEF BeginOpenNote
  <2>2. UNCHANGED <<rootKey, tickets, server, sweepAt, metadata, payloads, usedTickets, created>>
    BY <1>11 DEF BeginOpenNote, db, history
  <2>3. CreatorInv'
    BY <2>1, <2>2, LeaveCreate DEF Creating
  <2> QED
    BY <2>2, <2>3, <1>k, <1>r DEF KeyInv
<1>12. ASSUME NEW p \in Procs, OpenNote(p) PROVE KeyInv'
  <2>1. UNCHANGED <<rootKey, tickets, server, sweepAt, created, usedTickets>>
    BY <1>12 DEF OpenNote, history
  <2>2. RecordInv'
    BY <1>12, <2>1, <1>r, DeleteRecordInv DEF OpenNote
  <2>3. CreatorInv'
    BY <1>12, <2>1, AnswerLeavesCreate DEF OpenNote
  <2> QED
    BY <2>1, <2>2, <2>3, <1>k DEF KeyInv
<1>13. ASSUME NEW p \in Procs, Reply(p) PROVE KeyInv'
  <2>1. UNCHANGED <<rootKey, tickets, server, sweepAt, metadata, payloads, usedTickets, created>>
    BY <1>13 DEF Reply, db
  <2>2. CreatorInv'
    BY <1>13, <2>1, LeaveCreate DEF Reply, Creating
  <2> QED
    BY <2>1, <2>2, <1>k, <1>r DEF KeyInv
<1>14. CASE Crash
  <2>1. TicketInv'
    BY <1>14 DEF Crash, db, history, KeyInv, TicketInv
  <2>2. CreatorInv'
    BY <1>14 DEF Crash, CreatorInv, Creating, Stamped
  <2> QED
    BY <1>14, <2>1, <2>2, <1>r DEF Crash, db, history, KeyInv
<1> QED
  BY <1>1, <1>2, <1>3, <1>4, <1>5, <1>6, <1>7, <1>8, <1>9, <1>10, <1>11, <1>12,
     <1>13, <1>14, <1>15 DEF Next, Maintenance, Handler

\* KeyInv is inductive on top of Types and NoteInv.
LEMMA KeyInvariance == Spec => [](Types /\ NoteInv /\ KeyInv)
<1>1. Types /\ NoteInv /\ KeyInv /\ [Next]_vars => (Types /\ NoteInv /\ KeyInv)'
  BY NextTypes, NextNoteStep, NoteStepInv, NextKeyInv
<1> QED
  BY <1>1, InitTypes, InitNoteInv, InitKeyInv, PTL DEF Spec

\* A note in the database can be opened with the burn token that its creator
\* got: the root key never changes once it has signed a ticket, so the stored
\* verifier is the one OpenNote computes, also after crashes and restarts.
THEOREM Openable == Spec => []StoredNotesOpenable
<1>1. Types /\ KeyInv => StoredNotesOpenable
  <2> SUFFICES ASSUME Types, KeyInv, NEW id \in Ids, metadata[id] # Nil
               PROVE  metadata[id].verifier
                         = BurnTokenVerifier(rootKey, tickets[id].verifier[2])
    BY DEF KeyInv, RecordInv, StoredNotesOpenable
  <2>1. tickets[id] # Nil /\ metadata[id].verifier = tickets[id].verifier
        /\ tickets[id].verifier[1] = rootKey
    BY DEF KeyInv, RecordInv, TicketInv
  <2>2. tickets[id].verifier \in Nat \X Tokens
    BY <2>1 DEF Types, TypeOK, Ticket, Verifier
  <2> QED
    BY <2>1, <2>2 DEF BurnTokenVerifier
<1> QED
  BY <1>1, KeyInvariance, PTL

\* A step that sets the status 409 is the create transaction that found the
\* ticket's marker or records.
LEMMA ConflictStep ==
    ASSUME Types, NoteInv, KeyInv, Next, NEW p \in Procs,
           job[p].status # 409, job'[p].status = 409
    PROVE  created[job[p].id] > 0
<1>1. CASE OpenDB \/ EnsureRootKeys \/ MaintenanceReadsClock \/ MaintenanceCommits
           \/ CreateTicket \/ Tick \/ ClockSetBack
  BY <1>1 DEF OpenDB, EnsureRootKeys, MaintenanceReadsClock, MaintenanceCommits,
              CreateTicket, Tick, ClockSetBack
<1>2. CASE Crash
  BY <1>2 DEF Crash, NoJob
<1>3. ASSUME NEW q \in Procs, NEW label, NEW j, Goto(q, label, j) PROVE q = p /\ j.status = 409
  BY <1>3 DEF Goto, Types, TypeOK
<1>4. ASSUME NEW q \in Procs, NEW status, NEW note, Answer(q, status, note)
      PROVE  q = p /\ status = 409
  <2> DEFINE j == [NoJob EXCEPT !.status = status, !.note = note]
  <2>1. j.status = status
    BY DEF NoJob
  <2>2. Goto(q, "reply", j)
    BY <1>4 DEF Answer
  <2> HIDE DEF j
  <2>3. q = p /\ j.status = 409
    BY <2>2, <1>3
  <2> QED
    BY <2>1, <2>3
<1>5. ASSUME NEW q \in Procs, BeginCreateNote(q) PROVE FALSE
  <2>0. PICK id \in Ids, token \in Tokens, body \in Bodies, life \in Lifetimes :
          \E ticket \in TicketsInHand(id, token) :
          LET status == CreateRejection(id, ticket, token, body, life) IN
          IF status # 0
          THEN Goto(q, "reply", [NoJob EXCEPT !.status = status])
          ELSE Goto(q, "verified", [NoJob EXCEPT !.id = id, !.exp = ticket.exp,
                                    !.verifier = ticket.verifier, !.life = life])
    BY <1>5 DEF BeginCreateNote
  <2>1. PICK ticket \in TicketsInHand(id, token) :
          LET status == CreateRejection(id, ticket, token, body, life) IN
          IF status # 0
          THEN Goto(q, "reply", [NoJob EXCEPT !.status = status])
          ELSE Goto(q, "verified", [NoJob EXCEPT !.id = id, !.exp = ticket.exp,
                                    !.verifier = ticket.verifier, !.life = life])
    BY <2>0
  <2> DEFINE status == CreateRejection(id, ticket, token, body, life)
             bad    == [NoJob EXCEPT !.status = status]
             good   == [NoJob EXCEPT !.id = id, !.exp = ticket.exp,
                                     !.verifier = ticket.verifier, !.life = life]
  <2>2. status # 409
    BY DEF CreateRejection
  <2>3. bad.status # 409 /\ good.status # 409
    BY <2>2 DEF NoJob
  <2>4. Goto(q, "reply", bad) \/ Goto(q, "verified", good)
    BY <2>1
  <2> HIDE DEF bad, good
  <2> QED
    BY <2>3, <2>4, <1>3
<1>6. ASSUME NEW q \in Procs, BeginOpenNote(q) PROVE FALSE
  <2>1. PICK id \in Ids, token \in Tokens, body \in Bodies :
          LET status == OpenRejection(body) IN
          IF status # 0
          THEN Goto(q, "reply", [NoJob EXCEPT !.status = status])
          ELSE Goto(q, "opening", [NoJob EXCEPT !.id = id, !.token = token, !.at = now])
    BY <1>6 DEF BeginOpenNote
  <2> DEFINE bad  == [NoJob EXCEPT !.status = OpenRejection(body)]
             good == [NoJob EXCEPT !.id = id, !.token = token, !.at = now]
  <2>2. bad.status # 409 /\ good.status # 409
    BY DEF NoJob, OpenRejection
  <2>3. Goto(q, "reply", bad) \/ Goto(q, "opening", good)
    BY <2>1
  <2> HIDE DEF bad, good
  <2> QED
    BY <2>2, <2>3, <1>3
<1>7. ASSUME NEW q \in Procs, StampNote(q) \/ SweepReadsClock(q) \/ SweepCommits(q) \/ Reply(q)
      PROVE  FALSE
  <2> DEFINE stamped == [job[q] EXCEPT !.stamp = now]
             reading == [job[q] EXCEPT !.at = now]
  <2>1. /\ stamped.status = job[q].status /\ reading.status = job[q].status
        /\ NoJob.status # 409
    BY DEF Types, TypeOK, Job, NoJob
  <2>2. \/ Goto(q, "stamped", stamped) \/ Goto(q, "sweeping", reading)
        \/ Goto(q, "retry", job[q]) \/ Answer(q, 500, Nil) \/ Goto(q, "idle", NoJob)
    BY <1>7 DEF StampNote, SweepReadsClock, SweepCommits, Reply
  <2> HIDE DEF stamped, reading
  <2> QED
    BY <1>3, <1>4, <2>1, <2>2
<1>8. ASSUME NEW q \in Procs, OpenNote(q) PROVE FALSE
  BY <1>4, <1>8 DEF OpenNote
<1>9. ASSUME NEW q \in Procs, TryCreate(q) PROVE created[job[p].id] > 0
  <2>1. q = p
    BY <1>3, <1>4, <1>9 DEF TryCreate
  <2>2. ~Unused(job[p].id) /\ job[p].id \in Ids
    BY <1>3, <1>4, <1>9, <2>1 DEF TryCreate, Types, CreatorType, Creating
  <2> QED
    BY <2>2 DEF Unused, KeyInv, RecordInv, NoteInv
<1> QED
  BY <1>1, <1>2, <1>5, <1>6, <1>7, <1>8, <1>9 DEF Next, Maintenance, Handler

\* ErrTicketUnusable is answered only for a ticket that has made a note: no
\* client is refused because of another client's ticket, a rolled back commit
\* or a cleanup.
THEOREM ConflictSound == Spec => ConflictMeansUsed
<1>1. Types /\ NoteInv /\ KeyInv /\ [Next]_vars =>
         [\A p \in Procs : job[p].status # 409 /\ job'[p].status = 409 =>
             created[job[p].id] > 0]_vars
  BY ConflictStep
<1> QED
  BY <1>1, KeyInvariance, PTL DEF Spec, ConflictMeansUsed

-----------------------------------------------------------------------------
(* What holds while the wall clock only goes forward *)

\* Clock readings that a sweep still has to use are not ahead of the clock.
ReadingsInv ==
    setBacks = 0 =>
       /\ sweepAt # Nil => sweepAt =< now
       /\ \A p \in Procs : pc[p] \in {"sweeping", "opening"} => job[p].at =< now

\* With that, the marker of a used ticket is there until the ticket has expired.
ClockInv == ReadingsInv /\ MarkerOutlivesTicket

\* A cleanup whose reading is not ahead of the clock keeps the markers of the
\* tickets that are still valid.
LEMMA CleanupKeepsMarkers ==
    ASSUME Types, KeyInv, MarkerOutlivesTicket, NEW t \in Nat, t =< now, Cleanup(t),
           setBacks = 0, UNCHANGED <<now, tickets, created>>
    PROVE  MarkerOutlivesTicket'
<1> SUFFICES ASSUME NEW id \in Ids, created[id] > 0, tickets[id].exp >= now
             PROVE  usedTickets'[id] # Nil
  BY DEF MarkerOutlivesTicket
<1>1. tickets[id] # Nil /\ usedTickets[id] # Nil /\ usedTickets[id] = tickets[id].exp
  BY DEF KeyInv, RecordInv, MarkerOutlivesTicket
<1>2. now \in Nat /\ tickets[id].exp \in Nat
  BY <1>1 DEF Types, TypeOK, Ticket
<1>3. id \notin ExpiredMarkers(t)
  BY <1>1, <1>2 DEF ExpiredMarkers
<1> QED
  BY <1>1, <1>3 DEF Cleanup

\* The clock that has not been set back after a step was not set back before it.
LEMMA NotSetBack ==
    ASSUME Types, [Next]_vars, setBacks' = 0
    PROVE  setBacks = 0 /\ ~ClockSetBack
<1>1. setBacks \in Nat
  BY BoundsAssumption DEF Types, TypeOK
<1>2. CASE UNCHANGED vars
  BY <1>1, <1>2 DEF vars, budgets, ClockSetBack
<1>3. CASE OpenDB \/ EnsureRootKeys \/ MaintenanceReadsClock \/ MaintenanceCommits
           \/ CreateTicket \/ Tick \/ ClockSetBack \/ Crash
  BY <1>1, <1>3 DEF OpenDB, EnsureRootKeys, MaintenanceReadsClock, MaintenanceCommits,
                    CreateTicket, Tick, ClockSetBack, Crash, budgets
<1>4. ASSUME NEW p \in Procs, BeginCreateNote(p) \/ BeginOpenNote(p)
      PROVE  setBacks' = setBacks
  BY <1>4 DEF BeginCreateNote, BeginOpenNote, budgets
<1>5. ASSUME NEW p \in Procs, StampNote(p) \/ TryCreate(p) \/ SweepReadsClock(p)
                              \/ SweepCommits(p) \/ OpenNote(p) \/ Reply(p)
      PROVE  setBacks' = setBacks
  BY <1>5 DEF StampNote, TryCreate, SweepReadsClock, SweepCommits, OpenNote, Reply, budgets
<1>6. setBacks = 0
  BY <1>2, <1>3, <1>4, <1>5 DEF Next, Maintenance, Handler
<1> QED
  BY <1>1, <1>6 DEF ClockSetBack

\* Every step preserves ClockInv: as long as the clock is not set back, the readings
\* that cleanups hold are not ahead of it.
LEMMA NextClockInv ==
    ASSUME Types, Types', NoteInv, KeyInv, ClockInv, [Next]_vars
    PROVE  ClockInv'
<1> SUFFICES ASSUME setBacks' = 0 PROVE ClockInv'
  BY DEF ClockInv, ReadingsInv, MarkerOutlivesTicket
<1>s. setBacks = 0 /\ ~ClockSetBack
  BY NotSetBack
<1> USE <1>s
<1>t. /\ now \in Nat /\ now' \in Nat
      /\ \A p \in Procs : job[p].at \in Nat
      /\ sweepAt # Nil => sweepAt \in Nat
  BY DEF Types, TypeOK, Job
<1>m. ASSUME UNCHANGED <<now, tickets, created, usedTickets>> PROVE MarkerOutlivesTicket'
  BY <1>m DEF ClockInv, ReadingsInv, MarkerOutlivesTicket
<1>g. ASSUME NEW p \in Procs, NEW label, NEW j, Goto(p, label, j), UNCHANGED <<now, sweepAt>>,
             label \in {"sweeping", "opening"} => j.at =< now, MarkerOutlivesTicket'
      PROVE  ClockInv'
  BY <1>g DEF ClockInv, ReadingsInv, Goto, Types, TypeOK
<1>a. ASSUME NEW p \in Procs, NEW status, NEW note, Answer(p, status, note),
             UNCHANGED <<now, sweepAt>>, MarkerOutlivesTicket'
      PROVE  ClockInv'
  BY <1>a, <1>g DEF Answer
<1>1. CASE OpenDB \/ EnsureRootKeys \/ UNCHANGED vars
  BY <1>1, <1>m DEF OpenDB, EnsureRootKeys, vars, db, history, ClockInv, ReadingsInv
<1>2. CASE MaintenanceReadsClock
  BY <1>2, <1>m, <1>t DEF MaintenanceReadsClock, db, history, ClockInv, ReadingsInv
<1>3. CASE MaintenanceCommits
  <2>1. MarkerOutlivesTicket'
    BY <1>3, <1>m, <1>t, CleanupKeepsMarkers DEF MaintenanceCommits, history, ClockInv, ReadingsInv
  <2> QED
    BY <1>3, <2>1 DEF MaintenanceCommits, ClockInv, ReadingsInv
<1>4. CASE CreateTicket
  <2>1. \A id \in Ids : created[id] > 0 => tickets'[id] = tickets[id]
    BY <1>4 DEF CreateTicket, KeyInv, RecordInv, Types, TypeOK
  <2>2. MarkerOutlivesTicket'
    BY <1>4, <2>1 DEF CreateTicket, ClockInv, ReadingsInv, MarkerOutlivesTicket, db
  <2> QED
    BY <1>4, <2>2 DEF CreateTicket, ClockInv, ReadingsInv
<1>5. ASSUME NEW p \in Procs, BeginCreateNote(p) PROVE ClockInv'
  <2>1. \E j : Goto(p, "reply", j) \/ Goto(p, "verified", j)
    BY <1>5 DEF BeginCreateNote
  <2>2. UNCHANGED <<now, sweepAt, tickets, created, usedTickets>>
    BY <1>5 DEF BeginCreateNote, db, history
  <2> QED
    BY <2>1, <2>2, <1>g, <1>m
<1>6. ASSUME NEW p \in Procs, StampNote(p) PROVE ClockInv'
  BY <1>6, <1>g, <1>m DEF StampNote, db, history
<1>7. ASSUME NEW p \in Procs, TryCreate(p) PROVE ClockInv'
  <2>1. UNCHANGED <<now, sweepAt, tickets>>
    BY <1>7 DEF TryCreate
  <2>2. MarkerOutlivesTicket'
    <3>1. CASE UNCHANGED <<usedTickets, created>>
      BY <3>1, <2>1, <1>m
    <3>2. CASE StoreNote(job[p])
      <4>1. job[p].id \in Ids /\ job[p].exp # Nil
        BY <1>7, NilAssumption DEF TryCreate, Types, CreatorType, Creating, TypeOK, Job
      <4> QED
        BY <2>1, <3>2, <4>1 DEF StoreNote, ClockInv, ReadingsInv, MarkerOutlivesTicket, Types, TypeOK
    <3> QED
      BY <1>7, <3>1, <3>2 DEF TryCreate
  <2> QED
    BY <1>7, <2>1, <2>2, <1>g, <1>a DEF TryCreate
<1>8. ASSUME NEW p \in Procs, SweepReadsClock(p) PROVE ClockInv'
  <2>1. [job[p] EXCEPT !.at = now].at =< now
    BY <1>t DEF Types, TypeOK, Job
  <2> QED
    BY <1>8, <2>1, <1>g, <1>m DEF SweepReadsClock, db, history
<1>9. ASSUME NEW p \in Procs, SweepCommits(p) PROVE ClockInv'
  <2>1. UNCHANGED <<now, sweepAt, tickets, created>> /\ job[p].at =< now
    BY <1>9 DEF SweepCommits, history, ClockInv, ReadingsInv
  <2>2. MarkerOutlivesTicket'
    BY <1>9, <2>1, <1>m, <1>t, CleanupKeepsMarkers DEF SweepCommits, ClockInv, ReadingsInv
  <2> QED
    BY <1>9, <2>1, <2>2, <1>g, <1>a DEF SweepCommits
<1>10. ASSUME NEW p \in Procs, BeginOpenNote(p) PROVE ClockInv'
  <2>0. PICK id, token, status :
          \/ Goto(p, "reply", [NoJob EXCEPT !.status = status])
          \/ Goto(p, "opening", [NoJob EXCEPT !.id = id, !.token = token, !.at = now])
    BY <1>10 DEF BeginOpenNote
  <2> DEFINE good == [NoJob EXCEPT !.id = id, !.token = token, !.at = now]
  <2>1. good.at =< now
    BY <1>t DEF NoJob
  <2>3. (\E j : Goto(p, "reply", j)) \/ Goto(p, "opening", good)
    BY <2>0
  <2> HIDE DEF good
  <2>2. UNCHANGED <<now, sweepAt, tickets, created, usedTickets>>
    BY <1>10 DEF BeginOpenNote, db, history
  <2> QED
    BY <2>1, <2>2, <2>3, <1>g, <1>m
<1>11. ASSUME NEW p \in Procs, OpenNote(p) PROVE ClockInv'
  BY <1>11, <1>a, <1>m DEF OpenNote, history
<1>12. ASSUME NEW p \in Procs, Reply(p) PROVE ClockInv'
  BY <1>12, <1>g, <1>m DEF Reply, db
<1>13. CASE Tick
  <2>1. MarkerOutlivesTicket'
    <3> SUFFICES ASSUME NEW id \in Ids, created[id] > 0, tickets[id].exp >= now + 1
                 PROVE  usedTickets[id] # Nil
      BY <1>13 DEF Tick, MarkerOutlivesTicket, db, history
    <3>1. tickets[id].exp \in Nat
      BY DEF KeyInv, RecordInv, Types, TypeOK, Ticket
    <3> QED
      BY <3>1, <1>t DEF ClockInv, ReadingsInv, MarkerOutlivesTicket
  <2> QED
    BY <1>13, <2>1, <1>t DEF Tick, ClockInv, ReadingsInv
<1>14. CASE ClockSetBack
  BY <1>14
<1>15. CASE Crash
  BY <1>15, <1>m DEF Crash, db, history, ClockInv, ReadingsInv
<1> QED
  BY <1>1, <1>2, <1>3, <1>4, <1>5, <1>6, <1>7, <1>8, <1>9, <1>10, <1>11, <1>12,
     <1>13, <1>14, <1>15 DEF Next, Maintenance, Handler

\* ClockInv is inductive on top of the other invariants.
LEMMA ClockInvariance == Spec => [](Types /\ NoteInv /\ KeyInv /\ ClockInv)
<1>1. Init => ClockInv
  BY DEF Init, ClockInv, ReadingsInv, MarkerOutlivesTicket
<1>2. Types /\ NoteInv /\ KeyInv /\ ClockInv /\ [Next]_vars
         => (Types /\ NoteInv /\ KeyInv /\ ClockInv)'
  BY NextTypes, NextNoteStep, NoteStepInv, NextKeyInv, NextClockInv
<1> QED
  BY <1>1, <1>2, InitTypes, InitNoteInv, InitKeyInv, PTL DEF Spec

\* As long as the wall clock is not set back, a used ticket is remembered until
\* verifyTicket would refuse it anyway.
THEOREM MarkersKept == Spec => []MarkerOutlivesTicket
<1>1. ClockInv => MarkerOutlivesTicket
  BY DEF ClockInv
<1> QED
  BY <1>1, ClockInvariance, PTL

\* Only the create transaction that finds no marker and no records adds a note.
LEMMA CreationStep ==
    ASSUME Types, Next, created' # created
    PROVE  \E p \in Procs : /\ pc[p] \in Creating
                            /\ Unused(job[p].id) /\ StoreNote(job[p])
<1>1. CASE OpenDB \/ EnsureRootKeys \/ MaintenanceReadsClock \/ MaintenanceCommits
           \/ CreateTicket \/ Tick \/ ClockSetBack \/ Crash
  BY <1>1 DEF OpenDB, EnsureRootKeys, MaintenanceReadsClock, MaintenanceCommits,
              CreateTicket, Tick, ClockSetBack, Crash, history
<1>2. ASSUME NEW p \in Procs, BeginCreateNote(p) \/ BeginOpenNote(p) PROVE FALSE
  BY <1>2 DEF BeginCreateNote, BeginOpenNote, history
<1>3. ASSUME NEW p \in Procs, StampNote(p) \/ SweepReadsClock(p) \/ SweepCommits(p)
                              \/ OpenNote(p) \/ Reply(p)
      PROVE  FALSE
  BY <1>3 DEF StampNote, SweepReadsClock, SweepCommits, OpenNote, Reply, history
<1>4. ASSUME NEW p \in Procs, TryCreate(p)
      PROVE  pc[p] \in Creating /\ Unused(job[p].id) /\ StoreNote(job[p])
  BY <1>4 DEF TryCreate, Creating
<1> QED
  BY <1>1, <1>2, <1>3, <1>4 DEF Next, Maintenance, Handler

\* As long as the wall clock is not set back, a ticket that has not expired
\* makes one note: a second create of the same request, or one that was slow
\* since verifyTicket, finds the marker.
THEOREM NoReuse == Spec => NoReuseWhileValid
<1> DEFINE Step ==
      \A id \in Ids :
         setBacks = 0 /\ created'[id] > created[id] /\ tickets[id].exp >= now =>
            created[id] = 0
<1>1. Types /\ KeyInv /\ ClockInv /\ [Next]_vars => [Step]_vars
  <2> SUFFICES ASSUME Types, KeyInv, ClockInv, Next, NEW id \in Ids, setBacks = 0,
                      created'[id] > created[id], tickets[id].exp >= now
               PROVE  created[id] = 0
    OBVIOUS
  <2>1. created \in [Ids -> Nat]
    BY DEF Types, TypeOK
  <2>2. PICK p \in Procs : pc[p] \in Creating /\ Unused(job[p].id) /\ StoreNote(job[p])
    BY <2>1, CreationStep
  <2>3. job[p].id = id
    BY <2>1, <2>2 DEF StoreNote
  <2>4. usedTickets[id] = Nil
    BY <2>2, <2>3 DEF Unused
  <2> QED
    BY <2>1, <2>4 DEF ClockInv, MarkerOutlivesTicket
<1> QED
  BY <1>1, ClockInvariance, PTL DEF Spec, NoReuseWhileValid

-----------------------------------------------------------------------------
(* How notes leave the store *)

\* Cleanup removes a note only if it had expired at the clock reading.
LEMMA CleanupTakesExpired ==
    ASSUME Types, KeyInv, NEW t \in Nat, Cleanup(t), NEW id \in Ids,
           payloads[id] # Nil, payloads'[id] # payloads[id]
    PROVE  metadata[id].expiresAt < t
<1>1. id \in Stale(t)
  BY DEF Cleanup, DeleteNoteRecords
<1>2. ValidMetadata(metadata[id])
  BY <1>1 DEF Stale, KeyInv, RecordInv
<1> QED
  BY <1>1, <1>2 DEF Stale

\* What one step may do to a stored note.
Taken(id) ==
    \/ metadata[id].expiresAt < now /\ \A p \in Procs : job'[p].note # payloads[id]
    \/ \E p \in Procs :
          /\ pc[p] = "opening" /\ job[p].at =< metadata[id].expiresAt
          /\ job[p].id = id /\ job[p].token = tickets[id].verifier[2]
          /\ job'[p].note = payloads[id]

\* A step that takes a note from the database takes an expired one, or is the
\* transaction of an open request with the right token.
LEMMA LeaveStep ==
    ASSUME Types, NoteInv, KeyInv, ClockInv, setBacks = 0, Next, NEW id \in Ids,
           payloads[id] # Nil, payloads'[id] # payloads[id]
    PROVE  Taken(id)
<1>m. metadata[id] # Nil /\ ValidMetadata(metadata[id]) /\ metadata[id].expiresAt \in Nat
  BY DEF KeyInv, RecordInv, Types, TypeOK, Metadata
<1>t. now \in Nat /\ \A p \in Procs : job[p].at \in Nat
  BY DEF Types, TypeOK, Job
<1>n. \A p \in Procs : job[p].note # payloads[id]
  BY DEF NoteInv, OneDeliveryPerNote
<1>1. CASE OpenDB \/ EnsureRootKeys \/ MaintenanceReadsClock
           \/ CreateTicket \/ Tick \/ ClockSetBack \/ Crash
  BY <1>1 DEF OpenDB, EnsureRootKeys, MaintenanceReadsClock,
              CreateTicket, Tick, ClockSetBack, Crash, db
<1>2. CASE MaintenanceCommits
  <2>1. Cleanup(sweepAt) /\ sweepAt \in Nat /\ sweepAt =< now /\ job' = job
    BY <1>2 DEF MaintenanceCommits, ClockInv, ReadingsInv, Types, TypeOK
  <2>2. metadata[id].expiresAt < sweepAt
    BY <2>1, CleanupTakesExpired
  <2> QED
    BY <2>1, <2>2, <1>m, <1>n, <1>t DEF Taken
<1>3. ASSUME NEW p \in Procs, BeginCreateNote(p) \/ BeginOpenNote(p) PROVE FALSE
  BY <1>3 DEF BeginCreateNote, BeginOpenNote, db
<1>4. ASSUME NEW p \in Procs, StampNote(p) \/ SweepReadsClock(p) \/ Reply(p) PROVE FALSE
  BY <1>4 DEF StampNote, SweepReadsClock, Reply, db
<1>5. ASSUME NEW p \in Procs, TryCreate(p) PROVE FALSE
  <2>1. job[p].id \in Ids /\ Unused(job[p].id) /\ StoreNote(job[p])
    BY <1>5 DEF TryCreate, Types, CreatorType, Creating
  <2> QED
    BY <2>1 DEF StoreNote, Unused, Types, TypeOK
<1>6. ASSUME NEW p \in Procs, SweepCommits(p) PROVE Taken(id)
  <2>1. Cleanup(job[p].at) /\ job[p].at =< now
    BY <1>6 DEF SweepCommits, ClockInv, ReadingsInv
  <2>2. metadata[id].expiresAt < job[p].at
    BY <2>1, <1>t, CleanupTakesExpired
  <2>3. Goto(p, "retry", job[p])
    BY <1>6 DEF SweepCommits
  <2>4. job' = job
    BY <2>3 DEF Goto, Types, TypeOK
  <2> QED
    BY <2>1, <2>2, <2>4, <1>m, <1>n, <1>t DEF Taken
<1>7. ASSUME NEW p \in Procs, OpenNote(p) PROVE Taken(id)
  <2>1. /\ DeleteNoteRecords({job[p].id})
        /\ pc[p] = "opening" /\ job[p].at =< now
    BY <1>7 DEF OpenNote, ClockInv, ReadingsInv
  <2>2. job[p].id = id
    BY <2>1 DEF DeleteNoteRecords
  <2>3. metadata[id].verifier = BurnTokenVerifier(rootKey, job[p].token)
    BY <1>7, <2>2, <1>m DEF OpenNote
  <2>4. CASE metadata[id].expiresAt < job[p].at /\ Answer(p, 404, Nil)
    <3> DEFINE j == [NoJob EXCEPT !.status = 404, !.note = Nil]
    <3>1. j.note = Nil
      BY DEF NoJob
    <3>2. Goto(p, "reply", j)
      BY <2>4 DEF Answer
    <3> HIDE DEF j
    <3>3. \A q \in Procs : job'[q].note # payloads[id]
      BY <3>1, <3>2, <1>n DEF Goto, Types, TypeOK
    <3> QED
      BY <2>1, <2>4, <3>3, <1>m, <1>t DEF Taken
  <2>5. CASE job[p].at =< metadata[id].expiresAt /\ Answer(p, 200, payloads[id])
    <3> DEFINE j == [NoJob EXCEPT !.status = 200, !.note = payloads[id]]
    <3>1. j.note = payloads[id]
      BY DEF NoJob
    <3>2. Goto(p, "reply", j)
      BY <2>5 DEF Answer
    <3> HIDE DEF j
    <3>3. job'[p].note = payloads[id]
      BY <3>1, <3>2 DEF Goto, Types, TypeOK
    <3>4. tickets[id].verifier = <<rootKey, job[p].token>>
      BY <2>3, <1>m DEF KeyInv, RecordInv, BurnTokenVerifier
    <3> QED
      BY <2>1, <2>2, <2>5, <3>3, <3>4 DEF Taken
  <2> QED
    BY <1>7, <2>2, <2>4, <2>5, <1>m, <1>t DEF OpenNote, Expired
<1> QED
  BY <1>1, <1>2, <1>3, <1>4, <1>5, <1>6, <1>7 DEF Next, Maintenance, Handler

\* As long as the wall clock is not set back, a note leaves the database only
\* because it has expired, and then nobody gets it (Cleanup, OpenNote), or because
\* the request with its burn token takes it, which came before the expiry.
THEOREM NotesKept == Spec => NoteLeavesBurnedOrExpired
<1>1. Types /\ NoteInv /\ KeyInv /\ ClockInv /\ [Next]_vars =>
         [\A id \in Ids : setBacks = 0 /\ payloads[id] # Nil /\ payloads'[id] # payloads[id] =>
             \/ /\ metadata[id].expiresAt < now
                /\ \A p \in Procs : job'[p].note # payloads[id]
             \/ \E p \in Procs :
                   /\ pc[p] = "opening" /\ job[p].at =< metadata[id].expiresAt
                   /\ job[p].id = id /\ job[p].token = tickets[id].verifier[2]
                   /\ job'[p].note = payloads[id]]_vars
  <2> SUFFICES ASSUME Types, NoteInv, KeyInv, ClockInv, Next, NEW id \in Ids, setBacks = 0,
                      payloads[id] # Nil, payloads'[id] # payloads[id]
               PROVE  Taken(id)
    BY DEF Taken
  <2> QED
    BY LeaveStep
<1> QED
  BY <1>1, ClockInvariance, PTL DEF Spec, NoteLeavesBurnedOrExpired
=============================================================================
