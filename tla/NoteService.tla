----------------------------- MODULE NoteService -----------------------------
(***************************************************************************)
(* The note service of one-time-note: tickets, notes, the root key and the *)
(* bbolt database they live in, used concurrently by HTTP handlers and by  *)
(* the cleanup goroutine (note_service.go, ticket.go, root_key.go,         *)
(* database.go and the handlers that call them).                           *)
(*                                                                         *)
(* Every db.Update is one atomic step, because bbolt runs write            *)
(* transactions one at a time and commits all or nothing.  What the code   *)
(* does OUTSIDE a transaction (reading the clock, verifying a ticket,      *)
(* building the metadata record) is a step of its own, so that the steps   *)
(* of other handlers, the cleanup goroutine, the clock and a crash can     *)
(* come in between.                                                        *)
(***************************************************************************)
EXTENDS Integers, FiniteSets

CONSTANTS
    Ids,               \* note identifiers (random 32 byte values)
    Tokens,            \* burn tokens (random 32 byte values)
    Procs,             \* goroutines that serve requests
    Nil,               \* "no record": what bucket.Get answers for a missing key
    TicketTimeout,     \* ticketTimeout
    TicketClockSkew,   \* ticketClockSkew
    MinNoteLifetime,   \* minNoteLifetime
    MaxNoteLifetime,   \* maxNoteLifetime
    Lifetimes,         \* the lifetimes that clients ask for, legal or not
    Bodies,            \* the kinds of request body that clients send
    Capacity,          \* notes that fit in the database (MaxSize of bbolt)
    MaxTime,           \* bound on the clock
    MaxFaults,         \* bound on the number of commits that fail
    MaxCrashes,        \* bound on the number of crashes
    MaxSetBacks        \* bound on how often the wall clock is set back

ASSUME TimesAssumption ==
    /\ TicketTimeout \in Nat /\ TicketClockSkew \in Nat
    /\ MinNoteLifetime \in Nat \ {0} /\ MaxNoteLifetime \in Nat
    /\ MinNoteLifetime =< MaxNoteLifetime
    /\ Lifetimes \subseteq Nat

ASSUME BoundsAssumption ==
    /\ Capacity \in Nat /\ MaxTime \in Nat \ {0}
    /\ MaxFaults \in Nat /\ MaxCrashes \in Nat /\ MaxSetBacks \in Nat

\* "badToken": a note id or burn token that does not parse; "oversized": beyond
\* the limit on request bodies; "largeNote": beyond the limit on payloads.
ASSUME BodiesAssumption ==
    Bodies \subseteq {"wrongMedia", "malformed", "badToken", "oversized",
                      "emptyNote", "largeNote", "ok"}

ASSUME NilAssumption ==
    /\ Nil \notin Ids /\ Nil \notin Tokens /\ Nil \notin Nat
    /\ Nil \notin Ids \X Nat /\ Nil \notin Nat \X Tokens
    /\ Nil \notin [verifier : Nat \X Tokens, createdAt : Nat, expiresAt : Nat]
    /\ Nil \notin [id : Ids, iat : Nat, exp : Nat, verifier : Nat \X Tokens,
                   signedBy : Nat]

VARIABLES
    now,           \* the wall clock, 0 being the zero time.Time
    (* the database file: what survives a crash *)
    schema,        \* schema version in the config bucket, 0 if absent
    rootKey,       \* the record of the root_keys bucket, 0 if absent
    metadata,      \* metadata bucket
    payloads,      \* notes bucket; a payload is named <<id, n>>, see Note
    usedTickets,   \* used_tickets bucket: the ExpiresAt of each marker
    (* the process: lost in a crash *)
    server,        \* progress of run(): "down", "opened", "keyed", "up"
    sweepAt,       \* clock reading of StartupMaintenance or the cleanup ticker
    pc,            \* where each handler is
    job,           \* the local variables of each handler
    (* history, for the properties *)
    tickets,       \* the ticket issued for each id, as its client holds it
    created,       \* how many notes were ever stored under each id
    delivered,     \* notes whose payload a client received
    (* budgets of the environment *)
    faults, crashes, setBacks

db      == <<schema, rootKey, metadata, payloads, usedTickets>>
history == <<tickets, created, delivered>>
budgets == <<faults, crashes, setBacks>>
vars    == <<now, db, server, sweepAt, pc, job, history, budgets>>

-----------------------------------------------------------------------------
(* Data *)

CurrentSchemaVersion == 1

\* The n-th note ever stored under an id.
Note == Ids \X Nat

\* burnTokenVerifier: an HMAC of the token under a key derived from the root
\* key; equal exactly when key and token are.
BurnTokenVerifier(key, token) == <<key, token>>

Verifier == Nat \X Tokens

Metadata == [verifier : Verifier, createdAt : Nat, expiresAt : Nat]

\* TicketData with the signature, an HMAC under a key derived from the root key.
Ticket == [id : Ids, iat : Nat, exp : Nat, verifier : Verifier, signedBy : Nat]

HttpStatus == {0, 200, 201, 400, 404, 409, 413, 415, 500, 507}

Job == [id : Ids \cup {Nil}, token : Tokens \cup {Nil},
        verifier : Verifier \cup {Nil}, exp : Nat, life : Nat, stamp : Nat,
        at : Nat, status : HttpStatus, note : Note \cup {Nil}]

NoJob == [id |-> Nil, token |-> Nil, verifier |-> Nil, exp |-> 0, life |-> 0,
          stamp |-> 0, at |-> 0, status |-> 0, note |-> Nil]

Control == {"idle", "verified", "stamped", "full", "sweeping", "retry",
            "opening", "reply"}

StoredIds == {id \in Ids : metadata[id] # Nil}

-----------------------------------------------------------------------------
(* Checks made on requests and records *)

\* normalizeLifetime, and requestedLifetime of the handler.
ValidLifetime(life) == MinNoteLifetime =< life /\ life =< MaxNoteLifetime

\* validMetadata: the length of the verifier is part of its type here.
ValidMetadata(m) ==
    /\ m.createdAt # 0 /\ m.expiresAt # 0
    /\ m.createdAt =< m.expiresAt
    /\ m.expiresAt - m.createdAt =< MaxNoteLifetime

\* validateTicketPayload
ValidTicketPayload(t, pathId) ==
    /\ t.id = pathId
    /\ t.iat # 0 /\ t.exp # 0
    /\ t.iat =< now + TicketClockSkew
    /\ t.exp >= now
    /\ t.exp - t.iat =< TicketTimeout

\* verifyTicket: payload, then signature, then the burn token's verifier.
VerifyTicket(t, pathId, token) ==
    /\ ValidTicketPayload(t, pathId)
    /\ t.signedBy = rootKey
    /\ t.verifier = BurnTokenVerifier(rootKey, token)

\* A well-formed ticket of a deployment with another root key.
ForeignTicket(id, token) ==
    [id |-> id, iat |-> now, exp |-> now + TicketTimeout,
     verifier |-> BurnTokenVerifier(0, token), signedBy |-> 0]

TicketsInHand(id, token) ==
    {ForeignTicket(id, token)} \cup {tickets[i] : i \in {j \in Ids : tickets[j] # Nil}}

\* The checks of HandleCreateNote and CreateNote, in the order they are made;
\* 0 stands for a request that passes them all.
CreateRejection(id, ticket, token, body, life) ==
    IF body = "wrongMedia" THEN 415
    ELSE IF body \in {"malformed", "badToken"} THEN 400
    ELSE IF body = "oversized" THEN 413
    ELSE IF ~ValidLifetime(life) THEN 400
    ELSE IF body = "emptyNote" THEN 400
    ELSE IF body = "largeNote" THEN 413
    ELSE IF ~VerifyTicket(ticket, id, token) THEN 400
    ELSE 0

\* The checks of HandleOpenNote before it calls OpenNote.
OpenRejection(body) ==
    IF body = "wrongMedia" THEN 415
    ELSE IF body \in {"malformed", "oversized"} THEN 400
    ELSE IF body = "badToken" THEN 404
    ELSE 0

-----------------------------------------------------------------------------
(* Write transactions *)

\* Mutant: the payload is forgotten.
DeleteMetadataOnly(ids) ==
    /\ metadata' = [id \in Ids |-> IF id \in ids THEN Nil ELSE metadata[id]]
    /\ UNCHANGED payloads

\* deleteNoteRecords, for every id of a set.
DeleteNoteRecords(ids) ==
    /\ metadata' = [id \in Ids |-> IF id \in ids THEN Nil ELSE metadata[id]]
    /\ payloads' = [id \in Ids |-> IF id \in ids THEN Nil ELSE payloads[id]]

\* Mutants: a record whose time has come is taken for one whose time is over.
StaleAtExpiry(t) == {id \in Ids : /\ metadata[id] # Nil
                                  /\ ~ValidMetadata(metadata[id]) \/ metadata[id].expiresAt =< t}
ExpiredMarkersAtExpiry(t) == {id \in Ids : usedTickets[id] # Nil /\ usedTickets[id] =< t}

\* What the transaction of Cleanup deletes, given the clock reading t.
Stale(t) == {id \in Ids : /\ metadata[id] # Nil
                          /\ ~ValidMetadata(metadata[id]) \/ metadata[id].expiresAt < t}
ExpiredMarkers(t) == {id \in Ids : usedTickets[id] # Nil /\ usedTickets[id] < t}

\* Mutant: the markers of used tickets are never removed.
CleanupNotesOnly(t) == DeleteNoteRecords(Stale(t)) /\ UNCHANGED usedTickets

\* The transaction of Cleanup.
Cleanup(t) ==
    /\ DeleteNoteRecords(Stale(t))
    /\ usedTickets' = [id \in Ids |-> IF id \in ExpiredMarkers(t) THEN Nil ELSE usedTickets[id]]

\* Mutants: only the marker, or only the records are looked up.
UnusedByMarker(id)  == usedTickets[id] = Nil
UnusedByRecords(id) == metadata[id] = Nil /\ payloads[id] = Nil

\* The checks of the create transaction: the ticket has not been used.
Unused(id) == usedTickets[id] = Nil /\ metadata[id] = Nil /\ payloads[id] = Nil

\* bbolt answers ErrMaxSizeReached when the file would have to grow too far.
StorageFull == Cardinality(StoredIds) >= Capacity

\* Mutant: the field of the token is copied in place of the verifier.
NewMetadataRawToken(j) == [verifier |-> j.token, createdAt |-> j.stamp,
                           expiresAt |-> j.stamp + j.life]

\* The record CreateNote builds before its transaction.
NewMetadata(j) == [verifier |-> j.verifier, createdAt |-> j.stamp,
                   expiresAt |-> j.stamp + j.life]

\* The writes of the create transaction.
StoreNote(j) ==
    /\ metadata' = [metadata EXCEPT ![j.id] = NewMetadata(j)]
    /\ payloads' = [payloads EXCEPT ![j.id] = <<j.id, created[j.id] + 1>>]
    /\ usedTickets' = [usedTickets EXCEPT ![j.id] = j.exp]
    /\ created' = [created EXCEPT ![j.id] = @ + 1]

\* db.Update returns an I/O error: the transaction is rolled back.
CommitFails == faults < MaxFaults /\ faults' = faults + 1

-----------------------------------------------------------------------------
(* Startup and the cleanup goroutine *)

\* openDB: create the buckets and the schema version, or refuse the file.
OpenDB ==
    /\ server = "down"
    /\ \/ /\ schema \in {0, CurrentSchemaVersion}
          /\ schema' = CurrentSchemaVersion
          /\ server' = "opened"
          /\ faults' = faults
       \/ /\ schema \notin {0, CurrentSchemaVersion}   \* startup fails
          /\ UNCHANGED <<schema, server, faults>>
       \/ CommitFails /\ UNCHANGED <<schema, server>>
    /\ UNCHANGED <<now, rootKey, metadata, payloads, usedTickets, sweepAt, pc, job,
                   history, crashes, setBacks>>

\* Mutant: every start draws a new secret.
EnsureRootKeysAlwaysNew ==
    /\ server = "opened"
    /\ rootKey' = rootKey + 1 /\ server' = "keyed"
    /\ UNCHANGED <<now, schema, metadata, payloads, usedTickets, sweepAt, pc, job,
                   history, budgets>>

\* EnsureRootKeys: draw a new secret only if there is none.
EnsureRootKeys ==
    /\ server = "opened"
    /\ \/ /\ rootKey' = IF rootKey = 0 THEN rootKey + 1 ELSE rootKey
          /\ server' = "keyed"
          /\ faults' = faults
       \/ CommitFails /\ server' = "down" /\ UNCHANGED rootKey
    /\ UNCHANGED <<now, schema, metadata, payloads, usedTickets, sweepAt, pc, job,
                   history, crashes, setBacks>>

\* Cleanup called by StartupMaintenance or by the ticker: now := s.now().
MaintenanceReadsClock ==
    /\ server \in {"keyed", "up"} /\ sweepAt = Nil
    /\ sweepAt' = now
    /\ UNCHANGED <<now, db, server, pc, job, history, budgets>>

\* The transaction of that Cleanup.  At startup the server begins to listen
\* only after it, and exits if it fails; the ticker's caller logs the failure.
MaintenanceCommits ==
    /\ sweepAt # Nil
    /\ sweepAt' = Nil
    /\ \/ Cleanup(sweepAt) /\ server' = "up" /\ faults' = faults
       \/ /\ CommitFails
          /\ server' = IF server = "keyed" THEN "down" ELSE server
          /\ UNCHANGED <<metadata, payloads, usedTickets>>
    /\ UNCHANGED <<now, schema, rootKey, pc, job, history, crashes, setBacks>>

-----------------------------------------------------------------------------
(* Requests *)

Goto(p, label, j) == pc' = [pc EXCEPT ![p] = label] /\ job' = [job EXCEPT ![p] = j]

Answer(p, status, note) ==
    Goto(p, "reply", [NoJob EXCEPT !.status = status, !.note = note])

\* HandleCreateTicket: a fresh id and a fresh burn token, signed with the root
\* key.  It writes nothing to the database, so its response is part of the step.
CreateTicket ==
    /\ server = "up"
    /\ \E id \in Ids, token \in Tokens :
          /\ tickets[id] = Nil
          /\ \A i \in Ids : tickets[i] # Nil => tickets[i].verifier[2] # token
          /\ tickets' = [tickets EXCEPT ![id] =
                [id |-> id, iat |-> now, exp |-> now + TicketTimeout,
                 verifier |-> BurnTokenVerifier(rootKey, token), signedBy |-> rootKey]]
    /\ UNCHANGED <<now, db, server, sweepAt, pc, job, created, delivered, budgets>>

\* HandleCreateNote up to the end of verifyTicket, the first clock reading.
BeginCreateNote(p) ==
    /\ server = "up" /\ pc[p] = "idle"
    /\ \E id \in Ids, token \in Tokens, body \in Bodies, life \in Lifetimes :
       \E ticket \in TicketsInHand(id, token) :
          LET status == CreateRejection(id, ticket, token, body, life) IN
          IF status # 0
          THEN Goto(p, "reply", [NoJob EXCEPT !.status = status])
          ELSE Goto(p, "verified", [NoJob EXCEPT !.id = id, !.exp = ticket.exp,
                                    !.verifier = ticket.verifier, !.life = life])
    /\ UNCHANGED <<now, db, server, sweepAt, history, budgets>>

\* CreateNote's second clock reading, which dates the metadata record.
StampNote(p) ==
    /\ pc[p] = "verified"
    /\ Goto(p, "stamped", [job[p] EXCEPT !.stamp = now])
    /\ UNCHANGED <<now, db, server, sweepAt, history, budgets>>

\* The create transaction: the first try, or the one after the cleanup.
TryCreate(p) ==
    LET j == job[p] IN
    /\ pc[p] \in {"stamped", "retry"}
    /\ \/ /\ ~Unused(j.id)
          /\ Answer(p, 409, Nil)
          /\ UNCHANGED <<metadata, payloads, usedTickets, created, faults>>
       \/ /\ Unused(j.id) /\ ~StorageFull
          /\ StoreNote(j)
          /\ Answer(p, 201, Nil)
          /\ UNCHANGED faults
       \/ /\ Unused(j.id) /\ StorageFull
          /\ IF pc[p] = "stamped" THEN Goto(p, "full", j) ELSE Answer(p, 507, Nil)
          /\ UNCHANGED <<metadata, payloads, usedTickets, created, faults>>
       \/ /\ CommitFails
          /\ Answer(p, 500, Nil)
          /\ UNCHANGED <<metadata, payloads, usedTickets, created>>
    /\ UNCHANGED <<now, schema, rootKey, server, sweepAt, tickets, delivered,
                   crashes, setBacks>>

\* Storage is full: Cleanup, called by CreateNote, reads the clock ...
SweepReadsClock(p) ==
    /\ pc[p] = "full"
    /\ Goto(p, "sweeping", [job[p] EXCEPT !.at = now])
    /\ UNCHANGED <<now, db, server, sweepAt, history, budgets>>

\* Mutant: after the cleanup CreateNote starts over.
SweepCommitsAndStartsOver(p) ==
    /\ pc[p] = "sweeping"
    /\ Cleanup(job[p].at)
    /\ Goto(p, "stamped", job[p])
    /\ UNCHANGED <<now, schema, rootKey, server, sweepAt, history, budgets>>

\* Mutant: a create that fails spends its ticket.
SweepFailureSpendsTicket(p) ==
    /\ pc[p] = "sweeping"
    /\ \/ Cleanup(job[p].at) /\ Goto(p, "retry", job[p]) /\ UNCHANGED faults
       \/ /\ CommitFails
          /\ Answer(p, 500, Nil)
          /\ usedTickets' = [usedTickets EXCEPT ![job[p].id] = job[p].exp]
          /\ UNCHANGED <<metadata, payloads>>
    /\ UNCHANGED <<now, schema, rootKey, server, sweepAt, history, crashes, setBacks>>

\* ... and commits; its failure is what CreateNote returns.
SweepCommits(p) ==
    /\ pc[p] = "sweeping"
    /\ \/ /\ Cleanup(job[p].at)
          /\ Goto(p, "retry", job[p])
          /\ UNCHANGED faults
       \/ /\ CommitFails
          /\ Answer(p, 500, Nil)
          /\ UNCHANGED <<metadata, payloads, usedTickets>>
    /\ UNCHANGED <<now, schema, rootKey, server, sweepAt, history, crashes, setBacks>>

\* HandleOpenNote up to OpenNote's clock reading.
BeginOpenNote(p) ==
    /\ server = "up" /\ pc[p] = "idle"
    /\ \E id \in Ids, token \in Tokens, body \in Bodies :
          LET status == OpenRejection(body) IN
          IF status # 0
          THEN Goto(p, "reply", [NoJob EXCEPT !.status = status])
          ELSE Goto(p, "opening", [NoJob EXCEPT !.id = id, !.token = token, !.at = now])
    /\ UNCHANGED <<now, db, server, sweepAt, history, budgets>>

\* Mutant: only the cleanup looks at the expiry.
NeverExpired(m, t) == FALSE

\* The comparison of OpenNote with its clock reading.
Expired(m, t) == m.expiresAt < t

\* The transaction of OpenNote: nothing there, an invalid record (deleted), a
\* wrong token, an expired note (deleted), or the note, burned and handed out.
OpenNote(p) ==
    LET j     == job[p]
        m     == metadata[j.id]
        found == m # Nil /\ payloads[j.id] # Nil
        match == m.verifier = BurnTokenVerifier(rootKey, j.token)
    IN
    /\ pc[p] = "opening"
    /\ \/ /\ found => ValidMetadata(m) /\ ~match
          /\ Answer(p, 404, Nil)
          /\ UNCHANGED <<metadata, payloads, faults>>
       \/ /\ found
          /\ ValidMetadata(m) => match /\ Expired(m, j.at)
          /\ DeleteNoteRecords({j.id})
          /\ Answer(p, 404, Nil)
          /\ UNCHANGED faults
       \/ /\ found /\ ValidMetadata(m) /\ match /\ ~Expired(m, j.at)
          /\ DeleteNoteRecords({j.id})
          /\ Answer(p, 200, payloads[j.id])
          /\ UNCHANGED faults
       \/ /\ CommitFails
          /\ Answer(p, 500, Nil)
          /\ UNCHANGED <<metadata, payloads>>
    /\ UNCHANGED <<now, schema, rootKey, usedTickets, server, sweepAt, history,
                   crashes, setBacks>>

\* writeJSON: the response reaches the client, or the connection is gone.
Reply(p) ==
    /\ pc[p] = "reply"
    /\ Goto(p, "idle", NoJob)
    /\ \/ job[p].note # Nil /\ delivered' = delivered \cup {job[p].note}
       \/ UNCHANGED delivered
    /\ UNCHANGED <<now, db, server, sweepAt, tickets, created, budgets>>

-----------------------------------------------------------------------------
(* Environment *)

Tick ==
    /\ now < MaxTime
    /\ now' = now + 1
    /\ UNCHANGED <<db, server, sweepAt, pc, job, history, budgets>>

\* Records carry wall-clock times (JSON drops the monotonic reading), so a
\* step of the wall clock is seen by every comparison with them.
ClockSetBack ==
    /\ setBacks < MaxSetBacks /\ now > 1
    /\ now' = now - 1
    /\ setBacks' = setBacks + 1
    /\ UNCHANGED <<db, server, sweepAt, pc, job, history, faults, crashes>>

\* The process dies, at any point between two commits.
Crash ==
    /\ server # "down" /\ crashes < MaxCrashes
    /\ crashes' = crashes + 1
    /\ server' = "down" /\ sweepAt' = Nil
    /\ pc' = [p \in Procs |-> "idle"] /\ job' = [p \in Procs |-> NoJob]
    /\ UNCHANGED <<now, db, history, faults, setBacks>>

-----------------------------------------------------------------------------
\* A new file, or the file of a later release, which openDB refuses.
Init ==
    /\ now = 1
    /\ schema \in {0, CurrentSchemaVersion + 1} /\ rootKey = 0
    /\ metadata = [id \in Ids |-> Nil]
    /\ payloads = [id \in Ids |-> Nil]
    /\ usedTickets = [id \in Ids |-> Nil]
    /\ server = "down" /\ sweepAt = Nil
    /\ pc = [p \in Procs |-> "idle"] /\ job = [p \in Procs |-> NoJob]
    /\ tickets = [id \in Ids |-> Nil] /\ created = [id \in Ids |-> 0]
    /\ delivered = {}
    /\ faults = 0 /\ crashes = 0 /\ setBacks = 0

Maintenance == OpenDB \/ EnsureRootKeys \/ MaintenanceReadsClock \/ MaintenanceCommits

Handler(p) ==
    \/ BeginCreateNote(p) \/ StampNote(p) \/ TryCreate(p)
    \/ SweepReadsClock(p) \/ SweepCommits(p)
    \/ BeginOpenNote(p) \/ OpenNote(p) \/ Reply(p)

Next ==
    \/ Maintenance \/ CreateTicket \/ (\E p \in Procs : Handler(p))
    \/ Tick \/ ClockSetBack \/ Crash

Spec == Init /\ [][Next]_vars

\* Goroutines that can run do run, an operator restarts a dead process, and
\* the ticker fires again and again.  Nobody owes the service a request, and
\* only finitely many commits fail (MaxFaults).
HandlerStep(p) ==
    StampNote(p) \/ TryCreate(p) \/ SweepReadsClock(p) \/ SweepCommits(p)
        \/ OpenNote(p) \/ Reply(p)

FairSpec ==
    /\ Spec
    /\ WF_vars(OpenDB) /\ WF_vars(EnsureRootKeys)
    /\ WF_vars(MaintenanceReadsClock) /\ WF_vars(MaintenanceCommits)
    /\ \A p \in Procs : WF_vars(HandlerStep(p))
-----------------------------------------------------------------------------
(* Properties *)

\* Every variable keeps its type: the buckets hold records or nothing, the
\* handlers are at one of their labels, and the budgets are not overdrawn.
TypeOK ==
    /\ now \in Nat \ {0}
    /\ schema \in Nat /\ rootKey \in Nat
    /\ metadata \in [Ids -> Metadata \cup {Nil}]
    /\ payloads \in [Ids -> Note \cup {Nil}]
    /\ usedTickets \in [Ids -> Nat \cup {Nil}]
    /\ server \in {"down", "opened", "keyed", "up"}
    /\ sweepAt \in Nat \cup {Nil}
    /\ pc \in [Procs -> Control] /\ job \in [Procs -> Job]
    /\ tickets \in [Ids -> Ticket \cup {Nil}]
    /\ created \in [Ids -> Nat]
    /\ delivered \subseteq Note
    /\ faults \in 0..MaxFaults /\ crashes \in 0..MaxCrashes /\ setBacks \in 0..MaxSetBacks

\* "The server burns the note before returning the encrypted payload": a note
\* that a handler is about to send, or that a client has received, is no longer
\* in the database, and no second handler holds it.  Two opens of the same
\* note, a retry after a failed commit or an open that races the cleanup never
\* give the payload out twice.
OneDeliveryPerNote ==
    /\ \A id \in Ids : payloads[id] # Nil =>
          /\ payloads[id] \notin delivered
          /\ \A p \in Procs : job[p].note # payloads[id]
    /\ \A p \in Procs : job[p].note # Nil =>
          /\ job[p].note \notin delivered
          /\ \A q \in Procs : job[q].note = job[p].note => q = p

\* A stored note can be opened with the token its creator was given, whatever
\* crashes and restarts came between: both records are there, the record passes
\* validMetadata, and its verifier is the one that the present root key gives.
StoredNotesOpenable ==
    \A id \in Ids :
       /\ metadata[id] = Nil <=> payloads[id] = Nil
       /\ metadata[id] # Nil =>
             /\ ValidMetadata(metadata[id])
             /\ tickets[id] # Nil
             /\ metadata[id].verifier = BurnTokenVerifier(rootKey, tickets[id].verifier[2])

\* As long as the wall clock is not set back, a used ticket is remembered for as
\* long as verifyTicket would accept it: no cleanup, whenever it read the clock,
\* removes the marker before.
MarkerOutlivesTicket ==
    \A id \in Ids :
       setBacks = 0 /\ created[id] > 0 /\ tickets[id].exp >= now => usedTickets[id] # Nil

\* ErrTicketUnusable (409) is only answered for a ticket that made a note: a
\* create that fails, in its transaction or in the cleanup of a full database,
\* leaves its ticket usable.
ConflictMeansUsed ==
    [][\A p \in Procs : job[p].status # 409 /\ job'[p].status = 409 =>
          created[job[p].id] > 0]_vars

\* As long as the wall clock is not set back, a note leaves the database in two
\* ways only.  It has expired and nobody gets it, or it goes to the open request
\* that holds its burn token, and that came before the note expired: it may have
\* waited for the database since, and the note is handed out all the same.  A
\* wrong token, a failed commit, a cleanup with an old clock reading and a create
\* under the same id do not touch it.
NoteLeavesBurnedOrExpired ==
    [][\A id \in Ids : setBacks = 0 /\ payloads[id] # Nil /\ payloads'[id] # payloads[id] =>
          \/ /\ metadata[id].expiresAt < now
             /\ \A p \in Procs : job'[p].note # payloads[id]
          \/ \E p \in Procs :
                /\ pc[p] = "opening" /\ job[p].at =< metadata[id].expiresAt
                /\ job[p].id = id /\ job[p].token = tickets[id].verifier[2]
                /\ job'[p].note = payloads[id]]_vars

\* As long as the wall clock is not set back, a ticket that verifyTicket would
\* still accept makes at most one note.
NoReuseWhileValid ==
    [][\A id \in Ids :
          setBacks = 0 /\ created'[id] > created[id] /\ tickets[id].exp >= now =>
             created[id] = 0]_vars

\* The service implements the abstract one-time note: a note is taken out of
\* the database in the step that hands it to a handler, is sent at most once,
\* is never overwritten, and never comes back after a crash or a retry.
SealedNotes == {payloads[id] : id \in Ids} \ {Nil}
HeldNotes   == {job[p].note : p \in Procs} \ {Nil}

Abstract == INSTANCE OneTimeNote WITH
    count <- created, sealed <- SealedNotes, held <- HeldNotes, given <- delivered

ImplementsOneTimeNote == Abstract!Spec

\* Expired notes and expired used-ticket markers do not stay in the database:
\* the startup cleanup and the ticker remove them, through failed commits,
\* crashes and handlers that are in the middle of a request.
ExpiredRecordsRemoved ==
    \A id \in Ids :
       /\ metadata[id] # Nil /\ metadata[id].expiresAt < now
             ~> metadata[id] = Nil \/ metadata[id].expiresAt >= now
       /\ usedTickets[id] # Nil /\ usedTickets[id] < now
             ~> usedTickets[id] = Nil \/ usedTickets[id] >= now

\* Every request comes to its end: the cleanup and the second create that a
\* full database causes are done once, never again and again.
RequestsEnd == \A p \in Procs : pc[p] # "idle" ~> pc[p] = "idle"

\* README: "The browser asks the server for a one-use creation ticket".
TicketUsedOnce == \A id \in Ids : created[id] =< 1

=============================================================================
