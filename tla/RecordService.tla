---------------------------- MODULE RecordService ----------------------------
(***************************************************************************)
(* One aggregate of the backend (generator, carrier, manifest or check):   *)
(* its table, its audit trail, and the request handlers that work on them. *)
(*                                                                         *)
(* A handler of internal/service reads a row, decides on what it read, and *)
(* only then opens the transaction of repository/base.go that writes the   *)
(* row and the audit entry together.  Handlers of other requests, on any   *)
(* replica, run between the two.  The four services differ in the values   *)
(* of the constants, and in checks on other aggregates, which here may     *)
(* refuse any request (Abandon) and are modelled in TransferWorkflow.      *)
(*                                                                         *)
(* A request refused before it writes changes nothing and is a stuttering  *)
(* step; the row a successful handler reads back for its answer likewise.  *)
(***************************************************************************)
EXTENDS Naturals, Sequences, StatusGraphs

CONSTANTS
    Codes,          \* business codes; the unique index keeps a code for one row for ever
    Statuses,       \* statuses of this aggregate
    Contents,       \* values of the fields only an update replaces; the decision basis, which
                    \* a check stores together with its decision, goes with the status
    Transitions,    \* status graph of this aggregate
    InitialStatus,  \* status of a new row
    Editable,       \* statuses in which the service accepts an update
    Deletable,      \* statuses in which the service accepts a deletion
    Seed,           \* rows the database starts with
    Workers,        \* goroutines serving requests, of all replicas
    MaxVersion,     \* bound: no request asks for a version above it
    Lookahead       \* how far an expected version may run ahead of the row when the
                    \* request arrives: 0 when clients send back a version they have read

ASSUME GraphAssumption ==
    /\ DOMAIN Transitions = Statuses
    /\ \A s \in Statuses : Transitions[s] \subseteq Statuses
    /\ InitialStatus \in Statuses
    /\ Editable \subseteq Statuses
    /\ Deletable \subseteq Statuses

ASSUME BoundAssumption == MaxVersion \in Nat /\ Lookahead \in Nat

Row == [state   : {"absent", "live", "deleted"},
        status  : Statuses,
        version : Nat,
        content : Contents]

ASSUME SeedAssumption ==
    /\ Seed \in [Codes -> Row]
    /\ \A k \in Codes : \/ Seed[k].state = "absent" /\ Seed[k].version = 0
                        \/ Seed[k].state = "live" /\ Seed[k].version = 1

VARIABLES
    rows,   \* rows[k]: the row with code k
    trail,  \* trail[k]: audit entries of that row, oldest first
    work    \* work[w]: what worker w has computed and not yet written

vars == <<rows, trail, work>>

Idle == [op |-> "idle"]

\* A write about to be committed: the request (op, code, expected version), the row the
\* handler computed from its snapshot, and the status it saw, for the audit entry.
Job == [op       : {"create", "update", "transition", "delete"},
        code     : Codes,
        expected : Nat,
        item     : Row,
        before   : Statuses \cup {"none"}]

\* Slip: the audit entry is built after the target was assigned to the row.
NewAuditLogLate(action, before, after, expected) ==
    [action |-> action, before |-> IF action = "transition" THEN after ELSE before,
     after |-> after, expected |-> expected]

\* expected is not a column: the request id of the entry identifies the request and with it
\* the version the request carried.
NewAuditLog(action, before, after, expected) ==
    [action |-> action, before |-> before, after |-> after, expected |-> expected]

\* Entries say "none" before a creation and "deleted" after a deletion.
AuditEntry == [action   : {"create", "update", "transition", "delete"},
               before   : Statuses \cup {"none"},
               after    : Statuses \cup {"deleted"},
               expected : Nat]

TypeOK ==
    /\ rows \in [Codes -> Row]
    /\ trail \in [Codes -> Seq(AuditEntry)]
    /\ work \in [Workers -> Job \cup {Idle}]

Live(k) == rows[k].state = "live"

Init ==
    /\ rows = Seed
    /\ trail = [k \in Codes |-> << >>]
    /\ work = [w \in Workers |-> Idle]

-----------------------------------------------------------------------------
(***************************************************************************)
(* The handlers, up to the transaction.  Each reads the row once.          *)
(***************************************************************************)

Prepare(w, op, k, e, item, before) ==
    /\ work[w] = Idle
    /\ work' = [work EXCEPT ![w] = [op |-> op, code |-> k, expected |-> e,
                                    item |-> item, before |-> before]]
    /\ UNCHANGED <<rows, trail>>

\* Versions a request for row k may carry when its handler reads the row.
Expectable(k) == {e \in 1..(rows[k].version + Lookahead) : e < MaxVersion}

\* Slip: the next version is not put into the row.
RevisedInPlace(row, e) == row

\* The row an update or a transition sends to UpdateAudited.
Revised(row, e) == [row EXCEPT !.version = e + 1]

Create(w, k, d) ==
    Prepare(w, "create", k, 0,
            [state |-> "live", status |-> InitialStatus, version |-> 1, content |-> d], "none")

\* Slip: an edit in any status.
UpdateUnguarded(w, k, d, e) ==
    /\ Live(k)
    /\ Prepare(w, "update", k, e, Revised([rows[k] EXCEPT !.content = d], e), rows[k].status)

Update(w, k, d, e) ==
    /\ Live(k)
    /\ rows[k].status \in Editable
    /\ Prepare(w, "update", k, e, Revised([rows[k] EXCEPT !.content = d], e), rows[k].status)

Transition(w, k, s, e) ==
    /\ Live(k)
    /\ CanTransition(Transitions, rows[k].status, s)
    /\ Prepare(w, "transition", k, e, Revised([rows[k] EXCEPT !.status = s], e), rows[k].status)

\* Slip: a deletion in any status.
DeleteUnguarded(w, k) == Live(k) /\ Prepare(w, "delete", k, 0, rows[k], rows[k].status)

Delete(w, k) ==
    /\ Live(k)
    /\ rows[k].status \in Deletable
    /\ Prepare(w, "delete", k, 0, rows[k], rows[k].status)

-----------------------------------------------------------------------------
(***************************************************************************)
(* The transactions.  One that finds no row to write is rolled back: the   *)
(* worker can then only Abandon its job.                                   *)
(***************************************************************************)

\* Slip: a WHERE clause without the version.
IdMatches(k, e) == Live(k)

\* The WHERE clause of updateRecord, with the deleted_at IS NULL that gorm adds.
VersionMatches(k, e) == Live(k) /\ rows[k].version = e

\* Slip: a deletion that does not exclude deleted rows.
RemovableUnscoped(k) == rows[k].state # "absent"

\* The WHERE clause of deleteRecord: the id, and deleted_at IS NULL.
Removable(k) == Live(k)

Commit(w, row, after) ==
    LET job == work[w] IN
    /\ rows' = [rows EXCEPT ![job.code] = row]
    /\ trail' = [trail EXCEPT ![job.code] =
                    Append(@, NewAuditLog(job.op, job.before, after, job.expected))]
    /\ work' = [work EXCEPT ![w] = Idle]

\* Slip: a code is free again once its row was deleted.
CreateReusingCode(w) ==
    /\ work[w].op = "create"
    /\ ~ Live(work[w].code)
    /\ Commit(w, work[w].item, work[w].item.status)

\* The unique index on code also covers soft-deleted rows.
CreateAudited(w) ==
    /\ work[w].op = "create"
    /\ rows[work[w].code].state = "absent"
    /\ Commit(w, work[w].item, work[w].item.status)

UpdateAudited(w) ==
    /\ work[w].op \in {"update", "transition"}
    /\ VersionMatches(work[w].code, work[w].expected)
    /\ Commit(w, work[w].item, work[w].item.status)

\* Slip: a deletion recorded in the status column.
DeleteByStatus(w) ==
    /\ work[w].op = "delete"
    /\ Removable(work[w].code)
    /\ Commit(w, [rows[work[w].code] EXCEPT !.state = "deleted", !.status = "deleted"], "deleted")

DeleteAudited(w) ==
    /\ work[w].op = "delete"
    /\ Removable(work[w].code)
    /\ Commit(w, [rows[work[w].code] EXCEPT !.state = "deleted"], "deleted")

\* Every way for a handler to end without a write: a version conflict, a taken code, a row
\* already deleted, a linked record that does not qualify, a cancelled request, a database
\* error, the end of the process.
Abandon(w) ==
    /\ work[w] # Idle
    /\ work' = [work EXCEPT ![w] = Idle]
    /\ UNCHANGED <<rows, trail>>

Read(w) ==
    \E k \in Codes :
        \/ \E d \in Contents : Create(w, k, d)
        \/ \E d \in Contents, e \in Expectable(k) : Update(w, k, d, e)
        \/ \E s \in Statuses, e \in Expectable(k) : Transition(w, k, s, e)
        \/ Delete(w, k)

Write(w) == CreateAudited(w) \/ UpdateAudited(w) \/ DeleteAudited(w)

Next == \E w \in Workers : Read(w) \/ Write(w) \/ Abandon(w)

Spec == Init /\ [][Next]_vars
-----------------------------------------------------------------------------
(***************************************************************************)
(* Safety.                                                                 *)
(***************************************************************************)

\* A write that the version check will let through was computed from the row it is about to
\* replace: the graph check and the edit guard, made on the snapshot before the transaction,
\* still speak of the current row, and no column of a later write is overwritten, although
\* updateRecord writes every column.  The handler itself never compares the expected version
\* with the row it read.
FreshSnapshot ==
    \A w \in Workers :
        LET job == work[w] IN
        job.op \in {"update", "transition"} /\ VersionMatches(job.code, job.expected)
            => \/ /\ job.op = "update"
                  /\ job.item = [rows[job.code] EXCEPT !.version = @ + 1, !.content = job.item.content]
                  /\ rows[job.code].status \in Editable
               \/ /\ job.op = "transition"
                  /\ job.item = [rows[job.code] EXCEPT !.version = @ + 1, !.status = job.item.status]
                  /\ job.item.status \in Transitions[rows[job.code].status]

\* The number of audit entries a row's state and version account for.
Writes(k) == (rows[k].version - Seed[k].version) + (IF rows[k].state = "deleted" THEN 1 ELSE 0)

\* Row and trail are written in one transaction: a row has exactly one entry per write since
\* the seed, and entry i is that of the request that expected version i - 1.  In particular a
\* request sent twice (a double click, a retry after a lost answer) is applied at most once.
TrailCountsWrites ==
    \A k \in Codes :
        /\ Len(trail[k]) = Writes(k)
        /\ \A i \in 1..Len(trail[k]) :
               IF trail[k][i].action = "delete"
               THEN i = Len(trail[k]) /\ rows[k].state = "deleted"
               ELSE trail[k][i].expected + 1 = Seed[k].version + i

\* The status row k had before entry i + 1 of its trail.
StatusAfter(k, i) ==
    IF i = 0 THEN IF Seed[k].state = "live" THEN Seed[k].status ELSE "none"
             ELSE trail[k][i].after

\* The trail tells the history of the status without a gap: an entry that is not a deletion
\* starts from the status the previous entry ended with, and the last one of them ended with
\* the status of the row.
TrailTellsStatus ==
    \A k \in Codes :
        /\ \A i \in 1..Len(trail[k]) :
               trail[k][i].action # "delete" => trail[k][i].before = StatusAfter(k, i - 1)
        /\ Live(k) => rows[k].status = StatusAfter(k, Len(trail[k]))

\* A status moves only along the graph, a row appears with its initial status, and neither a
\* deleted nor a missing row changes in any other way.
LegalStep(k) ==
    \/ rows'[k].status = rows[k].status /\ (rows'[k].state = rows[k].state \/ Live(k))
    \/ Live(k) /\ Live(k)' /\ rows'[k].status \in Transitions[rows[k].status]
    \/ rows[k].state = "absent" /\ Live(k)' /\ rows'[k].status = InitialStatus

LegalMoves == [][\A k \in Codes : LegalStep(k)]_vars

\* The fields of a row are replaced only while its status allows an edit, and never by the
\* step that moves the status.
FrozenContent ==
    [][\A k \in Codes :
           Live(k) /\ Live(k)' /\ rows'[k].content # rows[k].content
               => rows[k].status \in Editable /\ rows'[k].status = rows[k].status]_vars

\* What the services and README.md:44 say of a deletion: a row leaves the table only from a
\* status in which the service accepts a deletion.
RetainedRecords ==
    [][\A k \in Codes :
           Live(k) /\ rows'[k].state = "deleted" => rows[k].status \in Deletable]_vars

-----------------------------------------------------------------------------
(***************************************************************************)
(* The handlers implement atomic operations on rows and trail.             *)
(***************************************************************************)

Abstract == INSTANCE AuditedRecord WITH rows <- rows, trail <- trail

\* Every write of every interleaving of handlers is one operation of AuditedRecord, carried
\* out on the row as the transaction finds it.
ImplementsAuditedRecord == Abstract!Spec

-----------------------------------------------------------------------------
(***************************************************************************)
(* The inductive invariant.                                                *)
(***************************************************************************)

\* Requests with an expected version: the row exists, has that version or has passed it, and
\* has not changed since the handler read it if it still has that version.
RevisionInv(job) ==
    /\ rows[job.code].state # "absent"
    /\ job.item.state = "live"
    /\ job.item.version = job.expected + 1
    /\ job.expected <= rows[job.code].version
    /\ VersionMatches(job.code, job.expected) => job.before = rows[job.code].status
    /\ \/ /\ job.op = "update"
          /\ job.before \in Editable
          /\ job.item.status = job.before
       \/ /\ job.op = "transition"
          /\ job.before \in Statuses
          /\ job.item.status \in Transitions[job.before]
          /\ VersionMatches(job.code, job.expected) => job.item.content = rows[job.code].content

\* Creations and deletions, which no version protects.
CreationInv(job) ==
    /\ job.expected = 0
    /\ job.before = "none"
    /\ job.item.state = "live"
    /\ job.item.version = 1
    /\ job.item.status = InitialStatus

DeletionInv(job) ==
    /\ job.expected = 0
    /\ rows[job.code].state # "absent"
    /\ job.before \in Deletable \cap Abstract!Past(job.code)

JobInv(job) ==
    /\ job.op = "create" => CreationInv(job)
    /\ job.op \in {"update", "transition"} => RevisionInv(job)
    /\ job.op = "delete" => DeletionInv(job)

WorkInv == \A w \in Workers : JobInv(work[w])

\* A missing row has no version yet and no trail.
AbsentInv == \A k \in Codes : rows[k].state = "absent" => rows[k].version = 0 /\ trail[k] = << >>

IInv == TypeOK /\ AbsentInv /\ WorkInv /\ TrailCountsWrites /\ TrailTellsStatus
=============================================================================
