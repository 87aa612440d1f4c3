------------------------------- MODULE Registry -------------------------------
(***************************************************************************)
(* The four tables of the backend, its clock, and the requests being       *)
(* served: the state that the service modules share.                       *)
(*                                                                         *)
(* A handler runs in steps: it reads its own row, looks up the records the *)
(* row is linked to, and opens its transaction.  The steps of the handlers *)
(* interleave; nothing is locked between them.  A transaction is atomic,   *)
(* and takes effect only if its WHERE clause still finds the row.          *)
(*                                                                         *)
(* Clients send back the version they have read.  RecordServiceProofs      *)
(* shows that one which is no longer current when the handler reads the    *)
(* row can never be written; only current ones are modelled.               *)
(***************************************************************************)
EXTENDS Naturals, StatusGraphs

CONSTANTS
    GeneratorCodes, CarrierCodes, ManifestCodes, CheckCodes,
    Workers,        \* goroutines serving requests
    Horizon,        \* bound: the clock runs from 0 to Horizon
    ExpiryDates,    \* expiry dates a permit or a license can be given
    VersionBound    \* bound: per table, no row is revised beyond this version

Tables == {"generators", "carriers", "manifests", "checks"}

ASSUME RegistryAssumption ==
    /\ Horizon \in Nat
    /\ ExpiryDates \subseteq Nat
    /\ VersionBound \in [Tables -> Nat]

VARIABLES
    generators, carriers, manifests, checks,
    now,    \* the time the handlers' time.Now() returns
    work    \* work[w]: the request w is serving and how far it has got

registry == <<generators, carriers, manifests, checks, now, work>>

RowState == {"absent", "live", "deleted"}

Permit(statuses) ==
    [state : RowState, status : statuses, version : Nat, expires : ExpiryDates]

GeneratorRow == Permit(DOMAIN WasteGeneratorTransitions)

CarrierRow == Permit(DOMAIN CarrierProfileTransitions)

ManifestRow == [state : RowState, status : DOMAIN TransferManifestTransitions, version : Nat,
                generator : GeneratorCodes, carrier : CarrierCodes]

CheckRow == [state : RowState, status : DOMAIN ComplianceCheckTransitions, version : Nat,
             manifest : ManifestCodes]

Idle == [table |-> "none"]

\* The version of a linked record a look-up has seen, and when; only the properties use it.
Sighting == [version : Nat, at : Nat]
Unseen == [version |-> 0, at |-> 0]

\* step is the next thing the handler does: look up a linked record, or write.
JobOf(tables, codes, rows) ==
    [table : tables, op : {"create", "update", "transition", "delete"}, code : codes, item : rows,
     step : {"generator", "carrier", "manifest", "write"}, seen : [Tables -> Sighting]]

Job == JobOf({"generators"}, GeneratorCodes, GeneratorRow)
       \cup JobOf({"carriers"}, CarrierCodes, CarrierRow)
       \cup JobOf({"manifests"}, ManifestCodes, ManifestRow)
       \cup JobOf({"checks"}, CheckCodes, CheckRow)

-----------------------------------------------------------------------------
(* Store: the operations of repository/base.go that the services call. *)

\* Get and FindByCode: soft-deleted rows are not found.
Found(table, code) == table[code].state = "live"

\* Slip: a WHERE clause without the version.
IdMatches(row, item) == TRUE

\* WHERE version = ? of updateRecord: item was computed from the row and carries the next version.
VersionMatches(row, item) == row.version + 1 = item.version

\* The transaction finds what it writes: a free code, the version it expects, a row to delete.
Writable(table, job) ==
    \/ job.op = "create" /\ table[job.code].state = "absent"
    \/ /\ job.op \in {"update", "transition"}
       /\ Found(table, job.code)
       /\ VersionMatches(table[job.code], job.item)
    \/ job.op = "delete" /\ Found(table, job.code)

\* Slip: a deletion recorded in the status column.
WrittenByStatus(table, job) ==
    IF job.op = "delete" THEN [table EXCEPT ![job.code].status = "deleted"]
                         ELSE [table EXCEPT ![job.code] = job.item]

Written(table, job) ==
    IF job.op = "delete" THEN [table EXCEPT ![job.code].state = "deleted"]
                         ELSE [table EXCEPT ![job.code] = job.item]

\* The row after the revision a handler is about to make, within the bound on versions.
Revisable(tableName, row) == row.version < VersionBound[tableName]

-----------------------------------------------------------------------------
(* Serving a request. *)

\* A worker accepts a request, reads the row and prepares item; step is what follows.
Begin(w, tableName, op, code, item, step) ==
    /\ work[w] = Idle
    /\ work' = [work EXCEPT ![w] =
                   [table |-> tableName, op |-> op, code |-> code, item |-> item, step |-> step,
                    seen |-> [t \in Tables |-> Unseen]]]
    /\ UNCHANGED <<generators, carriers, manifests, checks, now>>

\* A look-up succeeded, and the handler goes on to step.
LookedUp(w, tableName, row, step) ==
    /\ work' = [work EXCEPT ![w].step = step, 
                             ![w].seen[tableName] = [version |-> row.version, at |-> now]]
    /\ UNCHANGED <<generators, carriers, manifests, checks, now>>

Serving(w, tableName, step) == work[w].table = tableName /\ work[w].step = step

Finish(w) == work' = [work EXCEPT ![w] = Idle]

\* Every way for a handler to end without a write: a refused look-up, a version conflict, a
\* row already gone, a cancelled request, a database error, the end of the process.
Abandon(w) ==
    /\ work[w] # Idle
    /\ Finish(w)
    /\ UNCHANGED <<generators, carriers, manifests, checks, now>>

Tick ==
    /\ now < Horizon
    /\ now' = now + 1
    /\ UNCHANGED <<generators, carriers, manifests, checks, work>>
=============================================================================
