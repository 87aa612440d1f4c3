---------------------------- MODULE AuditedRecord ----------------------------
(***************************************************************************)
(* What an aggregate promises its clients, whatever its handlers do in     *)
(* between: every write takes effect in one step, on the row as it is at   *)
(* that step, moves the status along the graph, adds one to the version    *)
(* and leaves exactly one entry in the audit trail of the row.             *)
(*                                                                         *)
(* A removal promises less.  Its entry names a status the row once had and *)
(* in which it could be removed; the row may have moved on since.          *)
(***************************************************************************)
EXTENDS Naturals, Sequences, StatusGraphs

CONSTANTS
    Codes,          \* business codes; a code names one row for ever
    Statuses,       \* statuses of this aggregate
    Contents,       \* values of the fields an update may replace
    Transitions,    \* status graph of this aggregate
    InitialStatus,  \* status of a new row
    Editable,       \* statuses in which an update is accepted
    Deletable,      \* statuses in which a deletion is accepted
    Seed            \* rows the database starts with

VARIABLES
    rows,   \* rows[k]: the row with code k
    trail   \* trail[k]: audit entries of that row, oldest first

Unsaved == "none"     \* the empty before-state of a create entry
Gone    == "deleted"  \* the after-state of a delete entry

\* An audit entry, with the version its request expected to find.
Entry(action, before, after, expected) ==
    [action |-> action, before |-> before, after |-> after, expected |-> expected]

\* The status a row starts its trail with.
Origin(k) == IF Seed[k].state = "live" THEN Seed[k].status ELSE Unsaved

\* Statuses row k has been in.
Past(k) == {Origin(k)} \cup {trail[k][i].after : i \in DOMAIN trail[k]}

Record(k, row, entry) ==
    /\ rows' = [rows EXCEPT ![k] = row]
    /\ trail' = [trail EXCEPT ![k] = Append(@, entry)]

Init ==
    /\ rows = Seed
    /\ trail = [k \in Codes |-> << >>]

Add(k, d) ==
    /\ rows[k].state = "absent"
    /\ Record(k, [state |-> "live", status |-> InitialStatus, version |-> 1, content |-> d],
              Entry("create", Unsaved, InitialStatus, 0))

Edit(k, d) ==
    /\ rows[k].state = "live"
    /\ rows[k].status \in Editable
    /\ Record(k, [rows[k] EXCEPT !.content = d, !.version = rows[k].version + 1],
              Entry("update", rows[k].status, rows[k].status, rows[k].version))

Move(k, s) ==
    /\ rows[k].state = "live"
    /\ CanTransition(Transitions, rows[k].status, s)
    /\ Record(k, [rows[k] EXCEPT !.status = s, !.version = rows[k].version + 1],
              Entry("transition", rows[k].status, s, rows[k].version))

Remove(k, before) ==
    /\ rows[k].state = "live"
    /\ before \in Deletable \cap Past(k)
    /\ Record(k, [rows[k] EXCEPT !.state = "deleted"], Entry("delete", before, Gone, 0))

Next ==
    \E k \in Codes :
        \/ \E d \in Contents : Add(k, d) \/ Edit(k, d)
        \/ \E s \in Statuses : Move(k, s) \/ Remove(k, s)

Spec == Init /\ [][Next]_<<rows, trail>>

=============================================================================
