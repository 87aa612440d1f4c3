----------------------------- MODULE Workbench -----------------------------
(***************************************************************************)
(* The page of an entity and its store: searching, paging, and moving the  *)
(* status of a record through a dialog.  No button waits for the request   *)
(* of another: answers arrive in any order and each replaces the list.     *)
(***************************************************************************)
EXTENDS Naturals, Sequences, FiniteSets, SequencesExt, StatusGraphs

CONSTANTS
    Ids,            \* bound: records that may exist
    FirstRows,      \* the rows at the start, latest update first
    NewStatus,      \* status of a new record
    Accepted,       \* graph of the backend
    Offered,        \* graph of the page, from TRANSITIONS
    Guarded,        \* targets that the service checks further: linked records, papers, evidence
    Searches,       \* what users type; "" is no search
    Matches,        \* Matches[s]: ids of the records that search s finds
    PageSize,       \* page size of the page (10)
    ReloadSize,     \* page size of a load that names none (20)
    Calls,          \* bound: requests under way
    MaxVersion,     \* bound: MaxVersion[id]: the last version of the row of id
    None

Rows == [id : Ids, status : DOMAIN Accepted, version : Nat \ {0}]

ASSUME WorkbenchAssumption ==
    /\ FirstRows \in Seq(Rows)
    /\ \A i, j \in DOMAIN FirstRows : FirstRows[i].id = FirstRows[j].id => i = j
    /\ NewStatus \in DOMAIN Accepted /\ DOMAIN Offered = DOMAIN Accepted
    /\ Guarded \subseteq DOMAIN Accepted
    /\ "" \in Searches /\ Matches \in [Searches -> SUBSET Ids]
    /\ {PageSize, ReloadSize} \subseteq Nat \ {0}
    /\ MaxVersion \in [Ids -> Nat \ {0}]
    /\ None \notin Rows \cup Searches

VARIABLES
    rows,       \* the table, latest update first
    items,      \* the rows in the list of the store
    meta,       \* page, size and total that came with it
    loading,    \* the store shows that it is busy
    error,      \* the store shows a failure
    search,     \* the search field
    page,       \* the page of createPagination
    pending,    \* record and target in the dialog, or None
    showCreate, \* the dialog for a new record is open
    calls,      \* calls[c]: a request under way, or Idle
    listed,     \* the search that found the list
    asked       \* the search asked for last, with nothing else under way and nothing since, or None
                \* (only a property reads these two)

vars == <<rows, items, meta, loading, error, search, page, pending, showCreate, calls, listed, asked>>
store == <<items, meta, loading, error, listed, asked>>
field == <<search, page>>

\* Both errors are answered as business_rule; the message tells them apart.
Answers ==
    {"none", "ok", "missing", "invalid_transition", "invalid_input", "version_conflict", "failed"}

Idle == [kind |-> "idle"]
Quiet == \A c \in Calls : calls[c] = Idle

\* A load; "closes" names the dialog that the one who asked for it closes when it returns.
Load(s, p, size, closes) ==
    [kind |-> "load", search |-> s, page |-> p, size |-> size, closes |-> closes,
     answer |-> "none", items |-> {}, total |-> 0]

Loads ==
    [kind : {"load"}, search : Searches, page : Nat \ {0}, size : {PageSize, ReloadSize},
     closes : {"nothing", "transition", "create"}, answer : Answers, items : SUBSET Rows, total : Nat]
Transitions == [kind : {"transition"}, item : Rows, target : DOMAIN Accepted, answer : Answers]
Creations == [kind : {"create"}, answer : Answers]
Requests == Loads \cup Transitions \cup Creations

\* The page is opened and loads its first page.
Init ==
    /\ rows = FirstRows
    /\ items = {}
    /\ meta = [page |-> 1, size |-> ReloadSize, total |-> 0]
    /\ loading = TRUE
    /\ error = FALSE
    /\ search = "" /\ asked = "" /\ listed = ""
    /\ page = 1
    /\ pending = None
    /\ showCreate = FALSE
    /\ \E c \in Calls :
          calls = [d \in Calls |-> IF d = c THEN Load("", 1, PageSize, "nothing") ELSE Idle]

-----------------------------------------------------------------------------
(* What the user does. *)

NoDialog == pending = None /\ ~showCreate
Pages == IF meta.total = 0 THEN 1 ELSE (meta.total + PageSize - 1) \div PageSize
Pager == meta.total > meta.size

Send(call) ==
    /\ \E c \in Calls : calls[c] = Idle /\ calls' = [calls EXCEPT ![c] = call]
    /\ loading' = TRUE
    /\ error' = (error /\ call.kind # "load")
    /\ asked' = IF Quiet /\ call.kind = "load" THEN search' ELSE None
    /\ UNCHANGED <<rows, items, meta, listed>>

Type(s) ==
    /\ NoDialog /\ s # search
    /\ search' = s
    /\ UNCHANGED <<rows, store, page, pending, showCreate, calls>>

\* A page of the search in the field is asked for.
Turn(p) ==
    /\ NoDialog
    /\ page' = p
    /\ UNCHANGED <<search, pending, showCreate>>
    /\ Send(Load(search, p, PageSize, "nothing"))

Query == Turn(1)

\* Slip: the field is cleared, the list is loaded with what was in it.
ResetField ==
    /\ NoDialog
    /\ search' = "" /\ page' = 1
    /\ Send(Load(search, 1, PageSize, "nothing"))
    /\ UNCHANGED <<pending, showCreate>>

Reset ==
    /\ NoDialog
    /\ search' = "" /\ page' = 1
    /\ Send(Load("", 1, PageSize, "nothing"))
    /\ UNCHANGED <<pending, showCreate>>

PreviousPage == Pager /\ page > 1 /\ Turn(page - 1)
NextPage == Pager /\ page < Pages /\ Turn(page + 1)

OpenTransition(item, target) ==
    /\ NoDialog
    /\ CanTransition(Offered, item.status, target)
    /\ pending' = [item |-> item, target |-> target]
    /\ UNCHANGED <<rows, store, field, showCreate, calls>>

CloseTransition ==
    /\ pending # None
    /\ pending' = None
    /\ UNCHANGED <<rows, store, field, showCreate, calls>>

\* confirmTransition; the dialog stays open until the answer, and can be confirmed once more.
ConfirmTransition ==
    /\ pending # None
    /\ UNCHANGED <<field, pending, showCreate>>
    /\ Send([kind |-> "transition", item |-> pending.item, target |-> pending.target,
             answer |-> "none"])

ToggleCreate ==
    /\ pending = None
    /\ showCreate' = ~showCreate
    /\ UNCHANGED <<rows, store, field, pending, calls>>

CreateDemo ==
    /\ showCreate
    /\ UNCHANGED <<field, pending, showCreate>>
    /\ Send([kind |-> "create", answer |-> "none"])

-----------------------------------------------------------------------------
(* The backend.  Its handlers are atomic here, as RecordService justifies. *)

At(id) == {i \in DOMAIN rows : rows[i].id = id}

\* Slip: another row is inserted.
MovedCopy(i, target) ==
    <<[id |-> rows[i].id, status |-> target, version |-> rows[i].version + 1]>> \o rows

\* Slip: the version of the row stays.
MovedSilently(i, target) ==
    <<[rows[i] EXCEPT !.status = target]>> \o RemoveAt(rows, i)

\* The row is written and becomes the latest one.
Moved(i, target) ==
    <<[id |-> rows[i].id, status |-> target, version |-> rows[i].version + 1]>> \o RemoveAt(rows, i)

Matching(s) == {i \in DOMAIN rows : rows[i].id \in Matches[s]}

\* The rows that a page of a search shows.
OnPage(s, p, size) ==
    LET place(i) == Cardinality({j \in Matching(s) : j <= i}) IN
    {rows[i] : i \in {j \in Matching(s) : (p - 1) * size < place(j) /\ place(j) <= p * size}}

\* List, with the page its arguments name.
AnswerLoad(c) ==
    LET call == calls[c] IN
    /\ call.kind = "load" /\ call.answer = "none"
    /\ \/ calls' = [calls EXCEPT ![c].answer = "ok", ![c].total = Cardinality(Matching(call.search)),
                        ![c].items = OnPage(call.search, call.page, call.size)]
       \/ calls' = [calls EXCEPT ![c].answer = "failed"]
    /\ UNCHANGED rows

\* Slip: the expected version is not compared.
OutcomesUnversioned(call) ==
    IF At(call.item.id) = {} THEN {"missing"}
    ELSE LET row == rows[CHOOSE i \in At(call.item.id) : TRUE] IN
         IF ~CanTransition(Accepted, row.status, call.target) THEN {"invalid_transition"}
         ELSE {"ok"} \cup (IF call.target \in Guarded THEN {"invalid_input"} ELSE {})

\* What Transition may say to a request.  Whether the linked records and papers that a guarded
\* target depends on are in order is not told by the row.
Outcomes(call) ==
    IF At(call.item.id) = {} THEN {"missing"}
    ELSE LET row == rows[CHOOSE i \in At(call.item.id) : TRUE] IN
         IF ~CanTransition(Accepted, row.status, call.target) THEN {"invalid_transition"}
         ELSE (IF row.version = call.item.version THEN {"ok"} ELSE {"version_conflict"})
              \cup (IF call.target \in Guarded THEN {"invalid_input"} ELSE {})

\* The answer may be lost, or be a failure, whether or not the write took place.
AnswerTransition(c) ==
    /\ calls[c].kind = "transition" /\ calls[c].answer = "none"
    /\ \/ \E outcome \in Outcomes(calls[c]) :
          /\ IF outcome = "ok"
             THEN \E i \in At(calls[c].item.id) :
                     rows[i].version < MaxVersion[rows[i].id] /\ rows' = Moved(i, calls[c].target)
             ELSE UNCHANGED rows
          /\ \E answer \in {outcome, "failed"} : calls' = [calls EXCEPT ![c].answer = answer]
       \/ calls' = [calls EXCEPT ![c].answer = "failed"] /\ UNCHANGED rows

AnswerCreate(c) ==
    /\ calls[c].kind = "create" /\ calls[c].answer = "none"
    /\ \/ \E id \in Ids :
             /\ At(id) = {}
             /\ rows' = <<[id |-> id, status |-> NewStatus, version |-> 1]>> \o rows
             /\ \E answer \in {"ok", "failed"} : calls' = [calls EXCEPT ![c].answer = answer]
       \/ calls' = [calls EXCEPT ![c].answer = "failed"] /\ UNCHANGED rows

Answer(c) ==
    /\ AnswerLoad(c) \/ AnswerTransition(c) \/ AnswerCreate(c)
    /\ UNCHANGED <<store, field, pending, showCreate>>

\* Another user moves a record.
OthersMove(i, target) ==
    /\ CanTransition(Accepted, rows[i].status, target) /\ rows[i].version < MaxVersion[rows[i].id]
    /\ rows' = Moved(i, target)
    /\ UNCHANGED <<store, field, pending, showCreate, calls>>

-----------------------------------------------------------------------------
(* What the page does with an answer. *)

\* The end of load: a failed one keeps the list.  Who awaited it goes on, and closes its dialog.
LoadReturns(c) ==
    /\ calls[c].kind = "load" /\ calls[c].answer # "none"
    /\ IF calls[c].answer = "ok"
       THEN /\ items' = calls[c].items /\ listed' = calls[c].search
            /\ meta' = [page |-> calls[c].page, size |-> calls[c].size, total |-> calls[c].total]
       ELSE UNCHANGED <<items, meta, listed>>
    /\ loading' = FALSE
    /\ error' = (calls[c].answer # "ok")
    /\ pending' = IF calls[c].closes = "transition" THEN None ELSE pending
    /\ showCreate' = (showCreate /\ calls[c].closes # "create")
    /\ calls' = [calls EXCEPT ![c] = Idle]
    /\ UNCHANGED asked

\* Slip: a refusal is passed on to the page only.
WriteReturnsSilently(c) ==
    /\ calls[c].kind \in {"transition", "create"} /\ calls[c].answer # "none"
    /\ IF calls[c].answer = "ok"
       THEN /\ loading' = TRUE /\ error' = FALSE
            /\ calls' = [calls EXCEPT ![c] = Load("", 1, ReloadSize, calls[c].kind)]
       ELSE calls' = [calls EXCEPT ![c] = Idle] /\ UNCHANGED <<loading, error>>
    /\ UNCHANGED <<items, meta, listed, asked, pending, showCreate>>

\* The end of transition and createRecord: the first rows of the table are loaded, without a
\* search; after a failure the dialog stays open as it is.
WriteReturns(c) ==
    /\ calls[c].kind \in {"transition", "create"} /\ calls[c].answer # "none"
    /\ IF calls[c].answer = "ok"
       THEN /\ loading' = TRUE /\ error' = FALSE
            /\ calls' = [calls EXCEPT ![c] = Load("", 1, ReloadSize, calls[c].kind)]
       ELSE calls' = [calls EXCEPT ![c] = Idle] /\ loading' = FALSE /\ error' = TRUE
    /\ UNCHANGED <<items, meta, listed, asked, pending, showCreate>>

Return(c) == (LoadReturns(c) \/ WriteReturns(c)) /\ UNCHANGED <<rows, field>>

Next ==
    \/ \E s \in Searches : Type(s)
    \/ Query \/ Reset \/ PreviousPage \/ NextPage
    \/ \E item \in items, target \in DOMAIN Accepted : OpenTransition(item, target)
    \/ CloseTransition \/ ConfirmTransition \/ ToggleCreate \/ CreateDemo
    \/ \E c \in Calls : Answer(c) \/ Return(c)
    \/ \E i \in DOMAIN rows, target \in DOMAIN Accepted : OthersMove(i, target)

Spec == Init /\ [][Next]_vars

-----------------------------------------------------------------------------
TypeOK ==
    /\ rows \in Seq(Rows) /\ \A i, j \in DOMAIN rows : rows[i].id = rows[j].id => i = j
    /\ items \subseteq Rows
    /\ meta \in [page : Nat \ {0}, size : {PageSize, ReloadSize}, total : Nat]
    /\ loading \in BOOLEAN /\ error \in BOOLEAN
    /\ {search, listed} \subseteq Searches /\ asked \in Searches \cup {None}
    /\ page \in Nat \ {0}
    /\ pending \in [item : Rows, target : DOMAIN Accepted] \cup {None}
    /\ showCreate \in BOOLEAN
    /\ calls \in [Calls -> {Idle} \cup Requests]

\* A copy tells what its record was at the version it names, and is never ahead of it.
IsTrue(copy) == \E i \in At(copy.id) : copy = rows[i] \/ copy.version < rows[i].version

\* So does every copy, in the list, in a dialog or under way: the version stands for the rest.
CopiesAreTrue ==
    /\ \A copy \in items : IsTrue(copy)
    /\ pending # None => IsTrue(pending.item)
    /\ \A c \in Calls :
          /\ calls[c].kind = "load" => \A copy \in calls[c].items : IsTrue(copy)
          /\ calls[c].kind = "transition" => IsTrue(calls[c].item)

\* A confirmed dialog is carried out as it was read: the record goes from the status shown there
\* to the one named there, however old the list is, and however often it is confirmed or lost.
DoesWhatItShows ==
    [][\A c \in Calls, i \in DOMAIN rows :
          /\ calls[c].kind = "transition" /\ calls[c].item.id = rows[i].id
          /\ calls'[c] # calls[c] /\ rows' # rows
          => rows[i].status = calls[c].item.status /\ Head(rows').status = calls[c].target]_vars

\* The page offers what the backend allows: the status graph refuses a move only if the record
\* has changed since it was listed.  A record that has not changed is still refused when its
\* linked records or papers are not in order; that is another error, under the same code.
OfferedIsAccepted ==
    [][\A c \in Calls, i \in DOMAIN rows :
          /\ calls[c].kind = "transition" /\ calls[c].item.id = rows[i].id
          /\ calls[c].answer = "none" /\ calls'[c].answer = "invalid_transition"
          => rows[i].version # calls[c].item.version]_vars

\* The page shows that it is busy only while a request is under way: overlapping requests set
\* and clear the same flag, and whichever ends last, well or not, leaves the page idle.
BusyEnds == Quiet => ~loading

\* The list is that of the search asked for last, once nothing is under way and nothing has
\* failed, but only if that search was alone: the answer to an older one may come later and
\* replace the list, and a move or a new record loads the list without the search on display.
CurrentQueryShown == Quiet /\ ~error /\ asked # None => listed = asked

\* A dialog and the request it sends name a move that was offered for the copy they hold.
MovesAreOffered ==
    /\ pending # None => CanTransition(Offered, pending.item.status, pending.target)
    /\ \A c \in Calls : calls[c].kind = "transition" =>
          CanTransition(Offered, calls[c].item.status, calls[c].target)

\* A search that is alone is under way, and nothing else is, or has been answered.
AloneUntilShown ==
    asked # None =>
          \/ Quiet /\ (error \/ listed = asked)
          \/ \E c \in Calls :
                /\ calls[c].kind = "load" /\ calls[c].search = asked
                /\ \A d \in Calls \ {c} : calls[d] = Idle

IInv == TypeOK /\ CopiesAreTrue /\ MovesAreOffered /\ BusyEnds /\ AloneUntilShown
=============================================================================
