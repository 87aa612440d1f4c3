------------------------------ MODULE Listing ------------------------------
(***************************************************************************)
(* Store.List and ListAudits: a client walks over what a search and a      *)
(* status filter find, page by page.  Each page takes two queries, one for *)
(* the total and one for the rows; rows are written between any two.       *)
(***************************************************************************)
EXTENDS Naturals, Sequences, SequencesExt

CONSTANTS
    Rows,           \* bound: rows that may exist
    Start,          \* the rows that are found at the start, in the order of the query
    Outside,        \* the other rows
    Stamp,          \* Stamp[r]: created_at of r as an audit entry
    AskedSizes,     \* page sizes that clients ask for
    DefaultSize,    \* page size of those who ask for none (20)
    MaxSize,        \* largest page size (100)
    MaxWrites       \* bound: writes during a walk

ASSUME ListingAssumption ==
    /\ Start \in Seq(Rows) /\ \A i, j \in DOMAIN Start : Start[i] = Start[j] => i = j
    /\ Outside \subseteq Rows /\ \A i \in DOMAIN Start : Start[i] \notin Outside
    /\ Stamp \in [Rows -> Nat] /\ \A i, j \in DOMAIN Start : i < j => Stamp[Start[i]] >= Stamp[Start[j]]
    /\ AskedSizes \subseteq Nat /\ DefaultSize \in 1..MaxSize /\ MaxSize \in Nat
    /\ MaxWrites \in Nat

VARIABLES
    source,     \* what is listed: "records", or the "audits", which are only added
    asked,      \* page size the client asks for
    list,       \* the live rows that the filter finds, in the order of the query
    outside,    \* the live rows that it does not find
    phase,      \* what the client waits for: "total", "rows", or nothing: "done"
    page,       \* the page it is at
    total,      \* the total of the last page
    seen,       \* rows it has been given
    twice,      \* rows it has been given on more than one page
    written,    \* rows that a write has put onto the list, or moved up in it, during the walk
    left,       \* whether a row has left the list during the walk
    added,      \* rows that have come onto the list since the last total was taken
    writes

vars == <<source, asked, list, outside, phase, page, total, seen, twice, written, left, added, writes>>
client == <<source, asked, phase, page, total, seen, twice>>

\* The filter of the query, its search and its status, tells the rows of the list from the rest.
Init ==
    /\ source \in {"records", "audits"}
    /\ asked \in AskedSizes
    /\ list = Start
    /\ outside = Outside
    /\ phase = "total"
    /\ page = 1
    /\ total = 0
    /\ seen = {}
    /\ twice = {}
    /\ written = {}
    /\ left = FALSE
    /\ added = {}
    /\ writes = 0

-----------------------------------------------------------------------------
(* A page. *)

\* Slip: the page size in the answer is the one that was asked for.
BindAsAsked(size) == IF size < 1 THEN DefaultSize ELSE size

\* bindPage: a size out of range is replaced by the default; the answer names the size.
BindPage(size) == IF size < 1 \/ size > MaxSize THEN DefaultSize ELSE size

\* normalizePage: a size out of range is replaced by the nearest in range.
NormalizePage(size) == IF size < 1 THEN DefaultSize ELSE IF size > MaxSize THEN MaxSize ELSE size

CountTotal ==
    /\ phase = "total"
    /\ total' = Len(list)
    /\ phase' = "rows"
    /\ added' = {}
    /\ UNCHANGED <<source, asked, list, outside, page, seen, twice, written, left, writes>>

\* Slip: the offset is one row short from the second page on.
ShortOffset(p, size) ==
    LET offset == IF p = 1 THEN 0 ELSE (p - 1) * size - 1 IN
    {list[i] : i \in {j \in DOMAIN list : offset < j /\ j <= offset + size}}

\* Offset and Limit.
OnPage(p, size) ==
    LET offset == (p - 1) * size IN
    {list[i] : i \in {j \in DOMAIN list : offset < j /\ j <= offset + size}}

\* The client goes on until the pages named in the answer cover the total named in it.
FindRows ==
    LET found == OnPage(page, NormalizePage(BindPage(asked))) IN
    /\ phase = "rows"
    /\ seen' = seen \cup found
    /\ twice' = twice \cup (seen \cap found)
    /\ IF page * BindPage(asked) >= total
       THEN phase' = "done" /\ UNCHANGED page
       ELSE phase' = "total" /\ page' = page + 1
    /\ UNCHANGED <<source, asked, list, outside, total, written, left, added, writes>>

-----------------------------------------------------------------------------
(* The order of the rows. *)

Listed == {list[i] : i \in DOMAIN list}

\* Another entry of the list has the same stamp.  Records have their id as the last criterion.
Tied(r) == source = "audits" /\ \E q \in Listed \ {r} : Stamp[q] = Stamp[r]

\* Entries are ordered by created_at alone: a query may find those of one stamp in any order.
Shuffle(i) ==
    /\ phase = "rows" /\ source = "audits"
    /\ i + 1 \in DOMAIN list /\ Stamp[list[i]] = Stamp[list[i + 1]]
    /\ list' = [list EXCEPT ![i] = list[i + 1], ![i + 1] = list[i]]
    /\ UNCHANGED <<client, outside, written, left, added, writes>>

\* Where a row belongs that comes onto the list.  Its time is taken before its commit: rows
\* committed since may have later ones.
Places(r) ==
    {i \in 1..(Len(list) + 1) : source = "audits" =>
        /\ \A j \in 1..(i - 1) : Stamp[list[j]] >= Stamp[r]
        /\ \A j \in i..Len(list) : Stamp[r] >= Stamp[list[j]]}

Come(r) ==
    /\ \E i \in Places(r) : list' = InsertAt(list, i, r)
    /\ written' = written \cup {r} /\ added' = added \cup {r}
    /\ UNCHANGED left

\* An updated row gets a later time than it had.
Rise(r) ==
    /\ \E i \in DOMAIN list : list[i] = r /\ \E j \in 1..i : list' = InsertAt(RemoveAt(list, i), j, r)
    /\ written' = written \cup {r}
    /\ UNCHANGED <<left, added>>

Leave(r) ==
    /\ \E i \in DOMAIN list : list[i] = r /\ list' = RemoveAt(list, i)
    /\ left' = TRUE
    /\ UNCHANGED <<written, added>>

-----------------------------------------------------------------------------
(* Writes of others, in between. *)

Write == phase # "done" /\ writes < MaxWrites /\ writes' = writes + 1

Existed == {Start[i] : i \in DOMAIN Start} \cup Outside

\* Slip: a row is created again.
CreateAgain(r) ==
    /\ Write
    /\ Come(r)
    /\ UNCHANGED <<client, outside>>

\* A row that the filter does not find may as well have been outside from the start.
Create(r) ==
    /\ Write /\ r \notin Existed \cup written
    /\ Come(r)
    /\ UNCHANGED <<client, outside>>

\* The filter may find the row before, after, or both; if neither, nothing happens here.
Update(r) ==
    /\ Write /\ source = "records"
    /\ \/ r \in Listed /\ Rise(r) /\ UNCHANGED outside
       \/ r \in Listed /\ Leave(r) /\ outside' = outside \cup {r}
       \/ r \in outside /\ Come(r) /\ outside' = outside \ {r}
    /\ UNCHANGED client

Delete(r) ==
    /\ Write /\ source = "records"
    /\ \/ r \in Listed /\ Leave(r) /\ UNCHANGED outside
       \/ r \in outside /\ outside' = outside \ {r} /\ UNCHANGED <<list, written, left, added>>
    /\ UNCHANGED client

Next ==
    \/ CountTotal \/ FindRows
    \/ \E i \in DOMAIN list : Shuffle(i)
    \/ \E r \in Rows : Create(r) \/ Update(r) \/ Delete(r)

Spec == Init /\ [][Next]_vars

-----------------------------------------------------------------------------
TypeOK ==
    /\ source \in {"records", "audits"}
    /\ asked \in AskedSizes
    /\ list \in Seq(Rows) /\ \A i, j \in DOMAIN list : list[i] = list[j] => i = j
    /\ outside \subseteq Rows \ Listed /\ Listed \cup outside \subseteq Existed \cup written
    /\ phase \in {"total", "rows", "done"}
    /\ page \in Nat \ {0} /\ total \in Nat
    /\ twice \subseteq seen /\ seen \subseteq Rows /\ written \subseteq Rows
    /\ left \in BOOLEAN
    /\ added \subseteq written
    /\ writes \in 0..MaxWrites

\* Rows that were there from the start, and that no write has touched.
Kept == {Start[i] : i \in DOMAIN Start} \ written

\* A full walk gives the client every row that was found from its start, and that nobody has
\* updated, however rows move about meanwhile.  There are three exceptions: rows move up when
\* another is deleted, or updated so that the status or the search asked for finds it no more; a
\* row may come between the total and the rows of the last page; and the audit trail does not
\* say in which order entries of one stamp are.
NothingMissed ==
    phase = "done" /\ ~left /\ added = {} => \A r \in Kept : r \in seen \/ Tied(r)

\* A row comes twice only if one came onto the list or was updated during the walk, or if it is
\* an audit entry with the stamp of another one.
NothingTwice == written = {} => \A r \in twice : Tied(r)

\* Rows and offsets are counted in pages of this size.
Size == BindPage(asked)

\* Those that the client has not been given lie ahead of it, unless rows have moved up.
UnseenAreAhead ==
    ~left => \A r \in Kept : Tied(r) \/ \E i \in DOMAIN list :
        list[i] = r /\ (phase # "done" => r \in seen \/ (page - 1) * Size < i)

\* Those that it has been given lie behind it, unless rows have moved down.
SeenAreBehind ==
    written = {} =>
        /\ \A r \in twice : Tied(r)
        /\ phase # "done" => \A i \in DOMAIN list :
              list[i] \in seen => Tied(list[i]) \/ i <= (page - 1) * Size

\* The total is that of the list, unless rows have come or gone.
TotalIsLength == phase = "rows" /\ ~left /\ added = {} => total = Len(list)

IInv == TypeOK /\ TotalIsLength /\ UnseenAreAhead /\ SeenAreBehind /\ NothingMissed
=============================================================================
