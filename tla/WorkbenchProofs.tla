--------------------------- MODULE WorkbenchProofs ---------------------------
(* What the pages offer, and what a page and its store keep true. *)
EXTENDS Workbench, FiniteSetTheorems, SequenceTheorems, TLAPS

(* The graphs of the pages and those of the backend. *)

\* Whatever move the page of the generators offers, the backend allows.
THEOREM GeneratorsAgree ==
    \A s, t : CanTransition(OfferedForGenerators, s, t) => CanTransition(WasteGeneratorTransitions, s, t)
  BY DEF CanTransition, OfferedForGenerators, WasteGeneratorTransitions

\* So it is with manifests.
THEOREM ManifestsAgree ==
    \A s, t : CanTransition(OfferedForManifests, s, t) => CanTransition(TransferManifestTransitions, s, t)
  BY DEF CanTransition, OfferedForManifests, TransferManifestTransitions

\* The page of the carriers offers one move that the backend refuses, the expiry of a pending one.
THEOREM CarriersDiffer ==
    \A s, t :
        CanTransition(OfferedForCarriers, s, t) /\ ~CanTransition(CarrierProfileTransitions, s, t)
        <=> s = "pending" /\ t = "expired"
  BY DEF CanTransition, OfferedForCarriers, CarrierProfileTransitions

\* So does that of the checks: to escalate a pending one.
THEOREM ChecksDiffer ==
    \A s, t :
        CanTransition(OfferedForChecks, s, t) /\ ~CanTransition(ComplianceCheckTransitions, s, t)
        <=> s = "pending" /\ t = "escalated"
  BY DEF CanTransition, OfferedForChecks, ComplianceCheckTransitions

\* No page withholds a move that the backend allows.
THEOREM NothingWithheld ==
    \A s, t :
        /\ CanTransition(WasteGeneratorTransitions, s, t) => CanTransition(OfferedForGenerators, s, t)
        /\ CanTransition(CarrierProfileTransitions, s, t) => CanTransition(OfferedForCarriers, s, t)
        /\ CanTransition(TransferManifestTransitions, s, t) => CanTransition(OfferedForManifests, s, t)
        /\ CanTransition(ComplianceCheckTransitions, s, t) => CanTransition(OfferedForChecks, s, t)
  BY DEF CanTransition, OfferedForGenerators, WasteGeneratorTransitions, OfferedForCarriers,
     CarrierProfileTransitions, OfferedForManifests, TransferManifestTransitions, OfferedForChecks,
     ComplianceCheckTransitions

\* What is decided stays decided: no move leaves a finished manifest, a passed or escalated
\* check, or an expired permit, whatever is asked.
THEOREM FinalStatuses ==
    \A t :
        /\ \A s \in {"received", "rejected"} : ~CanTransition(TransferManifestTransitions, s, t)
        /\ \A s \in {"pass", "escalated"} : ~CanTransition(ComplianceCheckTransitions, s, t)
        /\ ~CanTransition(WasteGeneratorTransitions, "expired", t)
        /\ ~CanTransition(CarrierProfileTransitions, "expired", t)
  BY DEF CanTransition, WasteGeneratorTransitions, CarrierProfileTransitions,
     TransferManifestTransitions, ComplianceCheckTransitions

-----------------------------------------------------------------------------
(* The types, and the table under the copies. *)

\* A request is of the kind it says.
LEMMA Kinds ==
    ASSUME TypeOK, NEW c \in Calls
    PROVE  /\ calls[c] # Idle => calls[c] \in Requests
           /\ calls[c].kind = "load" => calls[c] \in Loads
           /\ calls[c].kind = "transition" => calls[c] \in Transitions
           /\ calls[c].kind = "create" => calls[c] \in Creations
  BY DEF TypeOK, Requests, Idle, Loads, Transitions, Creations

\* Moving a row to the front keeps the others, in their order.
LEMMA MovedRows ==
    ASSUME NEW i, NEW target,
           rows \in Seq(Rows), i \in DOMAIN rows, target \in DOMAIN Accepted
    PROVE  /\ Moved(i, target) \in Seq(Rows) /\ Len(Moved(i, target)) = Len(rows)
           /\ Moved(i, target)[1].id = rows[i].id
           /\ Moved(i, target)[1].status = target
           /\ Moved(i, target)[1].version = rows[i].version + 1
           /\ \A j \in 2..Len(rows) :
                 Moved(i, target)[j] = IF j <= i THEN rows[j - 1] ELSE rows[j]
<1> DEFINE row == [id |-> rows[i].id, status |-> target, version |-> rows[i].version + 1]
           before == SubSeq(rows, 1, i - 1)
           after == SubSeq(rows, i + 1, Len(rows))
<1>1. /\ row \in Rows
      /\ row.id = rows[i].id /\ row.status = target /\ row.version = rows[i].version + 1
  <2>1. rows[i] \in Rows
    BY ElementOfSeq
  <2> QED  BY <2>1 DEF Rows
<1>2. i \in 1..Len(rows) /\ Len(rows) \in Nat /\ \A j \in 1..Len(rows) : rows[j] \in Rows
  BY ElementOfSeq
<1>3. /\ before \in Seq(Rows) /\ Len(before) = i - 1
      /\ \A j \in 1..(i - 1) : before[j] = rows[j]
  BY <1>2, SubSeqProperties
<1>4. /\ after \in Seq(Rows) /\ Len(after) = Len(rows) - i
      /\ \A j \in 1..(Len(rows) - i) : after[j] = rows[i + j]
  BY <1>2, SubSeqProperties
<1> HIDE DEF row, before, after
<1>5. /\ before \o after \in Seq(Rows) /\ Len(before \o after) = Len(rows) - 1
      /\ \A j \in 1..(Len(rows) - 1) :
            (before \o after)[j] = IF j <= i - 1 THEN rows[j] ELSE rows[j + 1]
  <2>1. Len(before) + Len(after) = Len(rows) - 1
    BY <1>2, <1>3, <1>4
  <2>2. /\ before \o after \in Seq(Rows)
        /\ Len(before \o after) = Len(before) + Len(after)
        /\ \A j \in 1..(Len(before) + Len(after)) :
              (before \o after)[j] = IF j <= Len(before) THEN before[j] ELSE after[j - Len(before)]
    BY <1>3, <1>4, ConcatProperties
  <2>3. ASSUME NEW j \in 1..(Len(rows) - 1)
        PROVE  (before \o after)[j] = IF j <= i - 1 THEN rows[j] ELSE rows[j + 1]
    <3>1. CASE j <= i - 1
      BY <1>2, <1>3, <2>1, <2>2, <3>1
    <3>2. CASE ~(j <= i - 1)
      <4> DEFINE k == j - (i - 1)
      <4>1. k \in 1..(Len(rows) - i) /\ i + k = j + 1
        BY <1>2, <3>2
      <4>2. (before \o after)[j] = after[k]
        BY <1>2, <1>3, <2>1, <2>2, <3>2
      <4> HIDE DEF k
      <4> QED  BY <1>4, <3>2, <4>1, <4>2
    <3> QED  BY <3>1, <3>2
  <2> QED  BY <2>1, <2>2, <2>3
<1>6. <<row>> \in Seq(Rows) /\ Len(<<row>>) = 1 /\ <<row>>[1] = row
  BY <1>1
<1>7. /\ <<row>> \o (before \o after) \in Seq(Rows)
      /\ Len(<<row>> \o (before \o after)) = Len(rows)
      /\ \A j \in 1..Len(rows) : (<<row>> \o (before \o after))[j] =
            IF j <= 1 THEN <<row>>[j] ELSE (before \o after)[j - 1]
  BY <1>2, <1>5, <1>6, ConcatProperties
<1>8. Moved(i, target) = <<row>> \o (before \o after)
  BY DEF Moved, RemoveAt, row, before, after
<1>9. ASSUME NEW j \in 1..Len(rows)
      PROVE  Moved(i, target)[j] = IF j = 1 THEN row ELSE IF j <= i THEN rows[j - 1] ELSE rows[j]
  BY <1>2, <1>5, <1>6, <1>7, <1>8
<1>10. Moved(i, target)[1] = row
  BY <1>2, <1>9
<1>11. \A j \in 2..Len(rows) : Moved(i, target)[j] = IF j <= i THEN rows[j - 1] ELSE rows[j]
  BY <1>2, <1>9
<1>12. Moved(i, target) \in Seq(Rows) /\ Len(Moved(i, target)) = Len(rows)
  BY <1>7, <1>8
<1> QED  BY <1>1, <1>10, <1>11, <1>12

\* So a copy stays true when a row is moved.
LEMMA MoveKeepsCopies ==
    ASSUME TypeOK, NEW i, NEW target, i \in DOMAIN rows, target \in DOMAIN Accepted,
           rows' = Moved(i, target)
    PROVE  /\ rows' \in Seq(Rows)
           /\ \A j, k \in DOMAIN rows' : rows'[j].id = rows'[k].id => j = k
           /\ \A copy \in Rows : IsTrue(copy) => IsTrue(copy)'
<1>1. /\ rows \in Seq(Rows) /\ Len(rows) \in Nat /\ DOMAIN rows = 1..Len(rows)
      /\ \A j, k \in DOMAIN rows : rows[j].id = rows[k].id => j = k
      /\ \A j \in DOMAIN rows : rows[j] \in Rows
  BY ElementOfSeq DEF TypeOK
<1>2. /\ rows' \in Seq(Rows) /\ Len(rows') = Len(rows) /\ DOMAIN rows' = 1..Len(rows)
      /\ rows'[1].id = rows[i].id /\ rows'[1].version = rows[i].version + 1
      /\ \A j \in 2..Len(rows) : rows'[j] = IF j <= i THEN rows[j - 1] ELSE rows[j]
  <2>1. /\ Moved(i, target) \in Seq(Rows) /\ Len(Moved(i, target)) = Len(rows)
        /\ Moved(i, target)[1].id = rows[i].id
        /\ Moved(i, target)[1].version = rows[i].version + 1
        /\ \A j \in 2..Len(rows) :
              Moved(i, target)[j] = IF j <= i THEN rows[j - 1] ELSE rows[j]
    BY <1>1, MovedRows
  <2>2. DOMAIN Moved(i, target) = 1..Len(rows)
    BY <2>1
  <2> QED  BY <2>1, <2>2
<1> DEFINE old(j) == IF j = 1 THEN i ELSE IF j <= i THEN j - 1 ELSE j
<1>3. \A j \in 1..Len(rows) : old(j) \in 1..Len(rows) /\ rows'[j].id = rows[old(j)].id
  BY <1>1, <1>2
<1>4. \A j, k \in 1..Len(rows) : old(j) = old(k) => j = k
  BY <1>1
<1>5. \A j, k \in DOMAIN rows' : rows'[j].id = rows'[k].id => j = k
  <2> HIDE DEF old
  <2> SUFFICES ASSUME NEW j \in 1..Len(rows), NEW k \in 1..Len(rows), rows'[j].id = rows'[k].id
               PROVE  j = k
    BY <1>2
  <2>1. rows[old(j)].id = rows[old(k)].id
    BY <1>3
  <2>2. old(j) = old(k)
    BY <1>1, <1>3, <2>1
  <2> QED  BY <1>4, <2>2
<1>6. ASSUME NEW copy \in Rows, NEW j \in DOMAIN rows, rows[j].id = copy.id,
             copy = rows[j] \/ copy.version < rows[j].version
      PROVE  IsTrue(copy)'
  <2>1. rows[j].version \in Nat /\ copy.version \in Nat
    BY <1>1, <1>6 DEF Rows
  <2>2. CASE j = i
    <3>1. rows'[1].id = copy.id /\ 1 \in DOMAIN rows'
      BY <1>1, <1>2, <1>6, <2>2
    <3>2. copy.version < rows'[1].version
      BY <1>2, <1>6, <2>1, <2>2
    <3> QED  BY <3>1, <3>2 DEF IsTrue, At
  <2>3. CASE j < i
    <3>1. rows'[j + 1] = rows[j] /\ j + 1 \in DOMAIN rows'
      BY <1>1, <1>2, <2>3
    <3> QED  BY <1>6, <3>1 DEF IsTrue, At
  <2>4. CASE j > i
    <3>1. rows'[j] = rows[j] /\ j \in DOMAIN rows'
      BY <1>1, <1>2, <2>4
    <3> QED  BY <1>6, <3>1 DEF IsTrue, At
  <2> QED  BY <1>1, <2>2, <2>3, <2>4
<1>7. \A copy \in Rows : IsTrue(copy) => IsTrue(copy)'
  BY <1>6 DEF IsTrue, At
<1> QED  BY <1>2, <1>5, <1>7

\* And when one is added.
LEMMA CreationKeepsCopies ==
    ASSUME TypeOK, NEW row \in Rows, At(row.id) = {}, rows' = <<row>> \o rows
    PROVE  /\ rows' \in Seq(Rows)
           /\ \A j, k \in DOMAIN rows' : rows'[j].id = rows'[k].id => j = k
           /\ \A copy \in Rows : IsTrue(copy) => IsTrue(copy)'
<1>1. /\ rows \in Seq(Rows) /\ Len(rows) \in Nat /\ DOMAIN rows = 1..Len(rows)
      /\ \A j, k \in DOMAIN rows : rows[j].id = rows[k].id => j = k
      /\ \A j \in DOMAIN rows : rows[j].id # row.id
  BY DEF TypeOK, At
<1>2. <<row>> \in Seq(Rows) /\ Len(<<row>>) = 1 /\ <<row>>[1] = row
  OBVIOUS
<1>3. /\ rows' \in Seq(Rows) /\ Len(rows') = Len(rows) + 1
      /\ \A j \in 1..(1 + Len(rows)) : rows'[j] = IF j <= 1 THEN <<row>>[j] ELSE rows[j - 1]
  BY <1>1, <1>2, ConcatProperties
<1>4. DOMAIN rows' = 1..(1 + Len(rows)) /\ rows'[1] = row
  BY <1>1, <1>2, <1>3
<1>5. \A j \in DOMAIN rows : rows'[j + 1] = rows[j] /\ j + 1 \in DOMAIN rows'
  BY <1>1, <1>3, <1>4
<1>6. \A j \in DOMAIN rows' : j # 1 => j - 1 \in DOMAIN rows /\ rows'[j] = rows[j - 1]
  BY <1>1, <1>3, <1>4
<1>7. \A j, k \in DOMAIN rows' : rows'[j].id = rows'[k].id => j = k
  <2> SUFFICES ASSUME NEW j \in DOMAIN rows', NEW k \in DOMAIN rows', rows'[j].id = rows'[k].id
               PROVE  j = k
    OBVIOUS
  <2>1. CASE j = 1 \/ k = 1
    BY <1>1, <1>4, <1>6, <2>1
  <2>2. CASE j # 1 /\ k # 1
    <3>1. j - 1 = k - 1
      BY <1>1, <1>6, <2>2
    <3> QED  BY <1>1, <1>4, <3>1
  <2> QED  BY <2>1, <2>2
<1>8. \A copy \in Rows : IsTrue(copy) => IsTrue(copy)'
  BY <1>5 DEF IsTrue, At
<1> QED  BY <1>3, <1>7, <1>8

\* The table changes in these two ways only.
LEMMA RowsChange ==
    ASSUME TypeOK, [Next]_vars
    PROVE  \/ UNCHANGED rows
           \/ \E i \in DOMAIN rows, target \in DOMAIN Accepted : rows' = Moved(i, target)
           \/ \E id \in Ids : /\ At(id) = {}
                              /\ rows' = <<[id |-> id, status |-> NewStatus, version |-> 1]>> \o rows
<1>1. ASSUME NEW c \in Calls, AnswerTransition(c)
      PROVE  UNCHANGED rows \/ \E i \in DOMAIN rows, target \in DOMAIN Accepted : rows' = Moved(i, target)
  <2>1. calls[c] \in Transitions
    BY <1>1, Kinds DEF AnswerTransition
  <2>2. calls[c].target \in DOMAIN Accepted
    BY <2>1 DEF Transitions
  <2> QED  BY <1>1, <2>2 DEF AnswerTransition, At
<1>2. ASSUME NEW c \in Calls, Answer(c)
      PROVE  \/ UNCHANGED rows
             \/ \E i \in DOMAIN rows, target \in DOMAIN Accepted : rows' = Moved(i, target)
             \/ \E id \in Ids : /\ At(id) = {}
                                /\ rows' = <<[id |-> id, status |-> NewStatus, version |-> 1]>> \o rows
  BY <1>1, <1>2 DEF Answer, AnswerLoad, AnswerCreate
<1>3. ASSUME NEW c \in Calls, Return(c)
      PROVE  UNCHANGED rows
  BY <1>3 DEF Return
<1>4. ASSUME NEW i \in DOMAIN rows, NEW target \in DOMAIN Accepted, OthersMove(i, target)
      PROVE  rows' = Moved(i, target)
  BY <1>4 DEF OthersMove
<1>5. ASSUME \/ \E s \in Searches : Type(s)
             \/ Query \/ Reset \/ PreviousPage \/ NextPage
             \/ \E item \in items, target \in DOMAIN Accepted : OpenTransition(item, target)
             \/ CloseTransition \/ ConfirmTransition \/ ToggleCreate \/ CreateDemo
      PROVE  UNCHANGED rows
  BY <1>5 DEF Type, Query, Reset, PreviousPage, NextPage, Turn, Send, OpenTransition,
     CloseTransition, ConfirmTransition, ToggleCreate, CreateDemo
<1> QED  BY <1>2, <1>3, <1>4, <1>5 DEF Next, vars

\* Whatever happens to the table, rows stay rows and true copies stay true.
LEMMA RowsStep ==
    ASSUME TypeOK, [Next]_vars
    PROVE  /\ rows' \in Seq(Rows)
           /\ \A j, k \in DOMAIN rows' : rows'[j].id = rows'[k].id => j = k
           /\ \A copy \in Rows : IsTrue(copy) => IsTrue(copy)'
<1>1. CASE UNCHANGED rows
  <2>1. \A copy \in Rows : IsTrue(copy) => IsTrue(copy)'
    BY <1>1 DEF IsTrue, At
  <2> QED  BY <1>1, <2>1 DEF TypeOK
<1>2. CASE \E i \in DOMAIN rows, target \in DOMAIN Accepted : rows' = Moved(i, target)
  BY <1>2, MoveKeepsCopies
<1>3. ASSUME NEW id \in Ids, At(id) = {},
             rows' = <<[id |-> id, status |-> NewStatus, version |-> 1]>> \o rows
      PROVE  /\ rows' \in Seq(Rows)
             /\ \A j, k \in DOMAIN rows' : rows'[j].id = rows'[k].id => j = k
             /\ \A copy \in Rows : IsTrue(copy) => IsTrue(copy)'
  <2> DEFINE row == [id |-> id, status |-> NewStatus, version |-> 1]
  <2>1. row \in Rows /\ row.id = id
    <3>1. NewStatus \in DOMAIN Accepted
      BY WorkbenchAssumption
    <3> QED  BY <3>1 DEF Rows
  <2> HIDE DEF row
  <2>2. rows' = <<row>> \o rows
    BY <1>3 DEF row
  <2> QED  BY <1>3, <2>1, <2>2, CreationKeepsCopies
<1> QED  BY <1>1, <1>2, <1>3, RowsChange

\* A page shows rows of the table, out of finitely many matches.
LEMMA PageOfRows ==
    ASSUME TypeOK, NEW s \in Searches, NEW p \in Nat \ {0}, NEW size \in Nat
    PROVE  /\ \A copy \in OnPage(s, p, size) : copy \in Rows /\ IsTrue(copy)
           /\ Cardinality(Matching(s)) \in Nat
<1>1. rows \in Seq(Rows) /\ Len(rows) \in Nat /\ DOMAIN rows = 1..Len(rows)
  BY DEF TypeOK
<1>2. IsFiniteSet(DOMAIN rows)
  BY <1>1, FS_Interval
<1>3. Cardinality(Matching(s)) \in Nat
  <2>1. Matching(s) \in SUBSET DOMAIN rows
    BY DEF Matching
  <2> HIDE DEF Matching
  <2> QED  BY <1>2, <2>1, FS_Subset, FS_CardinalityType
<1>4. ASSUME NEW copy \in OnPage(s, p, size)
      PROVE  copy \in Rows /\ IsTrue(copy)
  <2>1. PICK i \in DOMAIN rows : copy = rows[i]
    BY <1>4 DEF OnPage, Matching
  <2> QED  BY <1>1, <2>1, ElementOfSeq DEF IsTrue, At
<1> QED  BY <1>3, <1>4

\* A request sent takes a free place among the calls.
LEMMA Sending ==
    ASSUME TypeOK, NEW call \in Requests, Send(call)
    PROVE  /\ \E c \in Calls : calls[c] = Idle /\ calls' = [calls EXCEPT ![c] = call]
           /\ calls' \in [Calls -> {Idle} \cup Requests]
           /\ loading' \in BOOLEAN /\ error' \in BOOLEAN /\ asked' \in {search', None}
           /\ UNCHANGED <<rows, items, meta, listed>>
  BY DEF Send, TypeOK

\* What the user asks for is a request.
LEMMA Loadings ==
    ASSUME NEW s \in Searches, NEW p \in Nat \ {0}, NEW size \in {PageSize, ReloadSize},
           NEW closes \in {"nothing", "transition", "create"}
    PROVE  /\ Load(s, p, size, closes) \in Loads /\ Load(s, p, size, closes) \in Requests
           /\ Load(s, p, size, closes).items = {} /\ Load(s, p, size, closes).search = s
<1>1. {} \in SUBSET Rows
  OBVIOUS
<1>2. Load(s, p, size, closes) \in Loads
  BY <1>1 DEF Load, Loads, Answers
<1>3. Load(s, p, size, closes).items = {} /\ Load(s, p, size, closes).search = s
  BY DEF Load
<1> QED  BY <1>2, <1>3 DEF Requests

LEMMA FirstPages ==
    ASSUME NEW size \in {PageSize, ReloadSize},
           NEW closes \in {"nothing", "transition", "create"}
    PROVE  /\ Load("", 1, size, closes) \in Loads /\ Load("", 1, size, closes) \in Requests
           /\ Load("", 1, size, closes).items = {} /\ Load("", 1, size, closes).search = ""
<1>1. PICK s \in Searches : s = ""
  BY WorkbenchAssumption
<1>2. PICK p \in Nat \ {0} : p = 1
  OBVIOUS
<1>3. /\ Load(s, p, size, closes) \in Loads /\ Load(s, p, size, closes) \in Requests
      /\ Load(s, p, size, closes).items = {} /\ Load(s, p, size, closes).search = s
  BY Loadings
<1> QED  BY <1>1, <1>2, <1>3

LEMMA TurnStep ==
    ASSUME TypeOK, NEW p \in Nat \ {0}, Turn(p)
    PROVE  TypeOK'
<1>1. Load(search, p, PageSize, "nothing") \in Requests
  BY Loadings DEF TypeOK
<1>2. Send(Load(search, p, PageSize, "nothing"))
  BY DEF Turn
<1> HIDE DEF Load
<1>3. /\ calls' \in [Calls -> {Idle} \cup Requests]
      /\ loading' \in BOOLEAN /\ error' \in BOOLEAN /\ asked' \in {search', None}
      /\ UNCHANGED <<rows, items, meta, listed>>
  BY <1>1, <1>2, Sending
<1>4. asked' \in Searches \cup {None}
  BY <1>3 DEF Turn, TypeOK
<1> QED  BY <1>3, <1>4 DEF Turn, TypeOK

LEMMA AnswerTypes ==
    ASSUME TypeOK, NEW c \in Calls, Answer(c)
    PROVE  calls' \in [Calls -> {Idle} \cup Requests]
<1>1. CASE AnswerLoad(c)
  <2> DEFINE call == calls[c]
             found == OnPage(call.search, call.page, call.size)
             total == Cardinality(Matching(call.search))
  <2>1. call \in Loads
    BY <1>1, Kinds DEF AnswerLoad
  <2>2. /\ call.search \in Searches /\ call.page \in Nat \ {0} /\ call.size \in Nat
    BY <2>1, WorkbenchAssumption DEF Loads
  <2>3. found \in SUBSET Rows /\ total \in Nat
    BY <2>2, PageOfRows
  <2>4. CASE calls' = [calls EXCEPT ![c].answer = "ok", ![c].total = total, ![c].items = found]
    <3> HIDE DEF found, total
    <3>1. [call EXCEPT !.answer = "ok", !.total = total, !.items = found] \in Loads
      BY <2>1, <2>3 DEF Loads, Answers
    <3> QED  BY <2>4, <3>1 DEF TypeOK, Requests
  <2>5. CASE calls' = [calls EXCEPT ![c].answer = "failed"]
    <3>1. [call EXCEPT !.answer = "failed"] \in Loads
      BY <2>1 DEF Loads, Answers
    <3> QED  BY <2>5, <3>1 DEF TypeOK, Requests
  <2> QED  BY <1>1, <2>4, <2>5 DEF AnswerLoad
<1>2. CASE AnswerTransition(c)
  <2>1. calls[c] \in Transitions
    BY <1>2, Kinds DEF AnswerTransition
  <2>2. PICK answer \in Answers : calls' = [calls EXCEPT ![c].answer = answer]
    BY <1>2 DEF AnswerTransition, Outcomes, Answers
  <2>3. [calls[c] EXCEPT !.answer = answer] \in Transitions
    BY <2>1 DEF Transitions
  <2> QED  BY <2>2, <2>3 DEF TypeOK, Requests
<1>3. CASE AnswerCreate(c)
  <2>1. calls[c] \in Creations
    BY <1>3, Kinds DEF AnswerCreate
  <2>2. PICK answer \in Answers : calls' = [calls EXCEPT ![c].answer = answer]
    BY <1>3 DEF AnswerCreate, Answers
  <2>3. [calls[c] EXCEPT !.answer = answer] \in Creations
    BY <2>1 DEF Creations
  <2> QED  BY <2>2, <2>3 DEF TypeOK, Requests
<1> QED  BY <1>1, <1>2, <1>3 DEF Answer

LEMMA ReturnTypes ==
    ASSUME TypeOK, NEW c \in Calls, Return(c)
    PROVE  TypeOK'
<1>1. CASE LoadReturns(c)
  <2>1. calls[c] \in Loads
    BY <1>1, Kinds DEF LoadReturns
  <2>2. items' \subseteq Rows /\ listed' \in Searches
    BY <1>1, <2>1 DEF LoadReturns, Loads, TypeOK
  <2>3. meta' \in [page : Nat \ {0}, size : {PageSize, ReloadSize}, total : Nat]
    BY <1>1, <2>1 DEF LoadReturns, Loads, TypeOK
  <2>4. calls' \in [Calls -> {Idle} \cup Requests]
    BY <1>1 DEF LoadReturns, TypeOK
  <2>5. /\ loading' \in BOOLEAN /\ error' \in BOOLEAN /\ showCreate' \in BOOLEAN
        /\ pending' \in {pending, None} /\ UNCHANGED asked
    BY <1>1 DEF LoadReturns, TypeOK
  <2> QED  BY <2>2, <2>3, <2>4, <2>5 DEF Return, field, TypeOK
<1>2. CASE WriteReturns(c)
  <2>1. calls[c].kind \in {"nothing", "transition", "create"}
    BY <1>2 DEF WriteReturns
  <2>2. Load("", 1, ReloadSize, calls[c].kind) \in Requests
    BY <2>1, FirstPages
  <2>3. calls' \in [Calls -> {Idle} \cup Requests]
    BY <1>2, <2>2 DEF WriteReturns, TypeOK
  <2>4. loading' \in BOOLEAN /\ error' \in BOOLEAN
    BY <1>2 DEF WriteReturns
  <2> QED  BY <1>2, <2>3, <2>4 DEF Return, WriteReturns, field, TypeOK
<1> QED  BY <1>1, <1>2 DEF Return

\* Steps keep the types.
LEMMA TypeStep ==
    ASSUME TypeOK, [Next]_vars
    PROVE  TypeOK'
<1>r. rows' \in Seq(Rows) /\ \A j, k \in DOMAIN rows' : rows'[j].id = rows'[k].id => j = k
  BY RowsStep
<1>1. ASSUME NEW s \in Searches, Type(s)
      PROVE  TypeOK'
  BY <1>r, <1>1 DEF Type, store, TypeOK
<1>2. CASE Query
  BY <1>2, TurnStep DEF Query
<1>3. CASE Reset
  <2>1. "" \in Searches
    BY WorkbenchAssumption
  <2>2. Load("", 1, PageSize, "nothing") \in Requests
    BY FirstPages
  <2>3. Send(Load("", 1, PageSize, "nothing"))
    BY <1>3 DEF Reset
  <2> HIDE DEF Load
  <2>4. /\ calls' \in [Calls -> {Idle} \cup Requests]
        /\ loading' \in BOOLEAN /\ error' \in BOOLEAN /\ asked' \in {search', None}
        /\ UNCHANGED <<rows, items, meta, listed>>
    BY <2>2, <2>3, Sending
  <2>5. /\ {search, listed}' \subseteq Searches /\ asked' \in Searches \cup {None}
        /\ page' \in Nat \ {0}
    <3>1. search' = "" /\ asked' \in {"", None} /\ listed' = listed
      BY <1>3, <2>4 DEF Reset
    <3>2. listed \in Searches
      BY DEF TypeOK
    <3>3. search' \in Searches /\ asked' \in Searches \cup {None} /\ listed' \in Searches
      BY <2>1, <3>1, <3>2
    <3>4. page' \in Nat \ {0}
      <4>1. page' = 1
        BY <1>3 DEF Reset
      <4> QED  BY <4>1
    <3> QED  BY <3>3, <3>4
  <2>6. UNCHANGED <<rows, items, meta, pending, showCreate>>
    BY <1>3, <2>4 DEF Reset
  <2> QED  BY <2>4, <2>5, <2>6 DEF TypeOK
<1>4. CASE PreviousPage
  <2>1. page - 1 \in Nat \ {0}
    BY <1>4 DEF PreviousPage, TypeOK
  <2> QED  BY <1>4, <2>1, TurnStep DEF PreviousPage
<1>5. CASE NextPage
  <2>1. page + 1 \in Nat \ {0}
    BY DEF TypeOK
  <2> QED  BY <1>5, <2>1, TurnStep DEF NextPage
<1>6. ASSUME NEW item \in items, NEW target \in DOMAIN Accepted, OpenTransition(item, target)
      PROVE  TypeOK'
  <2>1. pending' \in [item : Rows, target : DOMAIN Accepted]
    BY <1>6 DEF OpenTransition, TypeOK
  <2> QED  BY <1>r, <1>6, <2>1 DEF OpenTransition, store, field, TypeOK
<1>7. CASE CloseTransition
  BY <1>r, <1>7 DEF CloseTransition, store, field, TypeOK
<1>8. CASE ConfirmTransition
  <2> DEFINE call == [kind |-> "transition", item |-> pending.item, target |-> pending.target,
                      answer |-> "none"]
  <2>1. call \in Requests
    <3>1. pending \in [item : Rows, target : DOMAIN Accepted]
      BY <1>8 DEF ConfirmTransition, TypeOK
    <3>2. call \in Transitions
      BY <3>1 DEF Transitions, Answers
    <3> QED  BY <3>2 DEF Requests
  <2>2. Send(call)
    BY <1>8 DEF ConfirmTransition
  <2> HIDE DEF call
  <2>3. /\ calls' \in [Calls -> {Idle} \cup Requests]
        /\ loading' \in BOOLEAN /\ error' \in BOOLEAN /\ asked' \in {search', None}
        /\ UNCHANGED <<rows, items, meta, listed>>
    BY <2>1, <2>2, Sending
  <2> QED  BY <1>8, <2>3 DEF ConfirmTransition, field, TypeOK
<1>9. CASE ToggleCreate
  BY <1>r, <1>9 DEF ToggleCreate, store, field, TypeOK
<1>10. CASE CreateDemo
  <2> DEFINE call == [kind |-> "create", answer |-> "none"]
  <2>1. call \in Requests
    BY DEF Requests, Creations, Answers
  <2>2. Send(call)
    BY <1>10 DEF CreateDemo
  <2> HIDE DEF call
  <2>3. /\ calls' \in [Calls -> {Idle} \cup Requests]
        /\ loading' \in BOOLEAN /\ error' \in BOOLEAN /\ asked' \in {search', None}
        /\ UNCHANGED <<rows, items, meta, listed>>
    BY <2>1, <2>2, Sending
  <2> QED  BY <1>10, <2>3 DEF CreateDemo, field, TypeOK
<1>11. ASSUME NEW c \in Calls, Answer(c)
       PROVE  TypeOK'
  <2>1. calls' \in [Calls -> {Idle} \cup Requests]
    BY <1>11, AnswerTypes
  <2> QED  BY <1>r, <1>11, <2>1 DEF Answer, store, field, TypeOK
<1>12. ASSUME NEW c \in Calls, Return(c)
       PROVE  TypeOK'
  BY <1>12, ReturnTypes
<1>13. ASSUME NEW i \in DOMAIN rows, NEW target \in DOMAIN Accepted, OthersMove(i, target)
       PROVE  TypeOK'
  BY <1>r, <1>13 DEF OthersMove, store, field, TypeOK
<1>14. CASE UNCHANGED vars
  BY <1>14 DEF vars, TypeOK
<1> QED  BY <1>1, <1>2, <1>3, <1>4, <1>5, <1>6, <1>7, <1>8, <1>9, <1>10, <1>11, <1>12, <1>13, <1>14
         DEF Next

-----------------------------------------------------------------------------
(* What a step does to a request, and to the copies. *)

\* A request that is sent is no idle place, and takes one.
LEMMA SendChanges ==
    ASSUME TypeOK, NEW call \in Requests, Send(call)
    PROVE  \E c \in Calls :
              /\ calls[c] = Idle /\ calls'[c] = call /\ calls'[c] # Idle
              /\ \A d \in Calls \ {c} : calls'[d] = calls[d]
<1>1. call # Idle
  BY DEF Requests, Idle, Loads, Transitions, Creations
<1>2. PICK c \in Calls : calls[c] = Idle /\ calls' = [calls EXCEPT ![c] = call]
  BY Sending
<1>3. calls'[c] = call /\ \A d \in Calls \ {c} : calls'[d] = calls[d]
  BY <1>2 DEF TypeOK
<1> QED  BY <1>1, <1>2, <1>3

\* The requests the page can send, by what the user does.
LEMMA Sent ==
    ASSUME TypeOK, [Next]_vars
    PROVE  \/ UNCHANGED <<calls, loading, error, asked, listed>>
           \/ \E call \in Loads : call.items = {} /\ asked' \in {call.search, None} /\ Send(call)
           \/ /\ pending # None
              /\ Send([kind |-> "transition", item |-> pending.item, target |-> pending.target,
                       answer |-> "none"])
           \/ Send([kind |-> "create", answer |-> "none"])
           \/ \E c \in Calls : Answer(c) \/ Return(c)
<1>1. ASSUME NEW p \in Nat \ {0}, Turn(p)
      PROVE  \E call \in Loads : call.items = {} /\ asked' \in {call.search, None} /\ Send(call)
  <2> DEFINE call == Load(search, p, PageSize, "nothing")
  <2>1. call \in Loads /\ call.items = {} /\ call.search = search
    BY Loadings DEF TypeOK
  <2>2. Send(call) /\ asked' \in {search, None}
    BY <1>1 DEF Turn, Send
  <2> HIDE DEF call
  <2> QED  BY <2>1, <2>2
<1>2. CASE Query
  <2>1. 1 \in Nat \ {0}
    OBVIOUS
  <2> QED  BY <1>1, <1>2, <2>1 DEF Query
<1>3. CASE PreviousPage
  <2>1. page - 1 \in Nat \ {0}
    BY <1>3 DEF PreviousPage, TypeOK
  <2> QED  BY <1>1, <1>3, <2>1 DEF PreviousPage
<1>4. CASE NextPage
  <2>1. page + 1 \in Nat \ {0}
    BY DEF TypeOK
  <2> QED  BY <1>1, <1>4, <2>1 DEF NextPage
<1>5. ASSUME Reset
      PROVE  \E call \in Loads : call.items = {} /\ asked' \in {call.search, None} /\ Send(call)
  <2> DEFINE call == Load("", 1, PageSize, "nothing")
  <2>1. call \in Loads /\ call.items = {} /\ call.search = ""
    BY FirstPages
  <2>2. Send(call) /\ asked' \in {"", None}
    BY <1>5 DEF Reset, Send
  <2> HIDE DEF call
  <2> QED  BY <2>1, <2>2
<1>6. CASE ConfirmTransition
  BY <1>6 DEF ConfirmTransition, field
<1>7. CASE CreateDemo
  BY <1>7 DEF CreateDemo, field
<1>8. CASE \/ \E s \in Searches : Type(s)
           \/ \E item \in items, target \in DOMAIN Accepted : OpenTransition(item, target)
           \/ CloseTransition \/ ToggleCreate
           \/ \E i \in DOMAIN rows, target \in DOMAIN Accepted : OthersMove(i, target)
           \/ UNCHANGED vars
  BY <1>8 DEF Type, OpenTransition, CloseTransition, ToggleCreate, OthersMove, store, field, vars
<1> QED  BY <1>2, <1>3, <1>4, <1>5, <1>6, <1>7, <1>8 DEF Next

\* A request keeps what it carries; what it comes to carry is true.
LEMMA CallsChange ==
    ASSUME TypeOK, [Next]_vars, NEW c \in Calls
    PROVE  /\ calls'[c].kind = "load" => \A copy \in calls'[c].items :
                 \/ calls[c].kind = "load" /\ copy \in calls[c].items
                 \/ copy \in Rows /\ IsTrue(copy)
           /\ calls'[c].kind = "transition" =>
                 \/ /\ calls[c].kind = "transition"
                    /\ calls'[c].item = calls[c].item /\ calls'[c].target = calls[c].target
                 \/ /\ pending # None
                    /\ calls'[c].item = pending.item /\ calls'[c].target = pending.target
<1> DEFINE Good ==
      /\ calls'[c].kind = "load" => \A copy \in calls'[c].items :
            \/ calls[c].kind = "load" /\ copy \in calls[c].items
            \/ copy \in Rows /\ IsTrue(copy)
      /\ calls'[c].kind = "transition" =>
            \/ /\ calls[c].kind = "transition"
               /\ calls'[c].item = calls[c].item /\ calls'[c].target = calls[c].target
            \/ /\ pending # None
               /\ calls'[c].item = pending.item /\ calls'[c].target = pending.target
<1>1. ASSUME calls'[c] = calls[c] PROVE Good
  BY <1>1
<1>2. ASSUME NEW call, calls'[c] = call, call.kind = "load", call.items = {} PROVE Good
  BY <1>2
<1>3. ASSUME NEW call \in Loads, call.items = {}, Send(call) PROVE Good
  <2>1. call \in Requests /\ call.kind = "load"
    BY DEF Requests, Loads
  <2>2. calls'[c] \in {calls[c], call}
    BY <1>3, <2>1, SendChanges
  <2> QED  BY <1>1, <1>2, <1>3, <2>1, <2>2
<1>4. ASSUME UNCHANGED calls PROVE Good
  BY <1>1, <1>4
<1>7. ASSUME pending # None,
             Send([kind |-> "transition", item |-> pending.item, target |-> pending.target,
                   answer |-> "none"])
      PROVE  Good
  <2> DEFINE call == [kind |-> "transition", item |-> pending.item, target |-> pending.target,
                      answer |-> "none"]
  <2>1. call \in Requests
    <3>1. pending \in [item : Rows, target : DOMAIN Accepted]
      BY <1>7 DEF TypeOK
    <3>2. call \in Transitions
      BY <3>1 DEF Transitions, Answers
    <3> QED  BY <3>2 DEF Requests
  <2>2. call.kind = "transition" /\ call.item = pending.item /\ call.target = pending.target
    OBVIOUS
  <2>3. Send(call)
    BY <1>7
  <2> HIDE DEF call
  <2>4. calls'[c] \in {calls[c], call}
    BY <2>1, <2>3, SendChanges
  <2> QED  BY <1>1, <1>7, <2>2, <2>4
<1>8. ASSUME Send([kind |-> "create", answer |-> "none"]) PROVE Good
  <2> DEFINE call == [kind |-> "create", answer |-> "none"]
  <2>1. call \in Requests /\ call.kind = "create"
    BY DEF Requests, Creations, Answers
  <2>2. Send(call)
    BY <1>8
  <2> HIDE DEF call
  <2>3. calls'[c] \in {calls[c], call}
    BY <2>1, <2>2, SendChanges
  <2> QED  BY <1>1, <2>1, <2>3
<1>9. ASSUME NEW d \in Calls, Answer(d) PROVE Good
  <2>1. CASE c # d
    BY <1>1, <1>9, <2>1 DEF Answer, AnswerLoad, AnswerTransition, AnswerCreate, TypeOK
  <2>2. CASE c = d
    <3>1. CASE AnswerLoad(c)
      <4> DEFINE call == calls[c]
                 found == OnPage(call.search, call.page, call.size)
                 total == Cardinality(Matching(call.search))
      <4>1. call \in Loads
        BY <3>1, Kinds DEF AnswerLoad
      <4>2. call.search \in Searches /\ call.page \in Nat \ {0} /\ call.size \in Nat
        BY <4>1, WorkbenchAssumption DEF Loads
      <4>3. \A copy \in found : copy \in Rows /\ IsTrue(copy)
        BY <4>2, PageOfRows
      <4>4. \/ calls' = [calls EXCEPT ![c].answer = "ok", ![c].total = total, ![c].items = found]
            \/ calls' = [calls EXCEPT ![c].answer = "failed"]
        BY <3>1 DEF AnswerLoad
      <4> HIDE DEF found, total
      <4>5. calls'[c].kind = "load" /\ calls'[c].items \in {calls[c].items, found}
        BY <4>1, <4>4 DEF TypeOK, Loads
      <4>6. calls[c].kind = "load"
        BY <4>1 DEF Loads
      <4> QED  BY <4>3, <4>5, <4>6
    <3>2. CASE AnswerTransition(c)
      <4>1. calls[c] \in Transitions
        BY <3>2, Kinds DEF AnswerTransition
      <4>2. PICK answer : calls' = [calls EXCEPT ![c].answer = answer]
        BY <3>2 DEF AnswerTransition
      <4>3. /\ calls'[c].kind = "transition" /\ calls[c].kind = "transition"
            /\ calls'[c].item = calls[c].item /\ calls'[c].target = calls[c].target
        BY <4>1, <4>2 DEF TypeOK, Transitions
      <4> QED  BY <4>3
    <3>3. CASE AnswerCreate(c)
      <4>1. calls[c] \in Creations
        BY <3>3, Kinds DEF AnswerCreate
      <4>2. PICK answer : calls' = [calls EXCEPT ![c].answer = answer]
        BY <3>3 DEF AnswerCreate
      <4>3. calls'[c].kind = "create"
        BY <4>1, <4>2 DEF TypeOK, Creations
      <4> QED  BY <4>3
    <3> QED  BY <1>9, <2>2, <3>1, <3>2, <3>3 DEF Answer
  <2> QED  BY <2>1, <2>2
<1>10. ASSUME NEW d \in Calls, Return(d) PROVE Good
  <2>1. CASE c # d
    BY <1>1, <1>10, <2>1 DEF Return, LoadReturns, WriteReturns, TypeOK
  <2>2. CASE c = d
    <3> DEFINE next == Load("", 1, ReloadSize, calls[c].kind)
    <3>1. next.kind = "load" /\ next.items = {}
      BY DEF Load
    <3> HIDE DEF next
    <3>2. CASE calls' = [calls EXCEPT ![c] = Idle]
      <4>1. calls'[c] = Idle
        BY <3>2 DEF TypeOK
      <4> QED  BY <4>1 DEF Idle
    <3>3. CASE calls' = [calls EXCEPT ![c] = next]
      <4>1. calls'[c] = next
        BY <3>3 DEF TypeOK
      <4> QED  BY <1>2, <3>1, <4>1
    <3> QED  BY <1>10, <2>2, <3>2, <3>3 DEF Return, LoadReturns, WriteReturns, next
  <2> QED  BY <2>1, <2>2
<1> HIDE DEF Good
<1>11. Good
  <2>1. UNCHANGED <<calls, loading, error, asked, listed>> => UNCHANGED calls
    OBVIOUS
  <2> QED  BY <1>3, <1>4, <1>7, <1>8, <1>9, <1>10, <2>1, Sent
<1> QED  BY <1>11 DEF Good

\* The dialog holds what it held, or a row of the list, and names a move offered for it.
LEMMA DialogChange ==
    ASSUME TypeOK, [Next]_vars
    PROVE  \/ pending' \in {pending, None}
           \/ /\ pending'.item \in items
              /\ CanTransition(Offered, pending'.item.status, pending'.target)
<1>1. CASE Query \/ Reset \/ PreviousPage \/ NextPage
  BY <1>1 DEF Query, Reset, PreviousPage, NextPage, Turn
<1>2. ASSUME NEW item \in items, NEW target \in DOMAIN Accepted, OpenTransition(item, target)
      PROVE  /\ pending'.item \in items
             /\ CanTransition(Offered, pending'.item.status, pending'.target)
  BY <1>2 DEF OpenTransition
<1>3. CASE \/ \E s \in Searches : Type(s)
           \/ CloseTransition \/ ConfirmTransition \/ ToggleCreate \/ CreateDemo
           \/ \E i \in DOMAIN rows, target \in DOMAIN Accepted : OthersMove(i, target)
           \/ UNCHANGED vars
  BY <1>3 DEF Type, CloseTransition, ConfirmTransition, ToggleCreate, CreateDemo, OthersMove, vars
<1>4. ASSUME NEW c \in Calls, Answer(c) \/ Return(c)
      PROVE  pending' \in {pending, None}
  BY <1>4 DEF Answer, Return, LoadReturns, WriteReturns
<1> QED  BY <1>1, <1>2, <1>3, <1>4 DEF Next

\* The list stays, or becomes the one a load has brought.
LEMMA ListChange ==
    ASSUME TypeOK, [Next]_vars
    PROVE  items' = items \/ \E c \in Calls : calls[c].kind = "load" /\ items' = calls[c].items
<1>1. ASSUME NEW call, Send(call) PROVE items' = items
  BY <1>1 DEF Send
<1>2. CASE \/ Query \/ Reset \/ PreviousPage \/ NextPage \/ ConfirmTransition \/ CreateDemo
  BY <1>1, <1>2 DEF Query, Reset, PreviousPage, NextPage, Turn, ConfirmTransition, CreateDemo
<1>3. CASE \/ \E s \in Searches : Type(s)
           \/ \E item \in items, target \in DOMAIN Accepted : OpenTransition(item, target)
           \/ CloseTransition \/ ToggleCreate
           \/ \E i \in DOMAIN rows, target \in DOMAIN Accepted : OthersMove(i, target)
           \/ UNCHANGED vars
  BY <1>3 DEF Type, OpenTransition, CloseTransition, ToggleCreate, OthersMove, store, vars
<1>4. ASSUME NEW c \in Calls, Answer(c) PROVE items' = items
  BY <1>4 DEF Answer, store
<1>5. ASSUME NEW c \in Calls, Return(c)
      PROVE  items' = items \/ (calls[c].kind = "load" /\ items' = calls[c].items)
  BY <1>5 DEF Return, LoadReturns, WriteReturns
<1> QED  BY <1>2, <1>3, <1>4, <1>5 DEF Next

LEMMA CopiesStep ==
    ASSUME TypeOK, CopiesAreTrue, [Next]_vars
    PROVE  CopiesAreTrue'
<1>1. \A copy \in Rows : IsTrue(copy) => IsTrue(copy)'
  BY RowsStep
<1>2. ASSUME NEW c \in Calls, calls[c].kind = "load", NEW copy \in calls[c].items
      PROVE  copy \in Rows /\ IsTrue(copy)
  <2>1. calls[c] \in Loads
    BY <1>2, Kinds
  <2>2. copy \in Rows
    BY <1>2, <2>1 DEF Loads
  <2> QED  BY <1>2, <2>2 DEF CopiesAreTrue
<1>3. \A copy \in items : copy \in Rows /\ IsTrue(copy)
  BY DEF TypeOK, CopiesAreTrue
<1>4. pending # None => pending.item \in Rows /\ IsTrue(pending.item)
  BY DEF TypeOK, CopiesAreTrue
<1>5. ASSUME NEW c \in Calls, calls[c].kind = "transition"
      PROVE  calls[c].item \in Rows /\ IsTrue(calls[c].item)
  <2>1. calls[c] \in Transitions
    BY <1>5, Kinds
  <2> QED  BY <1>5, <2>1 DEF Transitions, CopiesAreTrue
<1>6. ASSUME NEW copy \in items' PROVE IsTrue(copy)'
  <2>1. copy \in Rows /\ IsTrue(copy)
    BY <1>2, <1>3, <1>6, ListChange
  <2> QED  BY <1>1, <2>1
<1>7. ASSUME pending' # None PROVE IsTrue(pending.item)'
  <2>1. pending'.item \in Rows /\ IsTrue(pending'.item)
    BY <1>3, <1>4, <1>7, DialogChange
  <2> QED  BY <1>1, <2>1 DEF IsTrue, At
<1>8. ASSUME NEW c \in Calls, calls'[c].kind = "load", NEW copy \in calls'[c].items
      PROVE  IsTrue(copy)'
  <2>1. copy \in Rows /\ IsTrue(copy)
    BY <1>2, <1>8, CallsChange
  <2> QED  BY <1>1, <2>1
<1>9. ASSUME NEW c \in Calls, calls'[c].kind = "transition"
      PROVE  IsTrue(calls[c].item)'
  <2>1. calls'[c].item \in Rows /\ IsTrue(calls'[c].item)
    BY <1>4, <1>5, <1>9, CallsChange
  <2> QED  BY <1>1, <2>1 DEF IsTrue, At
<1> QED  BY <1>6, <1>7, <1>8, <1>9 DEF CopiesAreTrue

LEMMA MovesStep ==
    ASSUME TypeOK, MovesAreOffered, [Next]_vars
    PROVE  MovesAreOffered'
<1>1. pending' # None => CanTransition(Offered, pending'.item.status, pending'.target)
  BY DialogChange DEF MovesAreOffered
<1>2. ASSUME NEW c \in Calls, calls'[c].kind = "transition"
      PROVE  CanTransition(Offered, calls'[c].item.status, calls'[c].target)
  BY <1>2, CallsChange DEF MovesAreOffered
<1> QED  BY <1>1, <1>2 DEF MovesAreOffered, CanTransition

-----------------------------------------------------------------------------
(* Busy and idle; the search on display. *)

\* An answer leaves its request where it is, to be taken up.
LEMMA AnswerKeeps ==
    ASSUME TypeOK, NEW c \in Calls, Answer(c)
    PROVE  /\ calls[c] # Idle /\ calls'[c] # Idle /\ calls'[c].kind = calls[c].kind
           /\ calls[c].kind = "load" => calls'[c].search = calls[c].search
           /\ \A d \in Calls \ {c} : calls'[d] = calls[d]
           /\ UNCHANGED <<loading, error, asked, listed>>
<1>1. calls[c] # Idle
  BY DEF Answer, AnswerLoad, AnswerTransition, AnswerCreate, Idle
<1>2. calls[c] \in Requests /\ calls'[c] \in {Idle} \cup Requests
  BY <1>1, AnswerTypes DEF TypeOK
<1>3. /\ calls'[c].kind = calls[c].kind
      /\ calls[c].kind = "load" => calls'[c].search = calls[c].search
  <2>1. CASE AnswerLoad(c)
    <3>1. calls[c] \in Loads
      BY <2>1, Kinds DEF AnswerLoad
    <3>2. PICK found, total :
             \/ calls' = [calls EXCEPT ![c].answer = "ok", ![c].total = total, ![c].items = found]
             \/ calls' = [calls EXCEPT ![c].answer = "failed"]
      BY <2>1 DEF AnswerLoad
    <3> QED  BY <3>1, <3>2 DEF TypeOK, Loads
  <2>2. CASE AnswerTransition(c)
    <3>1. calls[c] \in Transitions
      BY <2>2, Kinds DEF AnswerTransition
    <3>2. PICK answer : calls' = [calls EXCEPT ![c].answer = answer]
      BY <2>2 DEF AnswerTransition
    <3> QED  BY <3>1, <3>2 DEF TypeOK, Transitions
  <2>3. CASE AnswerCreate(c)
    <3>1. calls[c] \in Creations
      BY <2>3, Kinds DEF AnswerCreate
    <3>2. PICK answer : calls' = [calls EXCEPT ![c].answer = answer]
      BY <2>3 DEF AnswerCreate
    <3> QED  BY <3>1, <3>2 DEF TypeOK, Creations
  <2> QED  BY <2>1, <2>2, <2>3 DEF Answer
<1>4. calls'[c] # Idle
  BY <1>2, <1>3 DEF Requests, Idle, Loads, Transitions, Creations
<1>5. \A d \in Calls \ {c} : calls'[d] = calls[d]
  BY DEF Answer, AnswerLoad, AnswerTransition, AnswerCreate, TypeOK
<1>6. UNCHANGED <<loading, error, asked, listed>>
  BY DEF Answer, store, field
<1> QED  BY <1>1, <1>3, <1>4, <1>5, <1>6

\* A request that ends is replaced by a load, or leaves its place idle and the page not busy.
LEMMA ReturnEnds ==
    ASSUME TypeOK, NEW c \in Calls, Return(c)
    PROVE  /\ calls[c] # Idle /\ UNCHANGED asked
           /\ \A d \in Calls \ {c} : calls'[d] = calls[d]
           /\ \/ calls'[c] = Idle /\ ~loading'
              \/ calls'[c] # Idle /\ calls[c].kind # "load"
           /\ calls[c].kind = "load" => error' \/ listed' = calls[c].search
<1>1. calls[c] # Idle
  <2>1. Idle.kind = "idle"
    BY DEF Idle
  <2>2. calls[c].kind \in {"load", "transition", "create"}
    BY DEF Return, LoadReturns, WriteReturns
  <2> QED  BY <2>1, <2>2
<1>2. \A d \in Calls \ {c} : calls'[d] = calls[d]
  BY DEF Return, LoadReturns, WriteReturns, TypeOK
<1>3. UNCHANGED asked
  BY DEF Return, LoadReturns, WriteReturns, field
<1>4. \/ calls'[c] = Idle /\ ~loading'
      \/ calls'[c] # Idle /\ calls[c].kind # "load"
  <2> DEFINE next == Load("", 1, ReloadSize, calls[c].kind)
  <2>1. next # Idle
    <3>1. next.kind = "load" /\ Idle.kind = "idle"
      BY DEF Load, Idle
    <3> QED  BY <3>1
  <2> HIDE DEF next
  <2>2. CASE calls' = [calls EXCEPT ![c] = Idle] /\ loading' = FALSE
    BY <2>2 DEF TypeOK
  <2>3. CASE calls' = [calls EXCEPT ![c] = next] /\ calls[c].kind \in {"transition", "create"}
    BY <2>1, <2>3 DEF TypeOK
  <2> QED  BY <2>2, <2>3 DEF Return, LoadReturns, WriteReturns, next
<1>5. calls[c].kind = "load" => error' \/ listed' = calls[c].search
  BY DEF Return, LoadReturns, WriteReturns
<1> QED  BY <1>1, <1>2, <1>3, <1>4, <1>5

LEMMA BusyStep ==
    ASSUME TypeOK, BusyEnds, [Next]_vars
    PROVE  BusyEnds'
<1>1. ASSUME NEW call \in Requests, Send(call) PROVE BusyEnds'
  BY <1>1, SendChanges DEF BusyEnds, Quiet
<1>2. ASSUME UNCHANGED <<calls, loading, error, asked, listed>> PROVE BusyEnds'
  BY <1>2 DEF BusyEnds, Quiet
<1>3. ASSUME NEW c \in Calls, Answer(c) PROVE BusyEnds'
  BY <1>3, AnswerKeeps DEF BusyEnds, Quiet
<1>4. ASSUME NEW c \in Calls, Return(c) PROVE BusyEnds'
  BY <1>4, ReturnEnds DEF BusyEnds, Quiet
<1>5. ASSUME NEW call \in Loads, Send(call) PROVE BusyEnds'
  BY <1>1, <1>5 DEF Requests
<1>6. ASSUME pending # None,
             Send([kind |-> "transition", item |-> pending.item, target |-> pending.target,
                   answer |-> "none"])
      PROVE  BusyEnds'
  <2> DEFINE call == [kind |-> "transition", item |-> pending.item, target |-> pending.target,
                      answer |-> "none"]
  <2>1. pending \in [item : Rows, target : DOMAIN Accepted]
    BY <1>6 DEF TypeOK
  <2>2. call \in Transitions
    BY <2>1 DEF Transitions, Answers
  <2>3. Send(call) /\ call \in Requests
    BY <1>6, <2>2 DEF Requests
  <2> HIDE DEF call
  <2> QED  BY <1>1, <2>3
<1>7. ASSUME Send([kind |-> "create", answer |-> "none"]) PROVE BusyEnds'
  <2> DEFINE call == [kind |-> "create", answer |-> "none"]
  <2>1. Send(call) /\ call \in Requests
    BY <1>7 DEF Requests, Creations, Answers
  <2> HIDE DEF call
  <2> QED  BY <1>1, <2>1
<1> QED  BY <1>2, <1>3, <1>4, <1>5, <1>6, <1>7, Sent

LEMMA AloneStep ==
    ASSUME TypeOK, AloneUntilShown, [Next]_vars
    PROVE  AloneUntilShown'
<1>1. ASSUME NEW call \in Loads, asked' \in {call.search, None}, Send(call) PROVE AloneUntilShown'
  <2>1. call \in Requests /\ call.kind = "load"
    BY DEF Requests, Loads
  <2>2. PICK c \in Calls : /\ calls[c] = Idle /\ calls'[c] = call
                           /\ \A d \in Calls \ {c} : calls'[d] = calls[d]
    BY <1>1, <2>1, SendChanges
  <2>3. asked' # None => \A d \in Calls \ {c} : calls'[d] = Idle
    BY <1>1, <2>2 DEF Send, Quiet
  <2> QED  BY <1>1, <2>1, <2>2, <2>3 DEF AloneUntilShown
<1>2. ASSUME UNCHANGED <<calls, loading, error, asked, listed>> PROVE AloneUntilShown'
  BY <1>2 DEF AloneUntilShown, Quiet
<1>3. ASSUME NEW c \in Calls, Answer(c) PROVE AloneUntilShown'
  <2>1. asked # None =>
            /\ calls[c].kind = "load" /\ calls[c].search = asked
            /\ \A d \in Calls \ {c} : calls[d] = Idle
    BY <1>3, AnswerKeeps DEF AloneUntilShown, Quiet
  <2>2. /\ calls'[c].kind = calls[c].kind
        /\ calls[c].kind = "load" => calls'[c].search = calls[c].search
        /\ \A d \in Calls \ {c} : calls'[d] = calls[d]
        /\ UNCHANGED asked
    BY <1>3, AnswerKeeps
  <2> QED  BY <2>1, <2>2 DEF AloneUntilShown
<1>4. ASSUME NEW c \in Calls, Return(c) PROVE AloneUntilShown'
  <2>1. asked # None =>
            /\ calls[c].kind = "load" /\ calls[c].search = asked
            /\ \A d \in Calls \ {c} : calls[d] = Idle
    BY <1>4, ReturnEnds DEF AloneUntilShown, Quiet
  <2> QED  BY <1>4, <2>1, ReturnEnds DEF AloneUntilShown, Quiet
<1>5. ASSUME NEW call, Send(call), call.kind # "load" PROVE AloneUntilShown'
  BY <1>5 DEF Send, AloneUntilShown
<1>6. ASSUME Send([kind |-> "transition", item |-> pending.item, target |-> pending.target,
                   answer |-> "none"])
      PROVE  AloneUntilShown'
  <2> DEFINE call == [kind |-> "transition", item |-> pending.item, target |-> pending.target,
                      answer |-> "none"]
  <2>1. Send(call) /\ call.kind # "load"
    BY <1>6
  <2> HIDE DEF call
  <2> QED  BY <1>5, <2>1
<1>7. ASSUME Send([kind |-> "create", answer |-> "none"]) PROVE AloneUntilShown'
  <2> DEFINE call == [kind |-> "create", answer |-> "none"]
  <2>1. Send(call) /\ call.kind # "load"
    BY <1>7
  <2> HIDE DEF call
  <2> QED  BY <1>5, <2>1
<1> QED  BY <1>1, <1>2, <1>3, <1>4, <1>6, <1>7, Sent

\* The page as it is opened.
LEMMA Opened ==
    ASSUME Init
    PROVE  IInv
<1>1. PICK c \in Calls :
         calls = [d \in Calls |-> IF d = c THEN Load("", 1, PageSize, "nothing") ELSE Idle]
  BY DEF Init
<1> DEFINE load == Load("", 1, PageSize, "nothing")
<1>2. /\ load \in Loads /\ load \in Requests /\ load.items = {} /\ load.search = ""
  BY FirstPages
<1>3. load.kind = "load" /\ load # Idle
  BY DEF Load, Idle
<1>4. calls = [d \in Calls |-> IF d = c THEN load ELSE Idle]
  BY <1>1
<1> HIDE DEF load
<1>5. calls[c] = load /\ \A d \in Calls \ {c} : calls[d] = Idle
  BY <1>4
<1>6. calls \in [Calls -> {Idle} \cup Requests]
  BY <1>2, <1>4
<1>7. Idle.kind = "idle"
  BY DEF Idle
<1>8. TypeOK
  <2>1. /\ rows \in Seq(Rows) /\ \A i, j \in DOMAIN rows : rows[i].id = rows[j].id => i = j
    BY WorkbenchAssumption DEF Init
  <2>2. meta \in [page : Nat \ {0}, size : {PageSize, ReloadSize}, total : Nat]
    <3>1. meta = [page |-> 1, size |-> ReloadSize, total |-> 0]
      BY DEF Init
    <3> QED  BY <3>1
  <2>3. {search, listed} \subseteq Searches /\ asked \in Searches \cup {None}
    <3>1. "" \in Searches
      BY WorkbenchAssumption
    <3> QED  BY <3>1 DEF Init
  <2>4. page \in Nat \ {0}
    <3>1. page = 1
      BY DEF Init
    <3> QED  BY <3>1
  <2>5. items = {} /\ loading = TRUE /\ error = FALSE /\ pending = None
        /\ showCreate = FALSE
    BY DEF Init
  <2> QED  BY <1>6, <2>1, <2>2, <2>3, <2>4, <2>5 DEF TypeOK
<1>9. CopiesAreTrue
  <2>1. items = {} /\ pending = None
    BY DEF Init
  <2> QED  BY <1>2, <1>3, <1>5, <1>7, <2>1 DEF CopiesAreTrue
<1>10. MovesAreOffered
  <2>1. pending = None
    BY DEF Init
  <2> QED  BY <1>3, <1>5, <1>7, <2>1 DEF MovesAreOffered
<1>11. BusyEnds
  BY <1>3, <1>5 DEF BusyEnds, Quiet
<1>12. AloneUntilShown
  <2>1. asked = ""
    BY DEF Init
  <2> QED  BY <1>2, <1>3, <1>5, <2>1 DEF AloneUntilShown
<1> QED  BY <1>8, <1>9, <1>10, <1>11, <1>12 DEF IInv

-----------------------------------------------------------------------------
(* What the page shows. *)

\* Requests, dialogs and the list keep the types and facts on which the rest depends.
THEOREM Invariance == Spec => []IInv
<1>1. IInv /\ [Next]_vars => IInv'
  BY TypeStep, CopiesStep, MovesStep, BusyStep, AloneStep DEF IInv
<1> QED  BY <1>1, Opened, PTL DEF Spec

\* A copy of a record, wherever the page keeps it and however old it is, tells what the record
\* was at the version it names: for any table, any users and any number of requests.
THEOREM CopiesTrue == Spec => []CopiesAreTrue
<1>1. IInv => CopiesAreTrue
  BY DEF IInv
<1> QED  BY <1>1, Invariance, PTL

\* The page is never left busy with nothing under way.
THEOREM NeverLeftBusy == Spec => []BusyEnds
<1>1. IInv => BusyEnds
  BY DEF IInv
<1> QED  BY <1>1, Invariance, PTL

\* The list is that of the last search, if nothing else was under way when it was asked for.
THEOREM LastSearchIsShown == Spec => []CurrentQueryShown
<1>1. IInv => CurrentQueryShown
  BY DEF IInv, AloneUntilShown, CurrentQueryShown, Quiet, Idle
<1> QED  BY <1>1, Invariance, PTL

\* The answer of the backend to a move, when it moves the record or its graph refuses it.
LEMMA TransitionAnswered ==
    ASSUME IInv, NEW c \in Calls, NEW i \in DOMAIN rows,
           AnswerTransition(c), calls[c].item.id = rows[i].id
    PROVE  /\ rows' # rows =>
                 rows[i].version = calls[c].item.version /\ rows' = Moved(i, calls[c].target)
           /\ calls'[c].answer = "invalid_transition" =>
                 ~CanTransition(Accepted, rows[i].status, calls[c].target)
<1> DEFINE item == calls[c].item
           can == CanTransition(Accepted, rows[i].status, calls[c].target)
<1>1. calls[c] \in Transitions
  BY Kinds DEF AnswerTransition, IInv
<1>2. At(item.id) = {i}
  BY DEF At, IInv, TypeOK
<1>3. (CHOOSE j \in At(item.id) : TRUE) = i
  BY <1>2
<1>4. /\ ~can => Outcomes(calls[c]) = {"invalid_transition"}
      /\ can => Outcomes(calls[c]) =
            (IF rows[i].version = item.version THEN {"ok"} ELSE {"version_conflict"})
            \cup (IF calls[c].target \in Guarded THEN {"invalid_input"} ELSE {})
  BY <1>2, <1>3 DEF Outcomes
<1> HIDE DEF can
<1>5. /\ "ok" \in Outcomes(calls[c]) => rows[i].version = item.version
      /\ "invalid_transition" \in Outcomes(calls[c]) => ~can
  BY <1>4
<1>6. rows' # rows => "ok" \in Outcomes(calls[c]) /\ rows' = Moved(i, calls[c].target)
  BY <1>2 DEF AnswerTransition
<1>7. calls'[c].answer = "invalid_transition" => "invalid_transition" \in Outcomes(calls[c])
  <2>1. PICK answer \in Outcomes(calls[c]) \cup {"failed"} : calls' = [calls EXCEPT ![c].answer = answer]
    BY DEF AnswerTransition
  <2>2. calls'[c].answer = answer
    BY <1>1, <2>1 DEF IInv, TypeOK, Transitions
  <2> QED  BY <2>1, <2>2
<1> QED  BY <1>5, <1>6, <1>7 DEF can

\* The version a request names stands for the whole row.
LEMMA SameVersion ==
    ASSUME IInv, NEW c \in Calls, NEW i \in DOMAIN rows, calls[c].kind = "transition",
           calls[c].item.id = rows[i].id, rows[i].version = calls[c].item.version
    PROVE  rows[i] = calls[c].item
<1>1. calls[c].item \in Rows
  BY Kinds DEF IInv, Transitions
<1>2. IsTrue(calls[c].item)
  BY DEF IInv, CopiesAreTrue
<1>3. calls[c].item.version \in Nat
  BY <1>1 DEF Rows
<1>4. At(calls[c].item.id) = {i}
  BY DEF At, IInv, TypeOK
<1>5. ~(calls[c].item.version < rows[i].version)
  BY <1>3
<1> QED  BY <1>2, <1>4, <1>5 DEF IsTrue

\* A step that ends or answers one request and changes the table is the answer to that request.
LEMMA WhoseStep ==
    ASSUME TypeOK, [Next]_vars, NEW c \in Calls, calls[c].kind = "transition", calls'[c] # calls[c]
    PROVE  AnswerTransition(c) \/ Return(c)
<1>1. calls[c] # Idle
  BY DEF Idle
<1>2. ASSUME NEW call \in Requests, Send(call) PROVE FALSE
  BY <1>1, <1>2, SendChanges
<1>3. ASSUME NEW call \in Loads, Send(call) PROVE FALSE
  BY <1>2, <1>3 DEF Requests
<1>4. ASSUME pending # None,
             Send([kind |-> "transition", item |-> pending.item, target |-> pending.target,
                   answer |-> "none"])
      PROVE  FALSE
  BY <1>1, <1>4 DEF Send, TypeOK
<1>5. ASSUME Send([kind |-> "create", answer |-> "none"]) PROVE FALSE
  BY <1>1, <1>5 DEF Send, TypeOK
<1>6. ASSUME NEW d \in Calls, Answer(d) PROVE AnswerTransition(c)
  <2>1. c = d
    BY <1>6, AnswerKeeps
  <2> QED  BY <1>6, <2>1 DEF Answer, AnswerLoad, AnswerCreate
<1>7. ASSUME NEW d \in Calls, Return(d) PROVE Return(c)
  BY <1>7, ReturnEnds
<1>8. ~UNCHANGED <<calls, loading, error, asked, listed>>
  OBVIOUS
<1> QED  BY <1>3, <1>4, <1>5, <1>6, <1>7, <1>8, Sent

\* A request of the page finds the record as the dialog showed it, or changes nothing.
THEOREM DoneAsShown == Spec => DoesWhatItShows
<1> DEFINE A == \A c \in Calls, i \in DOMAIN rows :
          /\ calls[c].kind = "transition" /\ calls[c].item.id = rows[i].id
          /\ calls'[c] # calls[c] /\ rows' # rows
          => rows[i].status = calls[c].item.status /\ Head(rows').status = calls[c].target
<1>1. ASSUME IInv, [Next]_vars PROVE A
  <2> SUFFICES ASSUME NEW c \in Calls, NEW i \in DOMAIN rows, calls[c].kind = "transition",
                      calls[c].item.id = rows[i].id, calls'[c] # calls[c], rows' # rows
               PROVE  rows[i].status = calls[c].item.status /\ Head(rows').status = calls[c].target
    OBVIOUS
  <2>1. AnswerTransition(c)
    BY <1>1, WhoseStep DEF IInv, Return
  <2>2. rows[i].version = calls[c].item.version /\ rows' = Moved(i, calls[c].target)
    BY <1>1, <2>1, TransitionAnswered
  <2>3. calls[c].target \in DOMAIN Accepted /\ calls[c].item \in Rows
    BY <1>1, Kinds DEF IInv, Transitions
  <2>4. rows[i] = calls[c].item
    BY <1>1, <2>2, <2>3, SameVersion
  <2>5. rows'[1].status = calls[c].target /\ Head(rows') = rows'[1]
    <3>1. rows \in Seq(Rows)
      BY <1>1 DEF IInv, TypeOK
    <3>2. rows'[1].status = calls[c].target
      BY <2>2, <2>3, <3>1, MovedRows
    <3>3. Head(rows') = rows'[1]
      OBVIOUS
    <3> QED  BY <3>2, <3>3
  <2> QED  BY <2>4, <2>5
<1> QED  BY <1>1, Invariance, PTL DEF Spec, DoesWhatItShows

\* Where the graph of the page is within that of the backend, only a change made meanwhile makes
\* that of the backend refuse an offered move, whatever becomes of linked records and papers.
\* GeneratorsAgree and ManifestsAgree say where.
THEOREM RefusedOnlyAfterChange ==
    ASSUME \A s, t : CanTransition(Offered, s, t) => CanTransition(Accepted, s, t)
    PROVE  Spec => OfferedIsAccepted
<1> DEFINE A == \A c \in Calls, i \in DOMAIN rows :
          /\ calls[c].kind = "transition" /\ calls[c].item.id = rows[i].id
          /\ calls[c].answer = "none" /\ calls'[c].answer = "invalid_transition"
          => rows[i].version # calls[c].item.version
<1>1. ASSUME IInv, [Next]_vars PROVE A
  <2> SUFFICES ASSUME NEW c \in Calls, NEW i \in DOMAIN rows, calls[c].kind = "transition",
                      calls[c].item.id = rows[i].id, calls[c].answer = "none",
                      calls'[c].answer = "invalid_transition", rows[i].version = calls[c].item.version
               PROVE  FALSE
    OBVIOUS
  <2>1. AnswerTransition(c)
    BY <1>1, WhoseStep DEF IInv, Return, LoadReturns, WriteReturns
  <2>2. ~CanTransition(Accepted, rows[i].status, calls[c].target)
    BY <1>1, <2>1, TransitionAnswered
  <2>3. rows[i] = calls[c].item
    BY <1>1, SameVersion
  <2>4. CanTransition(Offered, calls[c].item.status, calls[c].target)
    BY <1>1 DEF IInv, MovesAreOffered
  <2> QED  BY <2>2, <2>3, <2>4
<1> QED  BY <1>1, Invariance, PTL DEF Spec, OfferedIsAccepted
=============================================================================
