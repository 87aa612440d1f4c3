--------------------------- MODULE ListingProofs ---------------------------
(* What a client that walks over the pages is given, for any rows, sizes and writes. *)
EXTENDS Listing, SequenceTheorems, TLAPS

-----------------------------------------------------------------------------
(* Sequences with an element more or less. *)

\* Inserting leaves what comes before, and moves what follows down by one.
LEMMA InsertedAt ==
    ASSUME NEW S, NEW s \in Seq(S), NEW e \in S, NEW i \in 1..(Len(s) + 1)
    PROVE  /\ InsertAt(s, i, e) \in Seq(S) /\ Len(InsertAt(s, i, e)) = Len(s) + 1
           /\ \A j \in 1..(Len(s) + 1) : InsertAt(s, i, e)[j] =
                 IF j < i THEN s[j] ELSE IF j = i THEN e ELSE s[j - 1]
<1> DEFINE before == SubSeq(s, 1, i - 1)
           after == SubSeq(s, i, Len(s))
           upto == before \o <<e>>
<1>1. Len(s) \in Nat /\ i \in Nat /\ \A j \in 1..Len(s) : s[j] \in S
  BY ElementOfSeq
<1>2. /\ before \in Seq(S) /\ Len(before) = i - 1
      /\ \A j \in 1..(i - 1) : before[j] = s[j]
  BY <1>1, SubSeqProperties
<1>3. /\ after \in Seq(S) /\ Len(after) = Len(s) - i + 1
      /\ \A j \in 1..(Len(s) - i + 1) : after[j] = s[i + j - 1]
  BY <1>1, SubSeqProperties
<1>4. <<e>> \in Seq(S) /\ Len(<<e>>) = 1 /\ <<e>>[1] = e
  OBVIOUS
<1>5. InsertAt(s, i, e) = upto \o after
  BY DEF InsertAt
<1> HIDE DEF before, after
<1>6. /\ upto \in Seq(S) /\ Len(upto) = i
      /\ \A j \in 1..i : upto[j] = IF j < i THEN before[j] ELSE e
  BY <1>1, <1>2, <1>4, ConcatProperties
<1> HIDE DEF upto
<1>7. /\ upto \o after \in Seq(S) /\ Len(upto \o after) = Len(s) + 1
      /\ \A j \in 1..(Len(s) + 1) : (upto \o after)[j] = IF j <= i THEN upto[j] ELSE after[j - i]
  BY <1>1, <1>3, <1>6, ConcatProperties
<1>8. ASSUME NEW j \in 1..(Len(s) + 1)
      PROVE  (upto \o after)[j] = IF j < i THEN s[j] ELSE IF j = i THEN e ELSE s[j - 1]
  <2>1. CASE j <= i
    BY <1>1, <1>2, <1>6, <1>7, <2>1
  <2>2. CASE ~(j <= i)
    <3>1. j - i \in 1..(Len(s) - i + 1) /\ i + (j - i) - 1 = j - 1
      BY <1>1, <2>2
    <3>2. (upto \o after)[j] = after[j - i]
      BY <1>1, <1>7, <2>2
    <3>3. after[j - i] = s[j - 1]
      BY <1>3, <3>1
    <3> QED  BY <1>1, <2>2, <3>2, <3>3
  <2> QED  BY <2>1, <2>2
<1> QED  BY <1>5, <1>7, <1>8

\* Removing leaves what comes before, and moves what follows up by one.
LEMMA RemovedAt ==
    ASSUME NEW S, NEW s \in Seq(S), NEW i \in DOMAIN s
    PROVE  /\ RemoveAt(s, i) \in Seq(S) /\ Len(RemoveAt(s, i)) = Len(s) - 1
           /\ \A j \in 1..(Len(s) - 1) : RemoveAt(s, i)[j] = IF j < i THEN s[j] ELSE s[j + 1]
<1> DEFINE before == SubSeq(s, 1, i - 1)
           after == SubSeq(s, i + 1, Len(s))
<1>1. Len(s) \in Nat /\ i \in 1..Len(s) /\ \A j \in 1..Len(s) : s[j] \in S
  BY ElementOfSeq
<1>2. /\ before \in Seq(S) /\ Len(before) = i - 1
      /\ \A j \in 1..(i - 1) : before[j] = s[j]
  BY <1>1, SubSeqProperties
<1>3. /\ after \in Seq(S) /\ Len(after) = Len(s) - i
      /\ \A j \in 1..(Len(s) - i) : after[j] = s[i + j]
  BY <1>1, SubSeqProperties
<1>4. RemoveAt(s, i) = before \o after
  BY DEF RemoveAt
<1> HIDE DEF before, after
<1>5. /\ before \o after \in Seq(S) /\ Len(before \o after) = Len(s) - 1
      /\ \A j \in 1..(Len(s) - 1) :
            (before \o after)[j] = IF j <= i - 1 THEN before[j] ELSE after[j - (i - 1)]
  <2>1. Len(before) + Len(after) = Len(s) - 1
    BY <1>1, <1>2, <1>3
  <2>2. /\ before \o after \in Seq(S) /\ Len(before \o after) = Len(before) + Len(after)
        /\ \A j \in 1..(Len(before) + Len(after)) : (before \o after)[j] =
              IF j <= Len(before) THEN before[j] ELSE after[j - Len(before)]
    BY <1>2, <1>3, ConcatProperties
  <2> QED  BY <1>2, <2>1, <2>2
<1>6. ASSUME NEW j \in 1..(Len(s) - 1)
      PROVE  (before \o after)[j] = IF j < i THEN s[j] ELSE s[j + 1]
  <2>1. CASE j < i
    BY <1>1, <1>2, <1>5, <2>1
  <2>2. CASE ~(j < i)
    <3>1. j - (i - 1) \in 1..(Len(s) - i) /\ i + (j - (i - 1)) = j + 1
      BY <1>1, <2>2
    <3>2. (before \o after)[j] = after[j - (i - 1)]
      BY <1>1, <1>5, <2>2
    <3>3. after[j - (i - 1)] = s[j + 1]
      BY <1>3, <3>1
    <3> QED  BY <1>1, <2>2, <3>2, <3>3
  <2> QED  BY <2>1, <2>2
<1> QED  BY <1>4, <1>5, <1>6

-----------------------------------------------------------------------------
(* What others, and the database, do to the list. *)

LEMMA ComeMoves ==
    ASSUME TypeOK, NEW r \in Rows, r \notin Listed, Come(r)
    PROVE  /\ list' \in Seq(Rows) /\ \A j, k \in DOMAIN list' : list'[j] = list'[k] => j = k
           /\ Listed' = Listed \cup {r}
           /\ \A j \in DOMAIN list : \E k \in DOMAIN list' : j <= k /\ list'[k] = list[j]
<1>1. /\ list \in Seq(Rows) /\ Len(list) \in Nat /\ DOMAIN list = 1..Len(list)
      /\ \A j, k \in DOMAIN list : list[j] = list[k] => j = k
      /\ \A j \in DOMAIN list : list[j] # r
  BY DEF TypeOK, Listed
<1>2. PICK i \in 1..(Len(list) + 1) : list' = InsertAt(list, i, r)
  BY DEF Come, Places
<1>3. /\ list' \in Seq(Rows) /\ Len(list') = Len(list) + 1
      /\ \A j \in 1..(Len(list) + 1) : list'[j] =
            IF j < i THEN list[j] ELSE IF j = i THEN r ELSE list[j - 1]
  <2>1. list \in Seq(Rows)
    BY <1>1
  <2>2. /\ InsertAt(list, i, r) \in Seq(Rows) /\ Len(InsertAt(list, i, r)) = Len(list) + 1
        /\ \A j \in 1..(Len(list) + 1) : InsertAt(list, i, r)[j] =
              IF j < i THEN list[j] ELSE IF j = i THEN r ELSE list[j - 1]
    BY <2>1, InsertedAt, SMTT(30)
  <2> QED  BY <1>2, <2>2
<1>4. DOMAIN list' = 1..(Len(list) + 1)
  BY <1>1, <1>3
<1>5. ASSUME NEW j \in DOMAIN list', NEW k \in DOMAIN list', list'[j] = list'[k]
      PROVE  j = k
  <2> DEFINE old(l) == IF l < i THEN l ELSE l - 1
  <2>1. \A l \in DOMAIN list' : l # i => old(l) \in DOMAIN list /\ list'[l] = list[old(l)]
    BY <1>1, <1>3, <1>4
  <2>2. \A l \in DOMAIN list' : list'[l] = r <=> l = i
    <3> HIDE DEF old
    <3> QED  BY <1>1, <1>3, <1>4, <2>1
  <2>3. CASE j = i \/ k = i
    BY <1>5, <2>2, <2>3
  <2>4. CASE j # i /\ k # i
    <3>1. old(j) = old(k)
      <4> HIDE DEF old
      <4> QED  BY <1>1, <1>5, <2>1, <2>4
    <3> QED  BY <1>4, <2>4, <3>1
  <2> QED  BY <2>3, <2>4
<1>6. ASSUME NEW j \in DOMAIN list
      PROVE  \E k \in DOMAIN list' : j <= k /\ list'[k] = list[j]
  <2>1. CASE j < i
    <3>1. j \in DOMAIN list' /\ j <= j /\ list'[j] = list[j]
      BY <1>1, <1>3, <1>4, <2>1
    <3> QED  BY <3>1
  <2>2. CASE i <= j
    <3>1. j + 1 \in DOMAIN list' /\ j <= j + 1 /\ list'[j + 1] = list[j]
      BY <1>1, <1>3, <1>4, <2>2
    <3> QED  BY <3>1
  <2> QED  BY <1>1, <2>1, <2>2
<1>7. Listed' = Listed \cup {r}
  <2>1. Listed' \subseteq Listed \cup {r}
    <3> SUFFICES ASSUME NEW k \in DOMAIN list'
                 PROVE  list'[k] \in Listed \cup {r}
      BY DEF Listed
    <3>1. CASE k < i
      BY <1>1, <1>3, <1>4, <3>1 DEF Listed
    <3>2. CASE k = i
      BY <1>3, <1>4, <3>2
    <3>3. CASE i < k
      <4>1. k - 1 \in DOMAIN list /\ list'[k] = list[k - 1]
        BY <1>1, <1>3, <1>4, <3>3
      <4> QED  BY <4>1 DEF Listed
    <3> QED  BY <1>1, <1>4, <3>1, <3>2, <3>3
  <2>2. Listed \subseteq Listed'
    <3> SUFFICES ASSUME NEW j \in DOMAIN list
                 PROVE  list[j] \in Listed'
      BY DEF Listed
    <3> QED  BY <1>6 DEF Listed
  <2>3. r \in Listed'
    <3>1. i \in DOMAIN list' /\ list'[i] = r
      BY <1>1, <1>3, <1>4
    <3> QED  BY <3>1 DEF Listed
  <2> QED  BY <2>1, <2>2, <2>3
<1> QED  BY <1>3, <1>5, <1>6, <1>7

LEMMA RiseMoves ==
    ASSUME TypeOK, NEW r \in Rows, Rise(r)
    PROVE  /\ list' \in Seq(Rows) /\ \A j, k \in DOMAIN list' : list'[j] = list'[k] => j = k
           /\ Len(list') = Len(list) /\ Listed' = Listed
           /\ \A j \in DOMAIN list : list[j] # r =>
                 \E k \in DOMAIN list' : j <= k /\ list'[k] = list[j]
<1>1. /\ list \in Seq(Rows) /\ Len(list) \in Nat /\ DOMAIN list = 1..Len(list)
      /\ \A j, k \in DOMAIN list : list[j] = list[k] => j = k
  BY DEF TypeOK
<1>2. PICK i \in DOMAIN list : list[i] = r /\ \E m \in 1..i : list' = InsertAt(RemoveAt(list, i), m, r)
  BY DEF Rise
<1>3. PICK m \in 1..i : list' = InsertAt(RemoveAt(list, i), m, r)
  BY <1>2
<1> DEFINE rest == RemoveAt(list, i)
<1>4. /\ rest \in Seq(Rows) /\ Len(rest) = Len(list) - 1
      /\ \A j \in 1..(Len(list) - 1) : rest[j] = IF j < i THEN list[j] ELSE list[j + 1]
  <2>1. list \in Seq(Rows)
    BY <1>1
  <2> QED  BY <2>1, RemovedAt
<1>5. list' = InsertAt(rest, m, r) /\ m \in 1..(Len(rest) + 1) /\ Len(rest) + 1 = Len(list)
  <2>1. i \in 1..Len(list)
    BY <1>1
  <2> QED  BY <1>1, <1>3, <1>4, <2>1
<1> HIDE DEF rest
<1>6. /\ list' \in Seq(Rows) /\ Len(list') = Len(list)
      /\ \A j \in 1..Len(list) : list'[j] =
            IF j < m THEN rest[j] ELSE IF j = m THEN r ELSE rest[j - 1]
  <2>1. /\ InsertAt(rest, m, r) \in Seq(Rows) /\ Len(InsertAt(rest, m, r)) = Len(rest) + 1
        /\ \A j \in 1..(Len(rest) + 1) : InsertAt(rest, m, r)[j] =
              IF j < m THEN rest[j] ELSE IF j = m THEN r ELSE rest[j - 1]
    <3>1. rest \in Seq(Rows)
      BY <1>4
    <3>2. m \in 1..(Len(rest) + 1)
      BY <1>5
    <3> QED  BY <3>1, <3>2, InsertedAt
  <2> QED  BY <1>5, <2>1
<1>7. DOMAIN list' = 1..Len(list)
  BY <1>1, <1>6
<1>8. i \in 1..Len(list) /\ m \in 1..i
  BY <1>1
<1> DEFINE old(l) == IF l < m THEN l ELSE IF l = m THEN i ELSE IF l <= i THEN l - 1 ELSE l
<1>9. ASSUME NEW l \in DOMAIN list'
      PROVE  old(l) \in DOMAIN list /\ list'[l] = list[old(l)]
  <2>1. CASE l < m
    <3>1. l \in 1..(Len(list) - 1) /\ l < i
      BY <1>1, <1>7, <1>8, <2>1
    <3> QED  BY <1>1, <1>4, <1>6, <1>7, <2>1, <3>1
  <2>2. CASE l = m
    BY <1>1, <1>2, <1>6, <1>7, <2>2
  <2>3. CASE m < l
    <3>1. l - 1 \in 1..(Len(list) - 1) /\ list'[l] = rest[l - 1]
      BY <1>1, <1>6, <1>7, <1>8, <2>3
    <3>2. list'[l] = IF l - 1 < i THEN list[l - 1] ELSE list[(l - 1) + 1]
      BY <1>4, <3>1
    <3> QED  BY <1>1, <1>7, <1>8, <2>3, <3>1, <3>2
  <2> QED  BY <1>7, <1>8, <2>1, <2>2, <2>3
<1>10. ASSUME NEW j \in DOMAIN list', NEW k \in DOMAIN list', list'[j] = list'[k]
       PROVE  j = k
  <2>1. old(j) = old(k)
    <3> HIDE DEF old
    <3> QED  BY <1>1, <1>9, <1>10
  <2> QED  BY <1>1, <1>7, <1>8, <2>1
<1>11. ASSUME NEW j \in DOMAIN list, list[j] # r
       PROVE  \E k \in DOMAIN list' : j <= k /\ list'[k] = list[j]
  <2>1. j # i
    BY <1>2, <1>11
  <2>2. CASE j < m \/ i < j
    <3>1. j \in DOMAIN list' /\ j <= j /\ old(j) = j
      BY <1>1, <1>7, <1>8, <2>2
    <3> HIDE DEF old
    <3> QED  BY <1>9, <3>1
  <2>3. CASE m <= j /\ j < i
    <3>1. j + 1 \in DOMAIN list' /\ j <= j + 1 /\ old(j + 1) = j
      BY <1>1, <1>7, <1>8, <2>3
    <3> HIDE DEF old
    <3> QED  BY <1>9, <3>1
  <2> QED  BY <1>1, <1>8, <2>1, <2>2, <2>3
<1>12. Listed' = Listed
  <2>1. Listed' \subseteq Listed
    <3> SUFFICES ASSUME NEW k \in DOMAIN list'
                 PROVE  list'[k] \in Listed
      BY DEF Listed
    <3> HIDE DEF old
    <3> QED  BY <1>9 DEF Listed
  <2>2. r \in Listed'
    <3>1. m \in DOMAIN list' /\ list'[m] = r
      BY <1>6, <1>7, <1>8
    <3> QED  BY <3>1 DEF Listed
  <2>3. Listed \subseteq Listed'
    <3> SUFFICES ASSUME NEW j \in DOMAIN list, list[j] # r
                 PROVE  list[j] \in Listed'
      BY <2>2 DEF Listed
    <3> QED  BY <1>11 DEF Listed
  <2> QED  BY <2>1, <2>3
<1> QED  BY <1>6, <1>10, <1>11, <1>12

LEMMA LeaveMoves ==
    ASSUME TypeOK, NEW r \in Rows, Leave(r)
    PROVE  /\ list' \in Seq(Rows) /\ \A j, k \in DOMAIN list' : list'[j] = list'[k] => j = k
           /\ Listed' \subseteq Listed \ {r}
           /\ \A k \in DOMAIN list' : \E j \in DOMAIN list : k <= j /\ list'[k] = list[j]
<1>1. /\ list \in Seq(Rows) /\ Len(list) \in Nat /\ DOMAIN list = 1..Len(list)
      /\ \A j, k \in DOMAIN list : list[j] = list[k] => j = k
  BY DEF TypeOK
<1>2. PICK i \in DOMAIN list : list[i] = r /\ list' = RemoveAt(list, i)
  BY DEF Leave
<1>3. /\ list' \in Seq(Rows) /\ Len(list') = Len(list) - 1
      /\ \A j \in 1..(Len(list) - 1) : list'[j] = IF j < i THEN list[j] ELSE list[j + 1]
  BY <1>1, <1>2, RemovedAt
<1>4. DOMAIN list' = 1..(Len(list) - 1)
  BY <1>1, <1>3
<1> DEFINE old(l) == IF l < i THEN l ELSE l + 1
<1>5. \A l \in DOMAIN list' : old(l) \in DOMAIN list /\ l <= old(l) /\ list'[l] = list[old(l)]
  BY <1>1, <1>3, <1>4
<1>6. /\ \A j, k \in DOMAIN list' : old(j) = old(k) => j = k
      /\ \A l \in DOMAIN list' : old(l) # i
  BY <1>1, <1>4
<1> HIDE DEF old
<1>7. \A j, k \in DOMAIN list' : list'[j] = list'[k] => j = k
  BY <1>1, <1>5, <1>6
<1>8. Listed' \subseteq Listed \ {r}
  <2> SUFFICES ASSUME NEW l \in DOMAIN list'
               PROVE  list'[l] \in Listed /\ list'[l] # r
    BY DEF Listed
  <2> QED  BY <1>1, <1>2, <1>5, <1>6 DEF Listed
<1> QED  BY <1>3, <1>5, <1>7, <1>8

\* Only tied entries change places.
LEMMA ShuffleMoves ==
    ASSUME TypeOK, NEW i \in DOMAIN list, Shuffle(i)
    PROVE  /\ list' \in Seq(Rows) /\ \A j, k \in DOMAIN list' : list'[j] = list'[k] => j = k
           /\ DOMAIN list' = DOMAIN list /\ Len(list') = Len(list) /\ Listed' = Listed
           /\ \A j \in DOMAIN list : list'[j] = list[j] \/ (Tied(list[j]) /\ Tied(list'[j]))
<1>1. /\ list \in Seq(Rows) /\ Len(list) \in Nat /\ DOMAIN list = 1..Len(list)
      /\ \A j, k \in DOMAIN list : list[j] = list[k] => j = k
      /\ \A j \in DOMAIN list : list[j] \in Rows
  BY ElementOfSeq DEF TypeOK
<1>2. /\ i + 1 \in DOMAIN list /\ Stamp[list[i]] = Stamp[list[i + 1]] /\ source = "audits"
      /\ list' = [list EXCEPT ![i] = list[i + 1], ![i + 1] = list[i]]
  BY DEF Shuffle
<1> DEFINE old(j) == IF j = i THEN i + 1 ELSE IF j = i + 1 THEN i ELSE j
<1>3. /\ i \in Nat /\ i # i + 1
      /\ \A j \in DOMAIN list : old(j) \in DOMAIN list /\ old(old(j)) = j
  BY <1>1, <1>2
<1>4. DOMAIN list' = DOMAIN list
  BY <1>2
<1>5. \A j \in DOMAIN list : list'[j] = list[old(j)]
  BY <1>2, <1>3
<1>6. list' \in Seq(Rows) /\ Len(list') = Len(list)
  <2>1. list' \in [1..Len(list) -> Rows]
    <3>1. list \in [1..Len(list) -> Rows]
      BY <1>1
    <3>2. i \in 1..Len(list) /\ i + 1 \in 1..Len(list) /\ list[i] \in Rows /\ list[i + 1] \in Rows
      BY <1>1, <1>2
    <3> QED  BY <1>2, <3>1, <3>2
  <2> QED  BY <1>1, <2>1
<1>7. ASSUME NEW j \in DOMAIN list', NEW k \in DOMAIN list', list'[j] = list'[k]
      PROVE  j = k
  <2>1. old(j) = old(k)
    <3> HIDE DEF old
    <3> QED  BY <1>1, <1>3, <1>4, <1>5, <1>7
  <2>2. old(old(j)) = old(old(k))
    BY <2>1
  <2> QED  BY <1>3, <1>4, <2>2
<1>8. Listed' = Listed
  <2>1. Listed' \subseteq Listed
    <3> SUFFICES ASSUME NEW j \in DOMAIN list'
                 PROVE  list'[j] \in Listed
      BY DEF Listed
    <3> HIDE DEF old
    <3> QED  BY <1>3, <1>4, <1>5 DEF Listed
  <2>2. Listed \subseteq Listed'
    <3> SUFFICES ASSUME NEW j \in DOMAIN list
                 PROVE  list[j] \in Listed'
      BY DEF Listed
    <3>1. list'[old(j)] = list[j] /\ old(j) \in DOMAIN list'
      BY <1>3, <1>4, <1>5
    <3> HIDE DEF old
    <3> QED  BY <3>1 DEF Listed
  <2> QED  BY <2>1, <2>2
<1>9. Tied(list[i]) /\ Tied(list[i + 1])
  <2>1. list[i] # list[i + 1] /\ list[i] \in Listed /\ list[i + 1] \in Listed
    BY <1>1, <1>2, <1>3 DEF Listed
  <2> QED  BY <1>2, <2>1 DEF Tied
<1>10. ASSUME NEW j \in DOMAIN list
       PROVE  list'[j] = list[j] \/ (Tied(list[j]) /\ Tied(list'[j]))
  BY <1>3, <1>5, <1>9
<1> QED  BY <1>4, <1>6, <1>7, <1>8, <1>10

\* The four ways in which a write can change the list.
LEMMA WriteKinds ==
    ASSUME TypeOK, NEW r \in Rows, Create(r) \/ Update(r) \/ Delete(r)
    PROVE  \/ Come(r) /\ r \notin Listed
           \/ source = "records" /\ (Rise(r) \/ Leave(r))
           \/ source = "records" /\ UNCHANGED <<list, written, left, added>>
<1>1. r \in outside => r \notin Listed
  BY DEF TypeOK
<1>2. ASSUME Create(r) PROVE Come(r) /\ r \notin Listed
  BY <1>2 DEF Create, TypeOK
<1> QED  BY <1>1, <1>2 DEF Update, Delete

-----------------------------------------------------------------------------
(* Pages. *)

\* The size that the answer names is the size of the page.
LEMMA Sizes ==
    ASSUME NEW size \in AskedSizes
    PROVE  BindPage(size) \in Nat \ {0} /\ NormalizePage(BindPage(size)) = BindPage(size)
  BY ListingAssumption DEF BindPage, NormalizePage

\* A page has the rows that lie between the offsets of its neighbours.
LEMMA Found ==
    ASSUME TypeOK
    PROVE  /\ (page - 1) * Size \in Nat /\ page * Size = (page - 1) * Size + Size
           /\ Size \in Nat \ {0} /\ NormalizePage(BindPage(asked)) = Size
           /\ OnPage(page, Size) \subseteq Rows
           /\ \A i \in DOMAIN list : list[i] \in OnPage(page, Size) <=>
                 (page - 1) * Size < i /\ i <= page * Size
<1>1. Size \in Nat \ {0} /\ NormalizePage(BindPage(asked)) = Size
  BY Sizes DEF TypeOK, Size
<1>2. page - 1 \in Nat /\ page \in Nat \ {0}
  BY DEF TypeOK
<1> DEFINE offset == (page - 1) * Size
<1>3. offset \in Nat /\ page * Size = offset + Size
  BY <1>1, <1>2
<1> HIDE DEF offset
<1>4. OnPage(page, Size) = {list[i] : i \in {j \in DOMAIN list : offset < j /\ j <= offset + Size}}
  BY DEF OnPage, offset
<1>5. \A i \in DOMAIN list : list[i] \in Rows
  BY ElementOfSeq DEF TypeOK
<1>6. OnPage(page, Size) \subseteq Rows
  BY <1>4, <1>5
<1>7. \A i, j \in DOMAIN list : list[i] = list[j] => i = j
  BY DEF TypeOK
<1>8. \A i \in DOMAIN list : list[i] \in OnPage(page, Size) <=> offset < i /\ i <= offset + Size
  BY <1>4, <1>7
<1> QED  BY <1>1, <1>3, <1>6, <1>8 DEF offset

LEMMA FindStep ==
    ASSUME TypeOK, FindRows
    PROVE  LET found == OnPage(page, Size) IN
           /\ seen' = seen \cup found /\ twice' = twice \cup (seen \cap found)
           /\ \/ page * Size >= total /\ phase' = "done" /\ page' = page
              \/ phase' = "total" /\ page' = page + 1
           /\ phase = "rows" /\ UNCHANGED <<source, asked, list, outside, total, written, left, added, writes>>
  BY Found DEF FindRows, Size

\* A write leaves the client alone, and takes place during the walk.
LEMMA WriteStep ==
    ASSUME TypeOK, NEW r \in Rows, Create(r) \/ Update(r) \/ Delete(r)
    PROVE  /\ phase # "done" /\ writes' \in 0..MaxWrites
           /\ UNCHANGED <<source, asked, phase, page, total, seen, twice>>
<1>1. writes' \in 0..MaxWrites
  <2>1. MaxWrites \in Nat /\ writes \in 0..MaxWrites
    BY ListingAssumption DEF TypeOK
  <2>2. writes < MaxWrites /\ writes' = writes + 1
    BY DEF Create, Update, Delete, Write
  <2> QED  BY <2>1, <2>2
<1>2. phase # "done" /\ UNCHANGED <<source, asked, phase, page, total, seen, twice>>
  BY DEF Create, Update, Delete, Write, client
<1> QED  BY <1>1, <1>2

\* So does a change of order; nothing comes or goes.
LEMMA ShuffleStep ==
    ASSUME TypeOK, NEW i \in DOMAIN list, Shuffle(i)
    PROVE  /\ phase = "rows"
           /\ UNCHANGED <<source, asked, phase, page, total, seen, twice>>
           /\ UNCHANGED <<outside, written, left, added, writes>>
  BY DEF Shuffle, client

-----------------------------------------------------------------------------
(* The inductive invariant. *)

\* What is outside of the list stays so, and every row keeps its origin.
LEMMA OutsideStep ==
    ASSUME TypeOK, NEW r \in Rows, Create(r) \/ Update(r) \/ Delete(r)
    PROVE  /\ outside' \subseteq Rows \ Listed'
           /\ Listed' \cup outside' \subseteq Existed \cup written'
           /\ written' \in {written, written \cup {r}} /\ added' \subseteq written'
           /\ left' \in BOOLEAN
<1> USE DEF TypeOK
<1>1. CASE Create(r)
  <2>1. Come(r) /\ UNCHANGED outside /\ r \notin Existed \cup written
    BY <1>1 DEF Create
  <2>2. r \notin Listed /\ r \notin outside
    BY <2>1
  <2>3. Listed' = Listed \cup {r}
    BY <2>1, <2>2, ComeMoves
  <2> QED  BY <2>1, <2>2, <2>3 DEF Come
<1>2. CASE r \in Listed /\ Rise(r) /\ UNCHANGED outside
  <2>1. Listed' = Listed
    BY <1>2, RiseMoves
  <2> QED  BY <1>2, <2>1 DEF Rise
<1>3. CASE r \in Listed /\ Leave(r) /\ outside' \in {outside, outside \cup {r}}
  <2>1. Listed' \subseteq Listed \ {r}
    BY <1>3, LeaveMoves
  <2> QED  BY <1>3, <2>1 DEF Leave
<1>4. CASE r \in outside /\ Come(r) /\ outside' = outside \ {r}
  <2>1. Listed' = Listed \cup {r}
    BY <1>4, ComeMoves
  <2> QED  BY <1>4, <2>1 DEF Come
<1>5. CASE r \in outside /\ outside' = outside \ {r} /\ UNCHANGED <<list, written, left, added>>
  <2>1. Listed' = Listed
    BY <1>5 DEF Listed
  <2> QED  BY <1>5, <2>1
<1> QED  BY <1>1, <1>2, <1>3, <1>4, <1>5 DEF Update, Delete

LEMMA TypeStep ==
    ASSUME TypeOK, [Next]_vars
    PROVE  TypeOK'
<1>1. CASE CountTotal
  <2>1. Len(list) \in Nat
    BY DEF TypeOK
  <2> QED  BY <1>1, <2>1 DEF CountTotal, TypeOK, Listed
<1>2. CASE FindRows
  <2>1. OnPage(page, Size) \subseteq Rows
    BY Found
  <2>2. page' \in Nat \ {0} /\ phase' \in {"total", "done"}
    BY <1>2, FindStep DEF TypeOK
  <2> QED  BY <1>2, <2>1, <2>2, FindStep DEF TypeOK, Listed
<1>3. ASSUME NEW r \in Rows, Create(r) \/ Update(r) \/ Delete(r)
      PROVE  TypeOK'
  <2>1. list' \in Seq(Rows) /\ \A i, j \in DOMAIN list' : list'[i] = list'[j] => i = j
    <3>1. CASE UNCHANGED list
      BY <3>1 DEF TypeOK
    <3> QED  BY <1>3, <3>1, WriteKinds, ComeMoves, RiseMoves, LeaveMoves
  <2>2. /\ outside' \subseteq Rows \ Listed' /\ Listed' \cup outside' \subseteq Existed \cup written'
        /\ written' \in {written, written \cup {r}} /\ added' \subseteq written' /\ left' \in BOOLEAN
    BY <1>3, OutsideStep
  <2>3. written' \subseteq Rows
    BY <2>2 DEF TypeOK
  <2> QED  BY <1>3, <2>1, <2>2, <2>3, WriteStep DEF TypeOK
<1>4. ASSUME NEW i \in DOMAIN list, Shuffle(i)
      PROVE  TypeOK'
  BY <1>4, ShuffleMoves, ShuffleStep DEF TypeOK
<1>5. CASE UNCHANGED vars
  BY <1>5 DEF vars, TypeOK, Listed
<1> QED  BY <1>1, <1>2, <1>3, <1>4, <1>5 DEF Next

LEMMA TotalStep ==
    ASSUME TypeOK, TotalIsLength, [Next]_vars
    PROVE  TotalIsLength'
<1>1. CASE CountTotal
  BY <1>1 DEF CountTotal, TotalIsLength
<1>2. CASE FindRows
  BY <1>2, FindStep DEF TotalIsLength
<1>3. ASSUME NEW r \in Rows, Create(r) \/ Update(r) \/ Delete(r)
      PROVE  TotalIsLength'
  <2>1. CASE Come(r)
    <3>1. added' # {}
      BY <2>1 DEF Come
    <3> QED  BY <3>1 DEF TotalIsLength
  <2>2. CASE Rise(r)
    <3>1. Len(list') = Len(list)
      BY <2>2, RiseMoves
    <3> QED  BY <1>3, <2>2, <3>1, WriteStep DEF Rise, TotalIsLength
  <2>3. CASE Leave(r)
    BY <2>3 DEF Leave, TotalIsLength
  <2>4. CASE UNCHANGED <<list, written, left, added>>
    BY <1>3, <2>4, WriteStep DEF TotalIsLength
  <2> QED  BY <1>3, <2>1, <2>2, <2>3, <2>4, WriteKinds
<1>4. ASSUME NEW i \in DOMAIN list, Shuffle(i)
      PROVE  TotalIsLength'
  BY <1>4, ShuffleMoves, ShuffleStep DEF TotalIsLength
<1>5. CASE UNCHANGED vars
  BY <1>5 DEF vars, TotalIsLength
<1> QED  BY <1>1, <1>2, <1>3, <1>4, <1>5 DEF Next

\* An entry that is tied remains so: entries are only added.
LEMMA TiedStays ==
    ASSUME TypeOK, [Next]_vars, NEW s, Tied(s)
    PROVE  Tied(s)'
<1>1. source = "audits"
  BY DEF Tied
<1>2. source' = source /\ Listed \subseteq Listed'
  <2>1. CASE CountTotal \/ UNCHANGED vars
    BY <2>1 DEF CountTotal, vars, Listed
  <2>2. CASE FindRows
    BY <2>2 DEF FindRows, Listed
  <2>3. ASSUME NEW i \in DOMAIN list, Shuffle(i) PROVE source' = source /\ Listed \subseteq Listed'
    BY <2>3, ShuffleMoves, ShuffleStep
  <2>4. ASSUME NEW r \in Rows, Create(r) \/ Update(r) \/ Delete(r)
        PROVE  source' = source /\ Listed \subseteq Listed'
    <3>1. Come(r) /\ r \notin Listed
      BY <1>1, <2>4, WriteKinds
    <3> QED  BY <2>4, <3>1, ComeMoves, WriteStep
  <2> QED  BY <2>1, <2>2, <2>3, <2>4 DEF Next
<1> QED  BY <1>1, <1>2 DEF Tied

LEMMA UnseenStep ==
    ASSUME TypeOK, UnseenAreAhead, [Next]_vars
    PROVE  UnseenAreAhead'
<1> DEFINE offset == (page - 1) * Size
<1>1. /\ offset \in Nat /\ page * Size = offset + Size /\ Size \in Nat \ {0}
      /\ \A i \in DOMAIN list : list[i] \in OnPage(page, Size) <=> offset < i /\ i <= page * Size
  BY Found
<1>2. Size' = BindPage(asked')
  BY DEF Size, BindPage
<1>t. \A s : Tied(s) => Tied(s)'
  BY TiedStays
<1>l. Len(list) \in Nat /\ DOMAIN list = 1..Len(list)
  BY DEF TypeOK
<1>3. CASE CountTotal
  <2>1. UNCHANGED <<list, page, seen, written, left, asked>> /\ phase # "done"
    BY <1>3 DEF CountTotal
  <2> QED  BY <1>2, <1>t, <2>1 DEF UnseenAreAhead, Kept, Size
<1>4. CASE FindRows
  <2>1. UNCHANGED <<asked, list, written, left>> /\ phase = "rows"
    BY <1>4, FindStep
  <2>2. Size' = Size /\ Kept' = Kept
    BY <1>2, <2>1 DEF Size, Kept
  <2> SUFFICES ASSUME ~left, NEW r \in Kept, ~Tied(r)
               PROVE  \E i \in DOMAIN list :
                         list[i] = r /\ (phase' # "done" => r \in seen' \/ (page' - 1) * Size < i)
    BY <1>t, <2>1, <2>2 DEF UnseenAreAhead
  <2>3. PICK i \in DOMAIN list : list[i] = r /\ (r \in seen \/ offset < i)
    BY <2>1 DEF UnseenAreAhead
  <2>4. seen' = seen \cup OnPage(page, Size)
    BY <1>4, FindStep
  <2>5. phase' # "done" => (page' - 1) * Size = page * Size
    <3>1. phase' # "done" => page' = page + 1
      BY <1>4, FindStep
    <3>2. (page + 1) - 1 = page
      BY DEF TypeOK
    <3> QED  BY <3>1, <3>2
  <2> HIDE DEF offset
  <2>6. r \in seen' \/ page * Size < i
    BY <1>1, <1>l, <2>3, <2>4
  <2> QED  BY <2>3, <2>5, <2>6
<1>5. ASSUME UNCHANGED <<asked, phase, page, seen, left>>, phase # "done",
             Kept' \subseteq Kept, list' \in Seq(Rows),
             \A j \in DOMAIN list : list[j] \in Kept' /\ ~Tied(list[j]) =>
                \E k \in DOMAIN list' : j <= k /\ list'[k] = list[j]
      PROVE  UnseenAreAhead'
  <2>1. Size' = Size
    BY <1>2, <1>5 DEF Size
  <2> SUFFICES ASSUME ~left, NEW s \in Kept', ~Tied(s)
               PROVE  \E k \in DOMAIN list' : list'[k] = s /\ (s \in seen \/ offset < k)
    BY <1>5, <1>t, <2>1 DEF UnseenAreAhead
  <2>2. PICK j \in DOMAIN list : list[j] = s /\ (s \in seen \/ offset < j)
    BY <1>5 DEF UnseenAreAhead
  <2>3. PICK k \in DOMAIN list' : j <= k /\ list'[k] = s
    BY <1>5, <2>2
  <2>4. j \in Nat /\ k \in Nat
    BY <1>5, <1>l
  <2> HIDE DEF offset
  <2> QED  BY <1>1, <2>2, <2>3, <2>4
<1>6. ASSUME NEW r \in Rows, Create(r) \/ Update(r) \/ Delete(r)
      PROVE  UnseenAreAhead'
  <2>1. UNCHANGED <<asked, phase, page, seen>> /\ phase # "done"
    BY <1>6, WriteStep
  <2>2. CASE Leave(r)
    BY <2>2 DEF Leave, UnseenAreAhead
  <2>3. CASE (Come(r) /\ r \notin Listed) \/ Rise(r)
    <3>1. written' = written \cup {r} /\ UNCHANGED left
      BY <2>3 DEF Come, Rise
    <3>2. Kept' \subseteq Kept /\ r \notin Kept'
      BY <3>1 DEF Kept
    <3>3. /\ list' \in Seq(Rows)
          /\ \A j \in DOMAIN list : list[j] # r => \E k \in DOMAIN list' : j <= k /\ list'[k] = list[j]
      BY <2>3, ComeMoves, RiseMoves
    <3>4. \A j \in DOMAIN list : list[j] \in Kept' /\ ~Tied(list[j]) =>
             \E k \in DOMAIN list' : j <= k /\ list'[k] = list[j]
      BY <3>2, <3>3
    <3> QED  BY <1>5, <2>1, <3>1, <3>2, <3>3, <3>4
  <2>4. CASE UNCHANGED <<list, written, left, added>>
    BY <1>2, <1>t, <2>1, <2>4 DEF UnseenAreAhead, Kept, Size
  <2> QED  BY <1>6, <2>2, <2>3, <2>4, WriteKinds
<1>7. ASSUME NEW i \in DOMAIN list, Shuffle(i)
      PROVE  UnseenAreAhead'
  <2>1. Kept' = Kept
    BY <1>7, ShuffleStep DEF Kept
  <2>2. list' \in Seq(Rows) /\ DOMAIN list' = DOMAIN list
    BY <1>7, ShuffleMoves
  <2>3. \A j \in DOMAIN list : ~Tied(list[j]) => j <= j /\ list'[j] = list[j]
    BY <1>7, <1>l, ShuffleMoves
  <2>4. \A j \in DOMAIN list : list[j] \in Kept' /\ ~Tied(list[j]) =>
           \E k \in DOMAIN list' : j <= k /\ list'[k] = list[j]
    BY <2>2, <2>3
  <2>5. phase # "done"
    BY <1>7, ShuffleStep
  <2> QED  BY <1>5, <1>7, <2>1, <2>2, <2>4, <2>5, ShuffleStep
<1>8. CASE UNCHANGED vars
  BY <1>2, <1>t, <1>8 DEF vars, UnseenAreAhead, Kept, Size
<1> QED  BY <1>3, <1>4, <1>6, <1>7, <1>8 DEF Next

LEMMA SeenStep ==
    ASSUME TypeOK, SeenAreBehind, [Next]_vars
    PROVE  SeenAreBehind'
<1> DEFINE offset == (page - 1) * Size
<1>1. /\ offset \in Nat /\ page * Size = offset + Size /\ Size \in Nat \ {0}
      /\ OnPage(page, Size) \subseteq {list[i] : i \in DOMAIN list}
      /\ \A i \in DOMAIN list : list[i] \in OnPage(page, Size) <=> offset < i /\ i <= page * Size
  BY Found DEF OnPage
<1>2. Size' = BindPage(asked')
  BY DEF Size, BindPage
<1>t. \A s : Tied(s) => Tied(s)'
  BY TiedStays
<1>l. Len(list) \in Nat /\ DOMAIN list = 1..Len(list)
  BY DEF TypeOK
<1>3. CASE CountTotal
  <2>1. UNCHANGED <<list, page, seen, twice, written, asked>> /\ phase # "done"
    BY <1>3 DEF CountTotal
  <2> QED  BY <1>2, <1>t, <2>1 DEF SeenAreBehind, Size
<1>4. CASE FindRows
  <2>1. UNCHANGED <<asked, list, written>> /\ phase = "rows"
    BY <1>4, FindStep
  <2>2. Size' = Size
    BY <1>2, <2>1 DEF Size
  <2> SUFFICES ASSUME written = {}
               PROVE  /\ \A r \in twice' : Tied(r)
                      /\ phase' # "done" => \A i \in DOMAIN list :
                            list[i] \in seen' => Tied(list[i]) \/ i <= (page' - 1) * Size
    BY <1>t, <2>1, <2>2 DEF SeenAreBehind
  <2>3. /\ \A r \in twice : Tied(r)
        /\ \A i \in DOMAIN list : list[i] \in seen => Tied(list[i]) \/ i <= offset
    BY <2>1 DEF SeenAreBehind
  <2>4. seen' = seen \cup OnPage(page, Size) /\ twice' = twice \cup (seen \cap OnPage(page, Size))
    BY <1>4, FindStep
  <2>5. phase' # "done" => (page' - 1) * Size = page * Size
    <3>1. phase' # "done" => page' = page + 1
      BY <1>4, FindStep
    <3>2. (page + 1) - 1 = page
      BY DEF TypeOK
    <3> QED  BY <3>1, <3>2
  <2> HIDE DEF offset
  <2>6. \A i \in DOMAIN list : list[i] \in OnPage(page, Size) /\ list[i] \in seen => Tied(list[i])
    BY <1>1, <1>l, <2>3
  <2>7. \A r \in twice' : Tied(r)
    BY <1>1, <2>3, <2>4, <2>6
  <2>8. \A i \in DOMAIN list : list[i] \in seen' => Tied(list[i]) \/ i <= page * Size
    BY <1>1, <1>l, <2>3, <2>4
  <2> QED  BY <2>5, <2>7, <2>8
<1>5. ASSUME NEW r \in Rows, Create(r) \/ Update(r) \/ Delete(r)
      PROVE  SeenAreBehind'
  <2>1. UNCHANGED <<asked, phase, page, seen, twice>> /\ phase # "done"
    BY <1>5, WriteStep
  <2>2. Size' = Size
    BY <1>2, <2>1 DEF Size
  <2>3. CASE Come(r) \/ Rise(r)
    <3>1. written' # {}
      BY <2>3 DEF Come, Rise
    <3> QED  BY <3>1 DEF SeenAreBehind
  <2>4. CASE Leave(r) /\ source = "records"
    <3>1. UNCHANGED written /\ \A s : ~Tied(s)
      BY <2>4 DEF Leave, Tied
    <3>2. /\ list' \in Seq(Rows)
          /\ \A k \in DOMAIN list' : \E j \in DOMAIN list : k <= j /\ list'[k] = list[j]
      BY <2>4, LeaveMoves
    <3>3. \A k \in DOMAIN list' : k \in Nat
      BY <3>2
    <3> SUFFICES ASSUME written = {}, NEW k \in DOMAIN list', list'[k] \in seen
                 PROVE  k <= offset
      BY <2>1, <2>2, <3>1 DEF SeenAreBehind
    <3>4. PICK j \in DOMAIN list : k <= j /\ list'[k] = list[j]
      BY <3>2
    <3>5. j <= offset
      BY <2>1, <3>1, <3>4 DEF SeenAreBehind
    <3> HIDE DEF offset
    <3> QED  BY <1>1, <1>l, <3>3, <3>4, <3>5
  <2>5. CASE UNCHANGED <<list, written, left, added>>
    BY <1>t, <2>1, <2>2, <2>5 DEF SeenAreBehind
  <2> QED  BY <1>5, <2>3, <2>4, <2>5, WriteKinds
<1>6. ASSUME NEW i \in DOMAIN list, Shuffle(i)
      PROVE  SeenAreBehind'
  <2>1. UNCHANGED <<asked, phase, page, seen, twice, written>> /\ phase # "done"
    BY <1>6, ShuffleStep
  <2>2. Size' = Size
    BY <1>2, <2>1 DEF Size
  <2>3. DOMAIN list' = DOMAIN list
    BY <1>6, ShuffleMoves
  <2>4. \A j \in DOMAIN list : list'[j] = list[j] \/ Tied(list'[j])
    BY <1>6, ShuffleMoves
  <2>5. \A j \in DOMAIN list' : list'[j] \in seen /\ written = {} => Tied(list'[j]) \/ j <= offset
    BY <2>1, <2>3, <2>4 DEF SeenAreBehind
  <2>6. \A j \in DOMAIN list' : Tied(list'[j]) => Tied(list[j])'
    BY <1>t
  <2>7. written = {} => \A r \in twice : Tied(r)
    BY DEF SeenAreBehind
  <2> QED  BY <1>t, <2>1, <2>2, <2>5, <2>6, <2>7 DEF SeenAreBehind
<1>7. CASE UNCHANGED vars
  BY <1>2, <1>t, <1>7 DEF vars, SeenAreBehind, Size
<1> QED  BY <1>3, <1>4, <1>5, <1>6, <1>7 DEF Next

\* The last page reaches to the end of the list.
LEMMA MissedStep ==
    ASSUME TypeOK, TotalIsLength, UnseenAreAhead, NothingMissed, [Next]_vars
    PROVE  NothingMissed'
<1>1. CASE CountTotal
  BY <1>1 DEF CountTotal, NothingMissed
<1>2. CASE FindRows
  <2> SUFFICES ASSUME phase' = "done", ~left, added = {}, NEW r \in Kept, ~Tied(r)
               PROVE  r \in seen'
    BY <1>2, FindStep, TiedStays DEF NothingMissed, Kept
  <2>1. phase = "rows" /\ seen' = seen \cup OnPage(page, Size) /\ page * Size >= total
    BY <1>2, FindStep
  <2>2. total = Len(list)
    BY <2>1 DEF TotalIsLength
  <2>3. PICK i \in DOMAIN list : list[i] = r /\ (r \in seen \/ (page - 1) * Size < i)
    BY <2>1 DEF UnseenAreAhead
  <2>4. i \in Nat /\ i <= Len(list) /\ Len(list) \in Nat
    BY DEF TypeOK
  <2>5. page * Size \in Nat
    BY Found
  <2>6. i <= page * Size
    BY <2>1, <2>2, <2>4, <2>5
  <2> QED  BY <2>1, <2>3, <2>6, Found
<1>3. ASSUME NEW r \in Rows, Create(r) \/ Update(r) \/ Delete(r)
      PROVE  NothingMissed'
  BY <1>3, WriteStep DEF NothingMissed
<1>4. ASSUME NEW i \in DOMAIN list, Shuffle(i)
      PROVE  NothingMissed'
  BY <1>4, ShuffleStep DEF NothingMissed
<1>5. CASE UNCHANGED vars
  BY <1>5, TiedStays DEF vars, NothingMissed, Kept
<1> QED  BY <1>1, <1>2, <1>3, <1>4, <1>5 DEF Next

\* Before the first page.
LEMMA Outset ==
    ASSUME Init
    PROVE  IInv
<1>1. list \in Seq(Rows) /\ Len(list) \in Nat /\ DOMAIN list = 1..Len(list)
  BY ListingAssumption DEF Init
<1>2. asked \in AskedSizes /\ page = 1 /\ phase = "total" /\ seen = {} /\ twice = {} /\ written = {}
  BY DEF Init
<1>3. TypeOK
  <2>1. page \in Nat \ {0} /\ writes \in 0..MaxWrites /\ total \in Nat
    BY ListingAssumption DEF Init
  <2>2. \A i, j \in DOMAIN list : list[i] = list[j] => i = j
    BY ListingAssumption DEF Init
  <2>3. outside \subseteq Rows \ Listed /\ Listed \cup outside \subseteq Existed \cup written
    BY ListingAssumption DEF Init, Listed, Existed
  <2> QED  BY <1>1, <2>1, <2>2, <2>3 DEF Init, TypeOK
<1>4. (page - 1) * Size = 0
  <2>1. page - 1 = 0 /\ Size \in Nat
    BY <1>2, Sizes DEF Size
  <2> QED  BY <2>1
<1>5. TotalIsLength
  BY <1>2 DEF TotalIsLength
<1>6. UnseenAreAhead
  <2>1. \A r \in Kept : \E i \in DOMAIN list : list[i] = r
    BY DEF Kept, Init
  <2>2. \A i \in DOMAIN list : (page - 1) * Size < i
    BY <1>1, <1>4
  <2> QED  BY <2>1, <2>2 DEF UnseenAreAhead
<1>7. SeenAreBehind
  BY <1>2 DEF SeenAreBehind
<1>8. NothingMissed
  BY <1>2 DEF NothingMissed
<1> QED  BY <1>3, <1>5, <1>6, <1>7, <1>8 DEF IInv

\* Where the rows lie that the client has been given, and those that it has not.
THEOREM Invariance == Spec => []IInv
<1>1. IInv /\ [Next]_vars => IInv'
  BY TypeStep, TotalStep, UnseenStep, SeenStep, MissedStep DEF IInv
<1> QED  BY <1>1, Outset, PTL DEF Spec

\* A walk misses none of the rows that were found from its start, unless they are updated, others
\* leave the list, some come onto it between the two queries of its last page, or they are audit
\* entries with the stamp of another: for any filter, sizes and writes.
THEOREM WalkIsComplete == Spec => []NothingMissed
<1>1. IInv => NothingMissed
  BY DEF IInv
<1> QED  BY <1>1, Invariance, PTL

\* No row comes on two pages unless rows come onto the list or are updated during the walk, or it
\* is an audit entry with the stamp of another.
THEOREM NoRowTwice == Spec => []NothingTwice
<1>1. IInv => NothingTwice
  BY DEF IInv, SeenAreBehind, NothingTwice
<1> QED  BY <1>1, Invariance, PTL
=============================================================================
