------------------------ MODULE TransferWorkflowProofs ------------------------
(***************************************************************************)
(* The properties of TransferWorkflow for every number of records and of   *)
(* concurrent requests, every clock and every bound.                       *)
(*                                                                         *)
(* A handler writes what it prepared some steps ago.  The invariant says   *)
(* of each prepared job what is left of the knowledge it rests on: Based,  *)
(* that the job is either stale, so that its version no longer matches, or *)
(* agrees with the row it was computed from; Looked, that what was looked  *)
(* up existed, and qualified then, unless it was overtaken.  Both survive  *)
(* whatever the other requests write, because rows only ever grow.         *)
(*                                                                         *)
(* From it follows that the handlers implement Transfers.  For that the    *)
(* invariant is extended by AsRead: a job whose version still matches is   *)
(* the revision of its row that Transfers lets one write.                  *)
(***************************************************************************)
EXTENDS TransferWorkflow, TLAPS

-----------------------------------------------------------------------------
(* What is known of a job, stated of the tables gs, cs, ms, ks at time t. *)

\* The job agrees with the row it was computed from, if that is still the row.
BasedManifest(ms, j) ==
    /\ j.item.state = "live"
    /\ j.op \in {"create", "update"} => j.item.status = "draft"
    /\ j.op = "transition" => j.item.status # "draft"
    /\ j.op \in {"update", "transition"} =>
           Exists(ms, j.code) /\ j.item.version <= ms[j.code].version + 1
    /\ j.op = "update" /\ j.item.version = ms[j.code].version + 1 =>
           ms[j.code].status = "draft"
    /\ j.op = "transition" /\ j.item.version = ms[j.code].version + 1 =>
           /\ j.item.generator = ms[j.code].generator
           /\ j.item.carrier = ms[j.code].carrier
           /\ CanTransition(TransferManifestTransitions, ms[j.code].status, j.item.status)

BasedCheck(ks, j) ==
    /\ j.item.state = "live"
    /\ j.op \in {"create", "update"} => j.item.status = "pending"
    /\ j.op \in {"update", "transition"} =>
           Exists(ks, j.code) /\ j.item.version <= ks[j.code].version + 1
    /\ j.op = "transition" /\ j.item.version = ks[j.code].version + 1 =>
           j.item.manifest = ks[j.code].manifest

Based(ms, ks, j) ==
    /\ j.table \in {"generators", "carriers"} => j.item.state = "live"
    /\ j.table = "manifests" => BasedManifest(ms, j)
    /\ j.table = "checks" => BasedCheck(ks, j)

\* A record was seen: it exists, and is not older than what was seen.
Sighted(row, seen, t) ==
    /\ row.state # "absent"
    /\ seen.version <= row.version
    /\ seen.at <= t

\* A permit was seen to have the status and to be valid, unless it was overtaken since.
Qualified(row, status, seen, t) ==
    \/ row.state = "live" /\ row.status = status /\ row.expires > t
    \/ row.state = "deleted"
    \/ row.version > seen.version
    \/ seen.at < row.expires /\ row.expires <= t

\* A manifest was seen to be passable, unless it was rejected since.
Passed(row, seen) ==
    \/ row.status \in Passable
    \/ row.status = "rejected" /\ row.version > seen.version

LooksUpParties(j) ==
    \/ j.op \in {"create", "update"}
    \/ j.op = "transition" /\ j.item.status \in Departure

LookedParties(gs, cs, t, j) ==
    LooksUpParties(j) =>
        /\ j.step \in {"carrier", "write"} =>
               /\ Sighted(gs[j.item.generator], j.seen["generators"], t)
               /\ j.op = "transition" =>
                      Qualified(gs[j.item.generator], "active", j.seen["generators"], t)
        /\ j.step = "write" =>
               /\ Sighted(cs[j.item.carrier], j.seen["carriers"], t)
               /\ j.op = "transition" =>
                      Qualified(cs[j.item.carrier], "verified", j.seen["carriers"], t)

LookedManifest(ms, t, j) ==
    j.op # "delete" /\ j.step = "write" =>
        /\ Sighted(ms[j.item.manifest], j.seen["manifests"], t)
        /\ j.op = "transition" /\ j.item.status = "pass" =>
               Passed(ms[j.item.manifest], j.seen["manifests"])

Looked(gs, cs, ms, t, j) ==
    /\ j.table = "manifests" => LookedParties(gs, cs, t, j)
    /\ j.table = "checks" => LookedManifest(ms, t, j)

Prepared ==
    \A w \in Workers : work[w] # Idle =>
        /\ Based(manifests, checks, work[w])
        /\ Looked(generators, carriers, manifests, now, work[w])

IInv == TypeOK /\ LinksWereCreated /\ PassedLeftDraft /\ Prepared

-----------------------------------------------------------------------------
(* Jobs. *)

LEMMA JobType ==
    ASSUME NEW j \in Job
    PROVE  /\ j.table \in Tables /\ j # Idle
           /\ j.op \in {"create", "update", "transition", "delete"}
           /\ j.step \in {"generator", "carrier", "manifest", "write"}
           /\ j.seen \in [Tables -> Sighting]
           /\ j.table = "generators" => j.code \in GeneratorCodes /\ j.item \in GeneratorRow
           /\ j.table = "carriers" => j.code \in CarrierCodes /\ j.item \in CarrierRow
           /\ j.table = "manifests" => j.code \in ManifestCodes /\ j.item \in ManifestRow
           /\ j.table = "checks" => j.code \in CheckCodes /\ j.item \in CheckRow
BY DEF Job, JobOf, Tables, Idle

AfterLookUp(j, t, sighting, step) == [j EXCEPT !.step = step, !.seen[t] = sighting]

\* A look-up changes how far a job is and what it has seen, and nothing else.
LEMMA LookUpEffect ==
    \A j \in Job, t \in Tables, sighting \in Sighting,
       step \in {"generator", "carrier", "manifest", "write"} :
        LET i == AfterLookUp(j, t, sighting, step) IN
        /\ i \in Job
        /\ i.table = j.table /\ i.op = j.op /\ i.code = j.code /\ i.item = j.item
        /\ i.step = step
        /\ i.seen = [j.seen EXCEPT ![t] = sighting]
<1> TAKE j \in Job, t \in Tables, sighting \in Sighting,
         step \in {"generator", "carrier", "manifest", "write"}
<1> DEFINE i == AfterLookUp(j, t, sighting, step)
<1> DEFINE seen == [j.seen EXCEPT ![t] = sighting]
<1>1. seen \in [Tables -> Sighting]
  BY JobType
<1>2. i = [j EXCEPT !.step = step, !.seen = seen]
  BY DEF AfterLookUp
<1> HIDE DEF seen, i
<1>3. i.table = j.table /\ i.op = j.op /\ i.code = j.code /\ i.item = j.item
      /\ i.step = step /\ i.seen = seen /\ i \in Job
  BY <1>1, <1>2 DEF Job, JobOf
<1> QED
  BY <1>3 DEF seen, i

\* What a transaction makes of the row r.
Revised(r, j, s) ==
    \/ j.op = "create" /\ r.state = "absent" /\ s = j.item
    \/ /\ j.op \in {"update", "transition"} /\ r.state = "live"
       /\ r.version + 1 = j.item.version
       /\ s = j.item
    \/ r.state = "live" /\ s = [r EXCEPT !.state = "deleted"]

LEMMA WriteEffect ==
    ASSUME NEW table, NEW j, Writable(table, j)
    PROVE  \E s : Written(table, j) = [table EXCEPT ![j.code] = s] /\ Revised(table[j.code], j, s)
<1>1. CASE j.op = "delete"
  BY <1>1 DEF Writable, Written, Found, Revised
<1>2. CASE j.op # "delete"
  BY <1>2 DEF Writable, Written, Found, VersionMatches, Revised
<1> QED
  BY <1>1, <1>2

-----------------------------------------------------------------------------
(* Rows grow: none disappears, and one that changes is deleted or revised. *)

PermitGrows(r, s) ==
    r.state # "absent" =>
        /\ s.state # "absent"
        /\ \/ s = r
           \/ s.version = r.version /\ s.state = "deleted"
           \/ s.version > r.version

ManifestGrows(r, s) ==
    r.state # "absent" =>
        /\ s.state # "absent"
        /\ \/ /\ s.version = r.version /\ s.status = r.status
              /\ s.generator = r.generator /\ s.carrier = r.carrier
           \/ /\ s.version = r.version + 1
              /\ \/ r.status = "draft" /\ s.status = "draft"
                 \/ /\ s.status # "draft"
                    /\ CanTransition(TransferManifestTransitions, r.status, s.status)

CheckGrows(r, s) ==
    r.state # "absent" =>
        /\ s.state # "absent"
        /\ \/ s.version = r.version /\ s.status = r.status /\ s.manifest = r.manifest
           \/ s.version = r.version + 1

LEMMA SightedStays ==
    ASSUME NEW r, NEW s, r.version \in Nat, s.version \in Nat,
           NEW seen \in Sighting, NEW t \in Nat, NEW u \in Nat, t <= u,
           PermitGrows(r, s), Sighted(r, seen, t)
    PROVE  Sighted(s, seen, u)
BY DEF PermitGrows, Sighted, Sighting

LEMMA QualifiedStays ==
    ASSUME NEW r, NEW s, r.version \in Nat, s.version \in Nat, r.expires \in Nat,
           NEW seen \in Sighting, NEW t \in Nat, NEW u \in Nat, t <= u, NEW status,
           PermitGrows(r, s), Sighted(r, seen, t), Qualified(r, status, seen, t)
    PROVE  Qualified(s, status, seen, u)
<1>1. CASE s = r
  BY <1>1 DEF Qualified, Sighted, Sighting
<1>2. CASE s.state = "deleted"
  BY <1>2 DEF Qualified
<1>3. CASE s.version > r.version
  BY <1>3 DEF Qualified, Sighted, Sighting
<1> QED
  BY <1>1, <1>2, <1>3 DEF PermitGrows, Sighted

LEMMA PassedStays ==
    ASSUME NEW r \in ManifestRow, NEW s \in ManifestRow, NEW seen \in Sighting, NEW t,
           ManifestGrows(r, s), Sighted(r, seen, t), Passed(r, seen)
    PROVE  Passed(s, seen)
BY DEF ManifestGrows, Sighted, Passed, Passable, Sighting, ManifestRow, CanTransition,
       TransferManifestTransitions

-----------------------------------------------------------------------------
(* What is known of a job outlives the steps of the others. *)

LEMMA BasedStays ==
    ASSUME NEW ms \in [ManifestCodes -> ManifestRow], NEW ns \in [ManifestCodes -> ManifestRow],
           NEW ks \in [CheckCodes -> CheckRow], NEW ls \in [CheckCodes -> CheckRow],
           \A m \in ManifestCodes : ManifestGrows(ms[m], ns[m]),
           \A k \in CheckCodes : CheckGrows(ks[k], ls[k]),
           NEW j \in Job, Based(ms, ks, j)
    PROVE  Based(ns, ls, j)
<1>1. CASE j.table = "manifests"
  <2>1. j.code \in ManifestCodes /\ j.item \in ManifestRow
    BY <1>1, JobType
  <2>2. ms[j.code] \in ManifestRow /\ ns[j.code] \in ManifestRow
        /\ ManifestGrows(ms[j.code], ns[j.code])
    BY <2>1
  <2>3. BasedManifest(ms, j)
    BY <1>1 DEF Based
  <2>4. BasedManifest(ns, j)
    BY <2>1, <2>2, <2>3 DEF BasedManifest, ManifestGrows, Exists, ManifestRow
  <2> QED
    BY <1>1, <2>4 DEF Based
<1>2. CASE j.table = "checks"
  <2>1. j.code \in CheckCodes /\ j.item \in CheckRow
    BY <1>2, JobType
  <2>2. ks[j.code] \in CheckRow /\ ls[j.code] \in CheckRow
        /\ CheckGrows(ks[j.code], ls[j.code])
    BY <2>1
  <2>3. BasedCheck(ks, j)
    BY <1>2 DEF Based
  <2>4. BasedCheck(ls, j)
    BY <2>1, <2>2, <2>3 DEF BasedCheck, CheckGrows, Exists, CheckRow
  <2> QED
    BY <1>2, <2>4 DEF Based
<1> QED
  BY <1>1, <1>2 DEF Based

LEMMA LookedStays ==
    ASSUME NEW gs \in [GeneratorCodes -> GeneratorRow],
           NEW hs \in [GeneratorCodes -> GeneratorRow],
           NEW cs \in [CarrierCodes -> CarrierRow], NEW ds \in [CarrierCodes -> CarrierRow],
           NEW ms \in [ManifestCodes -> ManifestRow], NEW ns \in [ManifestCodes -> ManifestRow],
           NEW t \in Nat, NEW u \in Nat, t <= u,
           \A g \in GeneratorCodes : PermitGrows(gs[g], hs[g]),
           \A c \in CarrierCodes : PermitGrows(cs[c], ds[c]),
           \A m \in ManifestCodes : ManifestGrows(ms[m], ns[m]),
           NEW j \in Job, Looked(gs, cs, ms, t, j)
    PROVE  Looked(hs, ds, ns, u, j)
<1>1. CASE j.table = "manifests"
  <2>1. LookedParties(gs, cs, t, j)
    BY <1>1 DEF Looked
  <2> DEFINE g == j.item.generator
             c == j.item.carrier
  <2>2. /\ g \in GeneratorCodes /\ c \in CarrierCodes
        /\ j.seen["generators"] \in Sighting /\ j.seen["carriers"] \in Sighting
    BY <1>1, JobType DEF ManifestRow, Tables
  <2>3. /\ gs[g] \in GeneratorRow /\ hs[g] \in GeneratorRow
        /\ cs[c] \in CarrierRow /\ ds[c] \in CarrierRow
        /\ PermitGrows(gs[g], hs[g]) /\ PermitGrows(cs[c], ds[c])
    BY <2>2
  <2>4. /\ gs[g].version \in Nat /\ hs[g].version \in Nat /\ gs[g].expires \in Nat
        /\ cs[c].version \in Nat /\ ds[c].version \in Nat /\ cs[c].expires \in Nat
    BY <2>3, RegistryAssumption DEF GeneratorRow, CarrierRow, Permit
  <2>5. Sighted(gs[g], j.seen["generators"], t) => Sighted(hs[g], j.seen["generators"], u)
    BY <2>2, <2>3, <2>4, SightedStays
  <2>6. Sighted(gs[g], j.seen["generators"], t)
        /\ Qualified(gs[g], "active", j.seen["generators"], t)
        => Qualified(hs[g], "active", j.seen["generators"], u)
    BY <2>2, <2>3, <2>4, QualifiedStays
  <2>7. Sighted(cs[c], j.seen["carriers"], t) => Sighted(ds[c], j.seen["carriers"], u)
    BY <2>2, <2>3, <2>4, SightedStays
  <2>8. Sighted(cs[c], j.seen["carriers"], t)
        /\ Qualified(cs[c], "verified", j.seen["carriers"], t)
        => Qualified(ds[c], "verified", j.seen["carriers"], u)
    BY <2>2, <2>3, <2>4, QualifiedStays
  <2>9. LookedParties(hs, ds, u, j)
    BY <2>1, <2>5, <2>6, <2>7, <2>8 DEF LookedParties
  <2> QED
    BY <1>1, <2>9 DEF Looked
<1>2. CASE j.table = "checks"
  <2>1. LookedManifest(ms, t, j)
    BY <1>2 DEF Looked
  <2> DEFINE m == j.item.manifest
  <2>2. m \in ManifestCodes /\ j.seen["manifests"] \in Sighting
    BY <1>2, JobType DEF CheckRow, Tables
  <2>3. ms[m] \in ManifestRow /\ ns[m] \in ManifestRow /\ ManifestGrows(ms[m], ns[m])
    BY <2>2
  <2>4. Passed(ms[m], j.seen["manifests"]) /\ Sighted(ms[m], j.seen["manifests"], t)
        => Passed(ns[m], j.seen["manifests"])
    BY <2>2, <2>3, PassedStays
  <2>5. Sighted(ms[m], j.seen["manifests"], t) => Sighted(ns[m], j.seen["manifests"], u)
    BY <2>2, <2>3 DEF Sighted, ManifestGrows, Sighting, ManifestRow
  <2>6. LookedManifest(ns, u, j)
    BY <2>1, <2>4, <2>5 DEF LookedManifest
  <2> QED
    BY <1>2, <2>6 DEF Looked
<1> QED
  BY <1>1, <1>2 DEF Looked

-----------------------------------------------------------------------------
(* The steps of a worker w leave the jobs of the others alone. *)

Grow ==
    /\ \A g \in GeneratorCodes : PermitGrows(generators[g], generators'[g])
    /\ \A c \in CarrierCodes : PermitGrows(carriers[c], carriers'[c])
    /\ \A m \in ManifestCodes : ManifestGrows(manifests[m], manifests'[m])
    /\ \A k \in CheckCodes : CheckGrows(checks[k], checks'[k])
    /\ now <= now'

LEMMA NothingGrows ==
    ASSUME TypeOK, UNCHANGED <<generators, carriers, manifests, checks>>, now <= now'
    PROVE  Grow
BY DEF Grow, PermitGrows, ManifestGrows, CheckGrows, TypeOK

LEMMA PreparedStays ==
    ASSUME TypeOK, TypeOK', Prepared, Grow,
           \A v \in Workers :
               \/ work'[v] = work[v]
               \/ work'[v] = Idle
               \/ /\ Based(manifests', checks', work'[v])
                  /\ Looked(generators', carriers', manifests', now', work'[v])
    PROVE  Prepared'
<1> SUFFICES ASSUME NEW v \in Workers, work'[v] # Idle
             PROVE  /\ Based(manifests', checks', work'[v])
                    /\ Looked(generators', carriers', manifests', now', work'[v])
  BY DEF Prepared
<1>1. CASE work'[v] # work[v]
  BY <1>1
<1>2. CASE work'[v] = work[v]
  <2>1. work'[v] = work[v] /\ work[v] \in Job
    BY <1>2 DEF TypeOK
  <2>2. /\ Based(manifests, checks, work[v])
        /\ Looked(generators, carriers, manifests, now, work[v])
    BY <2>1 DEF Prepared
  <2>3. now \in Nat /\ now' \in Nat
    BY RegistryAssumption DEF TypeOK
  <2>4. Based(manifests', checks', work[v])
    BY <2>1, <2>2, BasedStays DEF TypeOK, Grow
  <2>5. Looked(generators', carriers', manifests', now', work[v])
    BY <2>1, <2>2, <2>3, LookedStays DEF TypeOK, Grow
  <2> QED
    BY <2>1, <2>4, <2>5
<1> QED
  BY <1>1, <1>2

\* A step that writes nothing keeps the tables and what they promise.
LEMMA TablesKept ==
    ASSUME LinksWereCreated, PassedLeftDraft, UNCHANGED <<generators, carriers, manifests, checks>>
    PROVE  LinksWereCreated' /\ PassedLeftDraft'
BY DEF LinksWereCreated, PassedLeftDraft, Exists, Found

LEMMA BeginStep ==
    ASSUME IInv, NEW w \in Workers, NEW tableName, NEW op, NEW code, NEW item, NEW step,
           NEW n \in Job,
           n = [table |-> tableName, op |-> op, code |-> code, item |-> item, step |-> step,
                seen |-> [t \in Tables |-> Unseen]],
           Based(manifests, checks, n),
           Looked(generators, carriers, manifests, now, n),
           Begin(w, tableName, op, code, item, step)
    PROVE  IInv'
<1>1. work' = [work EXCEPT ![w] = n] /\ UNCHANGED <<generators, carriers, manifests, checks, now>>
  BY DEF Begin
<1>2. TypeOK'
  BY <1>1 DEF IInv, TypeOK
<1>3. Grow
  BY <1>1, NothingGrows, RegistryAssumption DEF IInv, TypeOK
<1>4. work'[w] = n /\ \A v \in Workers \ {w} : work'[v] = work[v]
  BY <1>1 DEF IInv, TypeOK
<1>5. Prepared'
  BY <1>1, <1>2, <1>3, <1>4, PreparedStays DEF IInv
<1> QED
  BY <1>1, <1>2, <1>5, TablesKept DEF IInv

LEMMA LookedUpStep ==
    ASSUME IInv, NEW w \in Workers, work[w] # Idle,
           NEW t \in Tables, NEW row, row.version \in Nat,
           NEW step \in {"generator", "carrier", "manifest", "write"},
           LookedUp(w, t, row, step),
           \A i \in Job :
               /\ i.table = work[w].table /\ i.op = work[w].op
               /\ i.code = work[w].code /\ i.item = work[w].item
               /\ i.step = step
               /\ i.seen[t] = [version |-> row.version, at |-> now]
               /\ \A u \in Tables \ {t} : i.seen[u] = work[w].seen[u]
               => Looked(generators, carriers, manifests, now, i)
    PROVE  IInv'
<1> DEFINE sighting == [version |-> row.version, at |-> now]
           n == AfterLookUp(work[w], t, sighting, step)
<1>1. work[w] \in Job /\ sighting \in Sighting
  BY RegistryAssumption DEF IInv, TypeOK, Sighting
<1> HIDE DEF sighting
<1> HIDE DEF n
<1>0. n = AfterLookUp(work[w], t, sighting, step)
  BY DEF n
<1>2. /\ n \in Job
      /\ n.table = work[w].table /\ n.op = work[w].op
      /\ n.code = work[w].code /\ n.item = work[w].item
      /\ n.step = step
      /\ n.seen[t] = sighting
      /\ \A u \in Tables \ {t} : n.seen[u] = work[w].seen[u]
  <2> DEFINE j == work[w]
  <2>1. j \in Job /\ n = AfterLookUp(j, t, sighting, step)
    BY <1>0, <1>1
  <2> HIDE DEF j
  <2>2. /\ n \in Job
        /\ n.table = j.table /\ n.op = j.op /\ n.code = j.code /\ n.item = j.item
        /\ n.step = step
        /\ n.seen = [j.seen EXCEPT ![t] = sighting]
    BY <2>1, <1>1, LookUpEffect
  <2>3. j.seen \in [Tables -> Sighting]
    BY <2>1, JobType
  <2> QED
    BY <2>2, <2>3 DEF j
<1>3. /\ work' = [work EXCEPT ![w] = n]
      /\ UNCHANGED <<generators, carriers, manifests, checks, now>>
  BY DEF LookedUp, AfterLookUp, sighting, n
<1>4. TypeOK'
  BY <1>2, <1>3 DEF IInv, TypeOK
<1>5. Grow
  BY <1>3, NothingGrows, RegistryAssumption DEF IInv, TypeOK
<1>6. work'[w] = n /\ \A v \in Workers \ {w} : work'[v] = work[v]
  BY <1>3 DEF IInv, TypeOK
<1>7. Based(manifests, checks, n)
  BY <1>2 DEF IInv, Prepared, Based, BasedManifest, BasedCheck
<1>8. Looked(generators, carriers, manifests, now, n)
  BY <1>2 DEF sighting
<1>9. Prepared'
  BY <1>3, <1>4, <1>5, <1>6, <1>7, <1>8, PreparedStays DEF IInv
<1> QED
  BY <1>3, <1>4, <1>9, TablesKept DEF IInv

LEMMA AbandonStep ==
    ASSUME IInv, NEW w \in Workers, Abandon(w)
    PROVE  IInv'
<1>1. /\ work' = [work EXCEPT ![w] = Idle]
      /\ UNCHANGED <<generators, carriers, manifests, checks, now>>
  BY DEF Abandon, Finish
<1>2. TypeOK'
  BY <1>1 DEF IInv, TypeOK
<1>3. Grow
  BY <1>1, NothingGrows, RegistryAssumption DEF IInv, TypeOK
<1>4. work'[w] = Idle /\ \A v \in Workers \ {w} : work'[v] = work[v]
  BY <1>1 DEF IInv, TypeOK
<1> QED
  BY <1>1, <1>2, <1>3, <1>4, PreparedStays, TablesKept DEF IInv

LEMMA TickStep ==
    ASSUME IInv, Tick
    PROVE  IInv'
<1>1. TypeOK'
  BY RegistryAssumption DEF Tick, IInv, TypeOK
<1>2. Grow
  BY NothingGrows, RegistryAssumption DEF Tick, IInv, TypeOK
<1>3. Prepared'
  BY <1>1, <1>2, PreparedStays DEF Tick, IInv
<1> QED
  BY <1>1, <1>3, TablesKept DEF Tick, IInv

-----------------------------------------------------------------------------
(* Writes. *)

LEMMA Finished ==
    ASSUME TypeOK, TypeOK', Prepared, Grow, NEW w \in Workers, Finish(w)
    PROVE  Prepared'
BY PreparedStays DEF Finish, TypeOK

LEMMA WriteGeneratorStep ==
    ASSUME IInv, NEW w \in Workers, WriteGenerator(w)
    PROVE  IInv'
<1> DEFINE j == work[w]
<1>1. j \in Job /\ j.table = "generators" /\ Writable(generators, j)
  BY DEF WriteGenerator, Serving, IInv, TypeOK, Idle
<1>2. j.code \in GeneratorCodes /\ j.item \in GeneratorRow /\ j.item.state = "live"
  BY <1>1, JobType DEF IInv, Prepared, Based
<1>3. generators \in [GeneratorCodes -> GeneratorRow] /\ generators[j.code] \in GeneratorRow
  BY <1>2 DEF IInv, TypeOK
<1>4. PICK s : generators' = [generators EXCEPT ![j.code] = s] /\ Revised(generators[j.code], j, s)
  BY <1>1, WriteEffect DEF WriteGenerator
<1>5. s \in GeneratorRow /\ PermitGrows(generators[j.code], s)
  BY <1>2, <1>3, <1>4 DEF Revised, PermitGrows, GeneratorRow, Permit, RowState
<1>6. UNCHANGED <<carriers, manifests, checks, now>> /\ Finish(w)
  BY DEF WriteGenerator
<1>7. TypeOK'
  BY <1>3, <1>4, <1>5, <1>6 DEF IInv, TypeOK, Finish
<1>8. Grow
  BY <1>3, <1>4, <1>5, <1>6, RegistryAssumption
     DEF Grow, PermitGrows, ManifestGrows, CheckGrows, IInv, TypeOK
<1>9. Prepared'
  BY <1>6, <1>7, <1>8, Finished DEF IInv
<1>10. LinksWereCreated'
  BY <1>6, <1>8 DEF LinksWereCreated, Exists, Grow, PermitGrows, IInv, TypeOK, ManifestRow
<1>11. PassedLeftDraft'
  BY <1>6 DEF PassedLeftDraft, Found, IInv
<1> QED
  BY <1>7, <1>9, <1>10, <1>11 DEF IInv

LEMMA WriteCarrierStep ==
    ASSUME IInv, NEW w \in Workers, WriteCarrier(w)
    PROVE  IInv'
<1> DEFINE j == work[w]
<1>1. j \in Job /\ j.table = "carriers" /\ Writable(carriers, j)
  BY DEF WriteCarrier, Serving, IInv, TypeOK, Idle
<1>2. j.code \in CarrierCodes /\ j.item \in CarrierRow /\ j.item.state = "live"
  BY <1>1, JobType DEF IInv, Prepared, Based
<1>3. carriers \in [CarrierCodes -> CarrierRow] /\ carriers[j.code] \in CarrierRow
  BY <1>2 DEF IInv, TypeOK
<1>4. PICK s : carriers' = [carriers EXCEPT ![j.code] = s] /\ Revised(carriers[j.code], j, s)
  BY <1>1, WriteEffect DEF WriteCarrier
<1>5. s \in CarrierRow /\ PermitGrows(carriers[j.code], s)
  BY <1>2, <1>3, <1>4 DEF Revised, PermitGrows, CarrierRow, Permit, RowState
<1>6. UNCHANGED <<generators, manifests, checks, now>> /\ Finish(w)
  BY DEF WriteCarrier
<1>7. TypeOK'
  BY <1>3, <1>4, <1>5, <1>6 DEF IInv, TypeOK, Finish
<1>8. Grow
  BY <1>3, <1>4, <1>5, <1>6, RegistryAssumption
     DEF Grow, PermitGrows, ManifestGrows, CheckGrows, IInv, TypeOK
<1>9. Prepared'
  BY <1>6, <1>7, <1>8, Finished DEF IInv
<1>10. LinksWereCreated'
  BY <1>6, <1>8 DEF LinksWereCreated, Exists, Grow, PermitGrows, IInv, TypeOK, ManifestRow
<1>11. PassedLeftDraft'
  BY <1>6 DEF PassedLeftDraft, Found, IInv
<1> QED
  BY <1>7, <1>9, <1>10, <1>11 DEF IInv

\* A manifest that has left draft stays out of it.
LEMMA LeftDraftStays ==
    ASSUME NEW r, NEW s, ManifestGrows(r, s), r.state # "absent", r.status # "draft"
    PROVE  s.status # "draft"
BY DEF ManifestGrows

LEMMA WriteManifestStep ==
    ASSUME IInv, NEW w \in Workers, WriteManifest(w)
    PROVE  IInv'
<1> DEFINE j == work[w]
           r == manifests[j.code]
<1>1. j \in Job /\ j.table = "manifests" /\ j.step = "write" /\ Writable(manifests, j)
  BY DEF WriteManifest, Serving, IInv, TypeOK, Idle
<1>2. /\ j.code \in ManifestCodes /\ j.item \in ManifestRow
      /\ BasedManifest(manifests, j) /\ LookedParties(generators, carriers, now, j)
  BY <1>1, JobType DEF IInv, Prepared, Based, Looked
<1>3. manifests \in [ManifestCodes -> ManifestRow] /\ r \in ManifestRow
  BY <1>2 DEF IInv, TypeOK
<1>4. PICK s : manifests' = [manifests EXCEPT ![j.code] = s] /\ Revised(r, j, s)
  BY <1>1, WriteEffect DEF WriteManifest
<1>5. s \in ManifestRow /\ ManifestGrows(r, s)
  BY <1>2, <1>3, <1>4 DEF Revised, ManifestGrows, ManifestRow, RowState, BasedManifest
<1>6. UNCHANGED <<generators, carriers, checks, now>> /\ Finish(w)
  BY DEF WriteManifest
<1>7. TypeOK'
  BY <1>3, <1>4, <1>5, <1>6 DEF IInv, TypeOK, Finish
<1>8. Grow
  BY <1>3, <1>4, <1>5, <1>6, RegistryAssumption
     DEF Grow, PermitGrows, ManifestGrows, CheckGrows, IInv, TypeOK
<1>9. Prepared'
  BY <1>6, <1>7, <1>8, Finished DEF IInv
<1>10. Exists(generators, s.generator) /\ Exists(carriers, s.carrier)
  <2>1. CASE s = j.item /\ j.op \in {"create", "update"}
    BY <1>1, <1>2, <2>1 DEF LookedParties, LooksUpParties, Sighted, Exists
  <2>2. CASE r.state = "live" /\ s.generator = r.generator /\ s.carrier = r.carrier
    BY <1>2, <2>2 DEF IInv, LinksWereCreated, Exists
  <2> QED
    BY <1>2, <1>3, <1>4, <2>1, <2>2 DEF Revised, BasedManifest, ManifestRow
<1>11. LinksWereCreated'
  BY <1>3, <1>4, <1>5, <1>6, <1>8, <1>10
     DEF LinksWereCreated, Exists, Grow, ManifestGrows, IInv, TypeOK, CheckRow
<1>12. PassedLeftDraft'
  <2> SUFFICES ASSUME NEW k \in CheckCodes, Found(checks, k), checks[k].status = "pass"
               PROVE  manifests'[checks[k].manifest].status # "draft"
    BY <1>6 DEF PassedLeftDraft, Found
  <2>1. checks[k].manifest \in ManifestCodes
    BY DEF IInv, TypeOK, CheckRow
  <2>2. /\ manifests[checks[k].manifest].state # "absent"
        /\ manifests[checks[k].manifest].status # "draft"
    BY DEF IInv, LinksWereCreated, PassedLeftDraft, Exists, Found
  <2> QED
    BY <1>8, <2>1, <2>2, LeftDraftStays DEF Grow
<1> QED
  BY <1>7, <1>9, <1>11, <1>12 DEF IInv

LEMMA WriteCheckStep ==
    ASSUME IInv, NEW w \in Workers, WriteCheck(w)
    PROVE  IInv'
<1> DEFINE j == work[w]
           r == checks[j.code]
<1>1. j \in Job /\ j.table = "checks" /\ j.step = "write" /\ Writable(checks, j)
  BY DEF WriteCheck, Serving, IInv, TypeOK, Idle
<1>2. /\ j.code \in CheckCodes /\ j.item \in CheckRow
      /\ BasedCheck(checks, j) /\ LookedManifest(manifests, now, j)
  BY <1>1, JobType DEF IInv, Prepared, Based, Looked
<1>3. checks \in [CheckCodes -> CheckRow] /\ r \in CheckRow
  BY <1>2 DEF IInv, TypeOK
<1>4. PICK s : checks' = [checks EXCEPT ![j.code] = s] /\ Revised(r, j, s)
  BY <1>1, WriteEffect DEF WriteCheck
<1>5. s \in CheckRow /\ CheckGrows(r, s)
  BY <1>2, <1>3, <1>4 DEF Revised, CheckGrows, CheckRow, RowState, BasedCheck
<1>6. UNCHANGED <<generators, carriers, manifests, now>> /\ Finish(w)
  BY DEF WriteCheck
<1>7. TypeOK'
  BY <1>3, <1>4, <1>5, <1>6 DEF IInv, TypeOK, Finish
<1>8. Grow
  BY <1>3, <1>4, <1>5, <1>6, RegistryAssumption
     DEF Grow, PermitGrows, ManifestGrows, CheckGrows, IInv, TypeOK
<1>9. Prepared'
  BY <1>6, <1>7, <1>8, Finished DEF IInv
<1>10. Exists(manifests, s.manifest)
  <2>1. CASE s = j.item /\ j.op # "delete"
    BY <1>1, <1>2, <2>1 DEF LookedManifest, Sighted, Exists
  <2>2. CASE r.state = "live" /\ s.manifest = r.manifest
    BY <1>2, <2>2 DEF IInv, LinksWereCreated, Exists
  <2> QED
    BY <1>3, <1>4, <2>1, <2>2 DEF Revised, CheckRow
<1>11. LinksWereCreated'
  BY <1>3, <1>4, <1>5, <1>6, <1>10 DEF LinksWereCreated, Exists, IInv
<1>12. s.state = "live" /\ s.status = "pass" => manifests[s.manifest].status # "draft"
  BY <1>1, <1>2, <1>3, <1>4 DEF Revised, BasedCheck, LookedManifest, Passed, Passable, CheckRow
<1>13. PassedLeftDraft'
  BY <1>3, <1>4, <1>6, <1>12 DEF PassedLeftDraft, Found, IInv
<1> QED
  BY <1>7, <1>9, <1>11, <1>13 DEF IInv

-----------------------------------------------------------------------------
(* Look-ups. *)

LEMMA LookUpGeneratorStep ==
    ASSUME IInv, NEW w \in Workers, LookUpGenerator(w)
    PROVE  IInv'
<1> DEFINE j == work[w]
           g == j.item.generator
<1>1. j \in Job /\ j # Idle /\ j.table = "manifests"
  BY DEF LookUpGenerator, Serving, IInv, TypeOK, Idle
<1>2. g \in GeneratorCodes /\ generators[g] \in GeneratorRow /\ generators[g].version \in Nat
      /\ now \in Nat
  BY <1>1, JobType, RegistryAssumption DEF ManifestRow, GeneratorRow, Permit, IInv, TypeOK
<1>3. LookedUp(w, "generators", generators[g], "carrier")
  BY DEF LookUpGenerator
<1>4. generators[g].state = "live" /\ (j.op = "transition" =>
          generators[g].status = "active" /\ generators[g].expires > now)
  BY DEF LookUpGenerator, QualifiedGenerator, Found
<1>5. ASSUME NEW i \in Job, i.table = j.table, i.op = j.op, i.item = j.item, i.step = "carrier",
             i.seen["generators"] = [version |-> generators[g].version, at |-> now]
      PROVE  Looked(generators, carriers, manifests, now, i)
  BY <1>1, <1>2, <1>4, <1>5 DEF Looked, LookedParties, Sighted, Qualified
<1> QED
  BY <1>1, <1>2, <1>3, <1>5, LookedUpStep DEF Tables

LEMMA LookUpCarrierStep ==
    ASSUME IInv, NEW w \in Workers, LookUpCarrier(w)
    PROVE  IInv'
<1> DEFINE j == work[w]
           c == j.item.carrier
<1>1. j \in Job /\ j # Idle /\ j.table = "manifests" /\ j.step = "carrier"
  BY DEF LookUpCarrier, Serving, IInv, TypeOK, Idle
<1>2. c \in CarrierCodes /\ carriers[c] \in CarrierRow /\ carriers[c].version \in Nat
      /\ now \in Nat
  BY <1>1, JobType, RegistryAssumption DEF ManifestRow, CarrierRow, Permit, IInv, TypeOK
<1>3. LookedUp(w, "carriers", carriers[c], "write")
  BY DEF LookUpCarrier
<1>4. carriers[c].state = "live" /\ (j.op = "transition" =>
          carriers[c].status = "verified" /\ carriers[c].expires > now)
  BY DEF LookUpCarrier, QualifiedCarrier, Found
<1>5. LookedParties(generators, carriers, now, j)
  BY <1>1 DEF IInv, Prepared, Looked
<1>6. ASSUME NEW i \in Job, i.table = j.table, i.op = j.op, i.item = j.item, i.step = "write",
             i.seen["carriers"] = [version |-> carriers[c].version, at |-> now],
             i.seen["generators"] = j.seen["generators"]
      PROVE  Looked(generators, carriers, manifests, now, i)
  <2>1. LookedParties(generators, carriers, now, i)
    BY <1>1, <1>2, <1>4, <1>5, <1>6
       DEF LookedParties, LooksUpParties, Sighted, Qualified
  <2> QED
    BY <1>1, <1>6, <2>1 DEF Looked
<1> QED
  BY <1>1, <1>2, <1>3, <1>6, LookedUpStep DEF Tables

LEMMA LookUpManifestStep ==
    ASSUME IInv, NEW w \in Workers, LookUpManifest(w)
    PROVE  IInv'
<1> DEFINE j == work[w]
           m == j.item.manifest
<1>1. j \in Job /\ j # Idle /\ j.table = "checks"
  BY DEF LookUpManifest, Serving, IInv, TypeOK, Idle
<1>2. m \in ManifestCodes /\ manifests[m] \in ManifestRow /\ manifests[m].version \in Nat
      /\ now \in Nat
  BY <1>1, JobType, RegistryAssumption DEF CheckRow, ManifestRow, IInv, TypeOK
<1>3. LookedUp(w, "manifests", manifests[m], "write")
  BY DEF LookUpManifest
<1>4. manifests[m].state = "live" /\ (j.op = "transition" /\ j.item.status = "pass" =>
          manifests[m].status \in Passable)
  BY DEF LookUpManifest, Found
<1>5. ASSUME NEW i \in Job, i.table = j.table, i.op = j.op, i.item = j.item, i.step = "write",
             i.seen["manifests"] = [version |-> manifests[m].version, at |-> now]
      PROVE  Looked(generators, carriers, manifests, now, i)
  BY <1>1, <1>2, <1>4, <1>5 DEF Looked, LookedManifest, Sighted, Passed
<1> QED
  BY <1>1, <1>2, <1>3, <1>5, LookedUpStep DEF Tables

-----------------------------------------------------------------------------
(* Requests begin. *)

Ops == {"create", "update", "transition", "delete"}

LEMMA UnseenType == [t \in Tables |-> Unseen] \in [Tables -> Sighting]
BY DEF Unseen, Sighting

LEMMA BeginGenerator ==
    ASSUME IInv, NEW w \in Workers, NEW op \in Ops, NEW code \in GeneratorCodes,
           NEW item \in GeneratorRow, item.state = "live",
           Begin(w, "generators", op, code, item, "write")
    PROVE  IInv'
<1> DEFINE n == [table |-> "generators", op |-> op, code |-> code, item |-> item,
                 step |-> "write", seen |-> [t \in Tables |-> Unseen]]
<1>1. n \in Job
  BY UnseenType DEF Job, JobOf, Ops
<1>2. Based(manifests, checks, n) /\ Looked(generators, carriers, manifests, now, n)
  BY DEF Based, Looked
<1> QED
  BY <1>1, <1>2, BeginStep

LEMMA BeginCarrier ==
    ASSUME IInv, NEW w \in Workers, NEW op \in Ops, NEW code \in CarrierCodes,
           NEW item \in CarrierRow, item.state = "live",
           Begin(w, "carriers", op, code, item, "write")
    PROVE  IInv'
<1> DEFINE n == [table |-> "carriers", op |-> op, code |-> code, item |-> item,
                 step |-> "write", seen |-> [t \in Tables |-> Unseen]]
<1>1. n \in Job
  BY UnseenType DEF Job, JobOf, Ops
<1>2. Based(manifests, checks, n) /\ Looked(generators, carriers, manifests, now, n)
  BY DEF Based, Looked
<1> QED
  BY <1>1, <1>2, BeginStep

\* A request about a manifest begins before its parties are looked up, or needs none.
LEMMA BeginManifest ==
    ASSUME IInv, NEW w \in Workers, NEW op \in Ops, NEW code \in ManifestCodes,
           NEW item \in ManifestRow, NEW step \in {"generator", "write"},
           Begin(w, "manifests", op, code, item, step),
           \A j : j.op = op /\ j.code = code /\ j.item = item => BasedManifest(manifests, j),
           step = "write" => op \notin {"create", "update"}
                             /\ ~(op = "transition" /\ item.status \in Departure)
    PROVE  IInv'
<1> DEFINE n == [table |-> "manifests", op |-> op, code |-> code, item |-> item,
                 step |-> step, seen |-> [t \in Tables |-> Unseen]]
<1>1. n \in Job
  BY UnseenType DEF Job, JobOf, Ops
<1>2. Based(manifests, checks, n)
  BY DEF Based
<1>3. Looked(generators, carriers, manifests, now, n)
  BY DEF Looked, LookedParties, LooksUpParties
<1> QED
  BY <1>1, <1>2, <1>3, BeginStep

\* A request about a check begins before its manifest is looked up, or deletes the check.
LEMMA BeginCheck ==
    ASSUME IInv, NEW w \in Workers, NEW op \in Ops, NEW code \in CheckCodes,
           NEW item \in CheckRow, NEW step \in {"manifest", "write"},
           Begin(w, "checks", op, code, item, step),
           \A j : j.op = op /\ j.code = code /\ j.item = item => BasedCheck(checks, j),
           step = "write" => op = "delete"
    PROVE  IInv'
<1> DEFINE n == [table |-> "checks", op |-> op, code |-> code, item |-> item,
                 step |-> step, seen |-> [t \in Tables |-> Unseen]]
<1>1. n \in Job
  BY UnseenType DEF Job, JobOf, Ops
<1>2. Based(manifests, checks, n)
  BY DEF Based
<1>3. Looked(generators, carriers, manifests, now, n)
  BY DEF Looked, LookedManifest
<1> QED
  BY <1>1, <1>2, <1>3, BeginStep

-----------------------------------------------------------------------------
(* The handlers of the four services. *)

LEMMA GeneratorSteps ==
    ASSUME IInv, NEW w \in Workers, GeneratorStep(w)
    PROVE  IInv'
<1>1. ASSUME NEW g \in GeneratorCodes, NEW t \in ExpiryDates, CreateGenerator(w, g, t)
      PROVE  IInv'
  <2> DEFINE item == [state |-> "live", status |-> "active", version |-> 1, expires |-> t]
  <2>1. item \in GeneratorRow /\ item.state = "live"
    BY DEF GeneratorRow, Permit, RowState, WasteGeneratorTransitions
  <2>2. Begin(w, "generators", "create", g, item, "write")
    BY <1>1 DEF CreateGenerator
  <2> HIDE DEF item
  <2> QED
    BY <2>1, <2>2, BeginGenerator DEF Ops
<1>2. ASSUME NEW g \in GeneratorCodes, NEW t \in ExpiryDates, UpdateGenerator(w, g, t)
      PROVE  IInv'
  <2> DEFINE r == generators[g]
  <2>0. PICK item : item = [r EXCEPT !.expires = t, !.version = @ + 1]
    OBVIOUS
  <2>1. r \in GeneratorRow /\ r.state = "live"
    BY <1>2 DEF UpdateGenerator, Found, IInv, TypeOK
  <2>2. Begin(w, "generators", "update", g, item, "write")
    BY <1>2, <2>0 DEF UpdateGenerator
  <2> HIDE DEF r
  <2>3. item = [state |-> r.state, status |-> r.status, version |-> r.version + 1, expires |-> t]
    BY <2>0, <2>1 DEF GeneratorRow, Permit
  <2>4. item \in GeneratorRow /\ item.state = "live"
    BY <2>1, <2>3 DEF GeneratorRow, Permit
  <2> QED
    BY <2>2, <2>4, BeginGenerator DEF Ops
<1>3. ASSUME NEW g \in GeneratorCodes, NEW s \in DOMAIN WasteGeneratorTransitions,
             TransitionGenerator(w, g, s)
      PROVE  IInv'
  <2> DEFINE r == generators[g]
  <2>0. PICK item : item = [r EXCEPT !.status = s, !.version = @ + 1]
    OBVIOUS
  <2>1. r \in GeneratorRow /\ r.state = "live"
    BY <1>3 DEF TransitionGenerator, Found, IInv, TypeOK
  <2>2. Begin(w, "generators", "transition", g, item, "write")
    BY <1>3, <2>0 DEF TransitionGenerator
  <2> HIDE DEF r
  <2>3. item = [state |-> r.state, status |-> s, version |-> r.version + 1, expires |-> r.expires]
    BY <2>0, <2>1 DEF GeneratorRow, Permit
  <2>4. item \in GeneratorRow /\ item.state = "live"
    BY <2>1, <2>3 DEF GeneratorRow, Permit
  <2> QED
    BY <2>2, <2>4, BeginGenerator DEF Ops
<1>4. ASSUME NEW g \in GeneratorCodes, DeleteGenerator(w, g)
      PROVE  IInv'
  BY <1>4, BeginGenerator DEF DeleteGenerator, Found, IInv, TypeOK, Ops
<1> QED
  BY <1>1, <1>2, <1>3, <1>4, WriteGeneratorStep DEF GeneratorStep

LEMMA CarrierSteps ==
    ASSUME IInv, NEW w \in Workers, CarrierStep(w)
    PROVE  IInv'
<1>1. ASSUME NEW c \in CarrierCodes, NEW t \in ExpiryDates, CreateCarrier(w, c, t)
      PROVE  IInv'
  <2> DEFINE item == [state |-> "live", status |-> "pending", version |-> 1, expires |-> t]
  <2>1. item \in CarrierRow /\ item.state = "live"
    BY DEF CarrierRow, Permit, RowState, CarrierProfileTransitions
  <2>2. Begin(w, "carriers", "create", c, item, "write")
    BY <1>1 DEF CreateCarrier
  <2> HIDE DEF item
  <2> QED
    BY <2>1, <2>2, BeginCarrier DEF Ops
<1>2. ASSUME NEW c \in CarrierCodes, NEW t \in ExpiryDates, UpdateCarrier(w, c, t)
      PROVE  IInv'
  <2> DEFINE r == carriers[c]
  <2>0. PICK item : item = [r EXCEPT !.expires = t, !.version = @ + 1]
    OBVIOUS
  <2>1. r \in CarrierRow /\ r.state = "live"
    BY <1>2 DEF UpdateCarrier, Found, IInv, TypeOK
  <2>2. Begin(w, "carriers", "update", c, item, "write")
    BY <1>2, <2>0 DEF UpdateCarrier
  <2> HIDE DEF r
  <2>3. item = [state |-> r.state, status |-> r.status, version |-> r.version + 1, expires |-> t]
    BY <2>0, <2>1 DEF CarrierRow, Permit
  <2>4. item \in CarrierRow /\ item.state = "live"
    BY <2>1, <2>3 DEF CarrierRow, Permit
  <2> QED
    BY <2>2, <2>4, BeginCarrier DEF Ops
<1>3. ASSUME NEW c \in CarrierCodes, NEW s \in DOMAIN CarrierProfileTransitions,
             TransitionCarrier(w, c, s)
      PROVE  IInv'
  <2> DEFINE r == carriers[c]
  <2>0. PICK item : item = [r EXCEPT !.status = s, !.version = @ + 1]
    OBVIOUS
  <2>1. r \in CarrierRow /\ r.state = "live"
    BY <1>3 DEF TransitionCarrier, Found, IInv, TypeOK
  <2>2. Begin(w, "carriers", "transition", c, item, "write")
    BY <1>3, <2>0 DEF TransitionCarrier
  <2> HIDE DEF r
  <2>3. item = [state |-> r.state, status |-> s, version |-> r.version + 1, expires |-> r.expires]
    BY <2>0, <2>1 DEF CarrierRow, Permit
  <2>4. item \in CarrierRow /\ item.state = "live"
    BY <2>1, <2>3 DEF CarrierRow, Permit
  <2> QED
    BY <2>2, <2>4, BeginCarrier DEF Ops
<1>4. ASSUME NEW c \in CarrierCodes, DeleteCarrier(w, c)
      PROVE  IInv'
  BY <1>4, BeginCarrier DEF DeleteCarrier, Found, IInv, TypeOK, Ops
<1> QED
  BY <1>1, <1>2, <1>3, <1>4, WriteCarrierStep DEF CarrierStep

LEMMA ManifestSteps ==
    ASSUME IInv, NEW w \in Workers, ManifestStep(w)
    PROVE  IInv'
<1>1. ASSUME NEW m \in ManifestCodes, NEW g \in GeneratorCodes, NEW c \in CarrierCodes,
             CreateManifest(w, m, g, c)
      PROVE  IInv'
  <2> DEFINE item == [state |-> "live", status |-> "draft", version |-> 1,
                      generator |-> g, carrier |-> c]
  <2>1. item \in ManifestRow /\ item.state = "live" /\ item.status = "draft"
    BY DEF ManifestRow, RowState, TransferManifestTransitions
  <2>2. Begin(w, "manifests", "create", m, item, "generator")
    BY <1>1 DEF CreateManifest
  <2> HIDE DEF item
  <2>3. \A j : j.op = "create" /\ j.code = m /\ j.item = item => BasedManifest(manifests, j)
    BY <2>1 DEF BasedManifest
  <2> QED
    BY <2>1, <2>2, <2>3, BeginManifest DEF Ops
<1>2. ASSUME NEW m \in ManifestCodes, NEW g \in GeneratorCodes, NEW c \in CarrierCodes,
             UpdateManifest(w, m, g, c)
      PROVE  IInv'
  <2> DEFINE r == manifests[m]
  <2>0. PICK item : item = [r EXCEPT !.generator = g, !.carrier = c, !.version = @ + 1]
    OBVIOUS
  <2>1. r \in ManifestRow /\ r.state = "live" /\ r.status = "draft"
    BY <1>2 DEF UpdateManifest, Found, IInv, TypeOK
  <2>2. Begin(w, "manifests", "update", m, item, "generator")
    BY <1>2, <2>0 DEF UpdateManifest
  <2>3. item \in ManifestRow /\ item.state = "live" /\ item.status = "draft"
        /\ item.version = r.version + 1
    <3> HIDE DEF r
    <3>1. item = [state |-> r.state, status |-> r.status, version |-> r.version + 1,
                 generator |-> g, carrier |-> c]
      BY <2>0, <2>1 DEF ManifestRow
    <3> QED
      BY <2>1, <3>1 DEF ManifestRow
  <2>4. \A j : j.op = "update" /\ j.code = m /\ j.item = item => BasedManifest(manifests, j)
    BY <2>1, <2>3 DEF BasedManifest, Exists, ManifestRow
  <2> QED
    BY <2>2, <2>3, <2>4, BeginManifest DEF Ops
<1>3. ASSUME NEW m \in ManifestCodes, NEW s \in DOMAIN TransferManifestTransitions,
             TransitionManifest(w, m, s)
      PROVE  IInv'
  <2> DEFINE r == manifests[m]
             step == IF s \in Departure THEN "generator" ELSE "write"
  <2>0. PICK item : item = [r EXCEPT !.status = s, !.version = @ + 1]
    OBVIOUS
  <2>1. /\ r \in ManifestRow /\ r.state = "live"
        /\ CanTransition(TransferManifestTransitions, r.status, s)
    BY <1>3 DEF TransitionManifest, Found, IInv, TypeOK
  <2>2. Begin(w, "manifests", "transition", m, item, step)
    BY <1>3, <2>0 DEF TransitionManifest
  <2>3. s # "draft"
    BY <2>1 DEF CanTransition, TransferManifestTransitions
  <2>4. item \in ManifestRow /\ item.state = "live" /\ item.status = s
        /\ item.version = r.version + 1
        /\ item.generator = r.generator /\ item.carrier = r.carrier
    <3> HIDE DEF r
    <3>1. item = [state |-> r.state, status |-> s, version |-> r.version + 1,
                 generator |-> r.generator, carrier |-> r.carrier]
      BY <2>0, <2>1 DEF ManifestRow
    <3> QED
      BY <2>1, <3>1 DEF ManifestRow
  <2>5. \A j : j.op = "transition" /\ j.code = m /\ j.item = item => BasedManifest(manifests, j)
    BY <2>1, <2>3, <2>4 DEF BasedManifest, Exists, ManifestRow
  <2>6. step \in {"generator", "write"} /\ (step = "write" => item.status \notin Departure)
    BY <2>4
  <2> HIDE DEF step
  <2> QED
    BY <2>2, <2>4, <2>5, <2>6, BeginManifest DEF Ops
<1>4. ASSUME NEW m \in ManifestCodes, DeleteManifest(w, m)
      PROVE  IInv'
  <2>1. manifests[m] \in ManifestRow /\ manifests[m].state = "live"
        /\ Begin(w, "manifests", "delete", m, manifests[m], "write")
    BY <1>4 DEF DeleteManifest, DeletableManifest, Found, IInv, TypeOK
  <2>2. \A j : j.op = "delete" /\ j.code = m /\ j.item = manifests[m]
               => BasedManifest(manifests, j)
    BY <2>1 DEF BasedManifest
  <2> QED
    BY <2>1, <2>2, BeginManifest DEF Ops
<1> QED
  BY <1>1, <1>2, <1>3, <1>4, LookUpGeneratorStep, LookUpCarrierStep, WriteManifestStep
     DEF ManifestStep

LEMMA CheckSteps ==
    ASSUME IInv, NEW w \in Workers, CheckStep(w)
    PROVE  IInv'
<1>1. ASSUME NEW k \in CheckCodes, NEW m \in ManifestCodes, CreateCheck(w, k, m)
      PROVE  IInv'
  <2> DEFINE item == [state |-> "live", status |-> "pending", version |-> 1, manifest |-> m]
  <2>1. item \in CheckRow /\ item.state = "live" /\ item.status = "pending"
    BY DEF CheckRow, RowState, ComplianceCheckTransitions
  <2>2. Begin(w, "checks", "create", k, item, "manifest")
    BY <1>1 DEF CreateCheck
  <2> HIDE DEF item
  <2>3. \A j : j.op = "create" /\ j.code = k /\ j.item = item => BasedCheck(checks, j)
    BY <2>1 DEF BasedCheck
  <2> QED
    BY <2>1, <2>2, <2>3, BeginCheck DEF Ops
<1>2. ASSUME NEW k \in CheckCodes, NEW m \in ManifestCodes, UpdateCheck(w, k, m)
      PROVE  IInv'
  <2> DEFINE r == checks[k]
  <2>0. PICK item : item = [r EXCEPT !.manifest = m, !.version = @ + 1]
    OBVIOUS
  <2>1. r \in CheckRow /\ r.state = "live" /\ r.status = "pending"
    BY <1>2 DEF UpdateCheck, Found, IInv, TypeOK
  <2>2. Begin(w, "checks", "update", k, item, "manifest")
    BY <1>2, <2>0 DEF UpdateCheck
  <2>3. item \in CheckRow /\ item.state = "live" /\ item.status = "pending"
        /\ item.version = r.version + 1
    <3> HIDE DEF r
    <3>1. item = [state |-> r.state, status |-> r.status, version |-> r.version + 1, manifest |-> m]
      BY <2>0, <2>1 DEF CheckRow
    <3> QED
      BY <2>1, <3>1 DEF CheckRow
  <2>4. \A j : j.op = "update" /\ j.code = k /\ j.item = item => BasedCheck(checks, j)
    BY <2>1, <2>3 DEF BasedCheck, Exists, CheckRow
  <2> QED
    BY <2>2, <2>3, <2>4, BeginCheck DEF Ops
<1>3. ASSUME NEW k \in CheckCodes, NEW s \in DOMAIN ComplianceCheckTransitions,
             TransitionCheck(w, k, s)
      PROVE  IInv'
  <2> DEFINE r == checks[k]
  <2>0. PICK item : item = [r EXCEPT !.status = s, !.version = @ + 1]
    OBVIOUS
  <2>1. r \in CheckRow /\ r.state = "live"
    BY <1>3 DEF TransitionCheck, Found, IInv, TypeOK
  <2>2. Begin(w, "checks", "transition", k, item, "manifest")
    BY <1>3, <2>0 DEF TransitionCheck
  <2>3. item \in CheckRow /\ item.state = "live" /\ item.manifest = r.manifest
        /\ item.version = r.version + 1
    <3> HIDE DEF r
    <3>1. item = [state |-> r.state, status |-> s, version |-> r.version + 1,
                  manifest |-> r.manifest]
      BY <2>0, <2>1 DEF CheckRow
    <3> QED
      BY <2>1, <3>1 DEF CheckRow
  <2>4. \A j : j.op = "transition" /\ j.code = k /\ j.item = item => BasedCheck(checks, j)
    BY <2>1, <2>3 DEF BasedCheck, Exists, CheckRow
  <2> QED
    BY <2>2, <2>3, <2>4, BeginCheck DEF Ops
<1>4. ASSUME NEW k \in CheckCodes, DeleteCheck(w, k)
      PROVE  IInv'
  <2>1. checks[k] \in CheckRow /\ checks[k].state = "live"
        /\ Begin(w, "checks", "delete", k, checks[k], "write")
    BY <1>4 DEF DeleteCheck, Found, IInv, TypeOK
  <2>2. \A j : j.op = "delete" /\ j.code = k /\ j.item = checks[k] => BasedCheck(checks, j)
    BY <2>1 DEF BasedCheck
  <2> QED
    BY <2>1, <2>2, BeginCheck DEF Ops
<1> QED
  BY <1>1, <1>2, <1>3, <1>4, LookUpManifestStep, WriteCheckStep DEF CheckStep

-----------------------------------------------------------------------------
(* The invariant, and what follows from it. *)

LEMMA IInvInit == Init /\ LinksWereCreated /\ PassedLeftDraft => IInv
BY SeedTypes DEF Init, IInv, TypeOK, Prepared

LEMMA IInvNext == IInv /\ [Next]_registry => IInv'
<1> SUFFICES ASSUME IInv, [Next]_registry PROVE IInv'
  OBVIOUS
<1>1. CASE UNCHANGED registry
  BY <1>1 DEF registry, IInv, TypeOK, LinksWereCreated, PassedLeftDraft, Prepared, Exists, Found
<1>2. ASSUME NEW w \in Workers, GeneratorStep(w) PROVE IInv'
  BY <1>2, GeneratorSteps
<1>3. ASSUME NEW w \in Workers, CarrierStep(w) PROVE IInv'
  BY <1>3, CarrierSteps
<1>4. ASSUME NEW w \in Workers, ManifestStep(w) PROVE IInv'
  BY <1>4, ManifestSteps
<1>5. ASSUME NEW w \in Workers, CheckStep(w) PROVE IInv'
  BY <1>5, CheckSteps
<1>6. ASSUME NEW w \in Workers, Abandon(w) PROVE IInv'
  BY <1>6, AbandonStep
<1>7. CASE Tick
  BY <1>7, TickStep
<1> QED
  BY <1>1, <1>2, <1>3, <1>4, <1>5, <1>6, <1>7 DEF Next

\* The invariant holds whenever the tables start without dangling links and without passed
\* checks of drafts, as the seeded tables of database.go do.
THEOREM Invariance == Spec /\ LinksWereCreated /\ PassedLeftDraft => []IInv
BY IInvInit, IInvNext, PTL DEF Spec

\* Every table holds rows of its type, every job what its handler prepared.
THEOREM TypeCorrect == Spec /\ LinksWereCreated /\ PassedLeftDraft => []TypeOK
<1>1. IInv => TypeOK
  BY DEF IInv
<1> QED
  BY <1>1, Invariance, PTL

\* No link dangles into nothing, however the handlers that check links interleave with those
\* that delete and relink.
THEOREM LinksStayCreated == Spec /\ LinksWereCreated /\ PassedLeftDraft => []LinksWereCreated
<1>1. IInv => LinksWereCreated
  BY DEF IInv
<1> QED
  BY <1>1, Invariance, PTL

\* A passed check is about a submitted manifest, although the manifest is read outside the
\* transaction that writes the check.
THEOREM PassesStaySubmitted == Spec /\ LinksWereCreated /\ PassedLeftDraft => []PassedLeftDraft
<1>1. IInv => PassedLeftDraft
  BY DEF IInv
<1> QED
  BY <1>1, Invariance, PTL

\* The parties of a departure were looked up and qualified, or were overtaken since.
THEOREM DeparturesAreQualified ==
    Spec /\ LinksWereCreated /\ PassedLeftDraft => []QualifiedUnlessOvertaken
<1>1. IInv => QualifiedUnlessOvertaken
  <2> SUFFICES ASSUME IInv, NEW w \in Workers, Departing(w)
               PROVE  LET g == manifests[work[w].code].generator
                          c == manifests[work[w].code].carrier
                      IN /\ QualifiedGenerator(g)
                            \/ Overtaken(generators[g], work[w].seen["generators"])
                         /\ QualifiedCarrier(c)
                            \/ Overtaken(carriers[c], work[w].seen["carriers"])
    BY DEF QualifiedUnlessOvertaken
  <2> DEFINE j == work[w]
  <2>1. /\ j \in Job /\ j # Idle /\ j.table = "manifests" /\ j.step = "write"
        /\ j.op = "transition" /\ j.item.status \in Departure
        /\ manifests[j.code].version + 1 = j.item.version
    BY DEF Departing, Serving, Writable, VersionMatches, IInv, TypeOK, Idle
  <2>2. BasedManifest(manifests, j) /\ LookedParties(generators, carriers, now, j)
    BY <2>1 DEF IInv, Prepared, Based, Looked
  <2>3. j.item.generator = manifests[j.code].generator /\ j.item.carrier = manifests[j.code].carrier
    BY <2>1, <2>2 DEF BasedManifest
  <2>4. /\ Qualified(generators[j.item.generator], "active", j.seen["generators"], now)
        /\ Qualified(carriers[j.item.carrier], "verified", j.seen["carriers"], now)
    BY <2>1, <2>2 DEF LookedParties, LooksUpParties
  <2> QED
    BY <2>3, <2>4 DEF Qualified, QualifiedGenerator, QualifiedCarrier, Overtaken, Found
<1> QED
  BY <1>1, Invariance, PTL

\* The manifest of a pass was looked up and passable, or was rejected since.
THEOREM PassesArePassable ==
    Spec /\ LinksWereCreated /\ PassedLeftDraft => []PassableUnlessRejected
<1>1. IInv => PassableUnlessRejected
  <2> SUFFICES ASSUME IInv, NEW w \in Workers, Passing(w)
               PROVE  LET manifest == manifests[checks[work[w].code].manifest]
                      IN \/ manifest.status \in Passable
                         \/ /\ manifest.status = "rejected"
                            /\ manifest.version > work[w].seen["manifests"].version
    BY DEF PassableUnlessRejected
  <2> DEFINE j == work[w]
  <2>1. /\ j \in Job /\ j # Idle /\ j.table = "checks" /\ j.step = "write"
        /\ j.op = "transition" /\ j.item.status = "pass"
        /\ checks[j.code].version + 1 = j.item.version
    BY DEF Passing, Serving, Writable, VersionMatches, IInv, TypeOK, Idle
  <2>2. BasedCheck(checks, j) /\ LookedManifest(manifests, now, j)
    BY <2>1 DEF IInv, Prepared, Based, Looked
  <2>3. j.item.manifest = checks[j.code].manifest
    BY <2>1, <2>2 DEF BasedCheck
  <2>4. Passed(manifests[j.item.manifest], j.seen["manifests"])
    BY <2>1, <2>2 DEF LookedManifest
  <2> QED
    BY <2>3, <2>4 DEF Passed
<1> QED
  BY <1>1, Invariance, PTL

-----------------------------------------------------------------------------
(***************************************************************************)
(* The handlers implement Transfers.  A job was computed from a row as it  *)
(* was read; if its version still matches, that is the row which it        *)
(* replaces.                                                               *)
(***************************************************************************)

\* In every table the version stands for the row, up to its deletion.
RowGrows(r, s) ==
    r.state # "absent" =>
        /\ s.state # "absent"
        /\ s = r \/ s = [r EXCEPT !.state = "deleted"] \/ s.version = r.version + 1

Created(j, initial) ==
    j.op = "create" => j.item.state = "live" /\ j.item.status = initial /\ j.item.version = 1

\* The version that the job expects has been there, and what it expects to find is true of it.
Expects(r, j, found) ==
    j.op \in {"update", "transition"} =>
        /\ r.state # "absent" /\ j.item.state = "live"
        /\ j.item.version <= r.version + 1
        /\ j.item.version = r.version + 1 => found

PermitAsRead(r, j, initial, graph) ==
    /\ Created(j, initial)
    /\ Expects(r, j,
           \/ j.op = "update" /\ j.item.status = r.status
           \/ /\ j.op = "transition" /\ j.item.status \in graph[r.status]
              /\ j.item.expires = r.expires)

ManifestAsRead(r, j) ==
    /\ Created(j, "draft")
    /\ Expects(r, j,
           \/ j.op = "update" /\ r.status = "draft" /\ j.item.status = "draft"
           \/ /\ j.op = "transition" /\ j.item.status \in TransferManifestTransitions[r.status]
              /\ j.item.generator = r.generator /\ j.item.carrier = r.carrier)

CheckAsRead(r, j) ==
    /\ Created(j, "pending")
    /\ Expects(r, j,
           \/ j.op = "update" /\ r.status = "pending" /\ j.item.status = "pending"
           \/ /\ j.op = "transition" /\ j.item.status \in ComplianceCheckTransitions[r.status]
              /\ j.item.manifest = r.manifest)

AsRead(gs, cs, ms, ks, j) ==
    /\ j.table = "generators" => PermitAsRead(gs[j.code], j, "active", WasteGeneratorTransitions)
    /\ j.table = "carriers" => PermitAsRead(cs[j.code], j, "pending", CarrierProfileTransitions)
    /\ j.table = "manifests" => ManifestAsRead(ms[j.code], j)
    /\ j.table = "checks" => CheckAsRead(ks[j.code], j)

Recalled ==
    \A w \in Workers : work[w] # Idle => AsRead(generators, carriers, manifests, checks, work[w])

HInv == IInv /\ Recalled

LEMMA PermitAsReadStays ==
    ASSUME NEW statuses, NEW r \in Permit(statuses), NEW s \in Permit(statuses), RowGrows(r, s),
           NEW j, j.item.version \in Nat, NEW initial, NEW graph, PermitAsRead(r, j, initial, graph)
    PROVE  PermitAsRead(s, j, initial, graph)
BY DEF RowGrows, PermitAsRead, Created, Expects, Permit

LEMMA ManifestAsReadStays ==
    ASSUME NEW r \in ManifestRow, NEW s \in ManifestRow, RowGrows(r, s),
           NEW j, j.item.version \in Nat, ManifestAsRead(r, j)
    PROVE  ManifestAsRead(s, j)
BY DEF RowGrows, ManifestAsRead, Created, Expects, ManifestRow

LEMMA CheckAsReadStays ==
    ASSUME NEW r \in CheckRow, NEW s \in CheckRow, RowGrows(r, s),
           NEW j, j.item.version \in Nat, CheckAsRead(r, j)
    PROVE  CheckAsRead(s, j)
BY DEF RowGrows, CheckAsRead, Created, Expects, CheckRow

TablesGrow ==
    /\ \A g \in GeneratorCodes : RowGrows(generators[g], generators'[g])
    /\ \A c \in CarrierCodes : RowGrows(carriers[c], carriers'[c])
    /\ \A m \in ManifestCodes : RowGrows(manifests[m], manifests'[m])
    /\ \A k \in CheckCodes : RowGrows(checks[k], checks'[k])

LEMMA AsReadStays ==
    ASSUME TypeOK, TypeOK', TablesGrow, NEW j \in Job,
           AsRead(generators, carriers, manifests, checks, j)
    PROVE  AsRead(generators', carriers', manifests', checks', j)
<1>1. CASE j.table = "generators"
  <2>1. j.code \in GeneratorCodes /\ j.item.version \in Nat
    BY <1>1, JobType DEF GeneratorRow, Permit
  <2>2. /\ generators[j.code] \in Permit(DOMAIN WasteGeneratorTransitions)
        /\ generators'[j.code] \in Permit(DOMAIN WasteGeneratorTransitions)
        /\ RowGrows(generators[j.code], generators'[j.code])
    BY <2>1 DEF TypeOK, GeneratorRow, TablesGrow
  <2>3. PermitAsRead(generators[j.code], j, "active", WasteGeneratorTransitions)
    BY <1>1 DEF AsRead
  <2>4. PermitAsRead(generators'[j.code], j, "active", WasteGeneratorTransitions)
    BY <2>1, <2>2, <2>3, PermitAsReadStays
  <2> QED  BY <1>1, <2>4 DEF AsRead
<1>2. CASE j.table = "carriers"
  <2>1. j.code \in CarrierCodes /\ j.item.version \in Nat
    BY <1>2, JobType DEF CarrierRow, Permit
  <2>2. /\ carriers[j.code] \in Permit(DOMAIN CarrierProfileTransitions)
        /\ carriers'[j.code] \in Permit(DOMAIN CarrierProfileTransitions)
        /\ RowGrows(carriers[j.code], carriers'[j.code])
    BY <2>1 DEF TypeOK, CarrierRow, TablesGrow
  <2>3. PermitAsRead(carriers[j.code], j, "pending", CarrierProfileTransitions)
    BY <1>2 DEF AsRead
  <2>4. PermitAsRead(carriers'[j.code], j, "pending", CarrierProfileTransitions)
    BY <2>1, <2>2, <2>3, PermitAsReadStays
  <2> QED  BY <1>2, <2>4 DEF AsRead
<1>3. CASE j.table = "manifests"
  <2>1. j.code \in ManifestCodes /\ j.item.version \in Nat
    BY <1>3, JobType DEF ManifestRow
  <2>2. ManifestAsRead(manifests'[j.code], j)
    BY <1>3, <2>1, ManifestAsReadStays DEF AsRead, TypeOK, TablesGrow
  <2> QED  BY <1>3, <2>2 DEF AsRead
<1>4. CASE j.table = "checks"
  <2>1. j.code \in CheckCodes /\ j.item.version \in Nat
    BY <1>4, JobType DEF CheckRow
  <2>2. CheckAsRead(checks'[j.code], j)
    BY <1>4, <2>1, CheckAsReadStays DEF AsRead, TypeOK, TablesGrow
  <2> QED  BY <1>4, <2>2 DEF AsRead
<1> QED  BY <1>1, <1>2, <1>3, <1>4, JobType DEF Tables

\* A job about to be taken up.
Computed(n) ==
    /\ AsRead(generators, carriers, manifests, checks, n)
    /\ Departs(n) => n.step = "generator"

Started(w) ==
    /\ \E n : Computed(n) /\ work' = [work EXCEPT ![w] = n]
    /\ UNCHANGED <<generators, carriers, manifests, checks, now>>

LEMMA Starting ==
    ASSUME NEW w \in Workers, NEW tableName, NEW op, NEW code, NEW item, NEW step,
           \A n : /\ n.table = tableName /\ n.op = op /\ n.code = code /\ n.item = item
                  /\ n.step = step
                  => Computed(n),
           Begin(w, tableName, op, code, item, step)
    PROVE  Started(w)
BY DEF Begin, Started

LEMMA GeneratorStarts ==
    ASSUME TypeOK, NEW w \in Workers, GeneratorStep(w)
    PROVE  Started(w) \/ WriteGenerator(w)
<1> USE DEF Computed, AsRead, PermitAsRead, Created, Expects, Departs
<1>1. ASSUME NEW g \in GeneratorCodes, NEW t \in ExpiryDates, CreateGenerator(w, g, t)
      PROVE  Started(w)
  <2> DEFINE item == [state |-> "live", status |-> "active", version |-> 1, expires |-> t]
  <2>1. Begin(w, "generators", "create", g, item, "write")
    BY <1>1 DEF CreateGenerator
  <2>2. item.state = "live" /\ item.status = "active" /\ item.version = 1
    OBVIOUS
  <2> HIDE DEF item
  <2> QED  BY <2>1, <2>2, Starting
<1>2. ASSUME NEW g \in GeneratorCodes, NEW t \in ExpiryDates, UpdateGenerator(w, g, t)
      PROVE  Started(w)
  <2> DEFINE item == [generators[g] EXCEPT !.expires = t, !.version = @ + 1]
  <2>1. Begin(w, "generators", "update", g, item, "write")
    BY <1>2 DEF UpdateGenerator
  <2>2. generators[g] \in GeneratorRow /\ generators[g].state = "live"
    BY <1>2 DEF UpdateGenerator, Found, TypeOK
  <2>3. /\ item.state = "live" /\ item.status = generators[g].status
        /\ item.version = generators[g].version + 1 /\ generators[g].version \in Nat
    BY <2>2 DEF GeneratorRow, Permit
  <2> HIDE DEF item
  <2> QED  BY <2>1, <2>2, <2>3, Starting
<1>3. ASSUME NEW g \in GeneratorCodes, NEW s \in DOMAIN WasteGeneratorTransitions,
             TransitionGenerator(w, g, s)
      PROVE  Started(w)
  <2> DEFINE item == [generators[g] EXCEPT !.status = s, !.version = @ + 1]
  <2>1. Begin(w, "generators", "transition", g, item, "write")
    BY <1>3 DEF TransitionGenerator
  <2>2. /\ generators[g] \in GeneratorRow /\ generators[g].state = "live"
        /\ s \in WasteGeneratorTransitions[generators[g].status]
    BY <1>3 DEF TransitionGenerator, Found, TypeOK, CanTransition
  <2>3. /\ item.state = "live" /\ item.status = s /\ item.expires = generators[g].expires
        /\ item.version = generators[g].version + 1 /\ generators[g].version \in Nat
    BY <2>2 DEF GeneratorRow, Permit
  <2> HIDE DEF item
  <2> QED  BY <2>1, <2>2, <2>3, Starting
<1>4. ASSUME NEW g \in GeneratorCodes, DeleteGenerator(w, g)
      PROVE  Started(w)
  BY <1>4, Starting DEF DeleteGenerator
<1> QED  BY <1>1, <1>2, <1>3, <1>4 DEF GeneratorStep

LEMMA CarrierStarts ==
    ASSUME TypeOK, NEW w \in Workers, CarrierStep(w)
    PROVE  Started(w) \/ WriteCarrier(w)
<1> USE DEF Computed, AsRead, PermitAsRead, Created, Expects, Departs
<1>1. ASSUME NEW c \in CarrierCodes, NEW t \in ExpiryDates, CreateCarrier(w, c, t)
      PROVE  Started(w)
  <2> DEFINE item == [state |-> "live", status |-> "pending", version |-> 1, expires |-> t]
  <2>1. Begin(w, "carriers", "create", c, item, "write")
    BY <1>1 DEF CreateCarrier
  <2>2. item.state = "live" /\ item.status = "pending" /\ item.version = 1
    OBVIOUS
  <2> HIDE DEF item
  <2> QED  BY <2>1, <2>2, Starting
<1>2. ASSUME NEW c \in CarrierCodes, NEW t \in ExpiryDates, UpdateCarrier(w, c, t)
      PROVE  Started(w)
  <2> DEFINE item == [carriers[c] EXCEPT !.expires = t, !.version = @ + 1]
  <2>1. Begin(w, "carriers", "update", c, item, "write")
    BY <1>2 DEF UpdateCarrier
  <2>2. carriers[c] \in CarrierRow /\ carriers[c].state = "live"
    BY <1>2 DEF UpdateCarrier, Found, TypeOK
  <2>3. /\ item.state = "live" /\ item.status = carriers[c].status
        /\ item.version = carriers[c].version + 1 /\ carriers[c].version \in Nat
    BY <2>2 DEF CarrierRow, Permit
  <2> HIDE DEF item
  <2> QED  BY <2>1, <2>2, <2>3, Starting
<1>3. ASSUME NEW c \in CarrierCodes, NEW s \in DOMAIN CarrierProfileTransitions,
             TransitionCarrier(w, c, s)
      PROVE  Started(w)
  <2> DEFINE item == [carriers[c] EXCEPT !.status = s, !.version = @ + 1]
  <2>1. Begin(w, "carriers", "transition", c, item, "write")
    BY <1>3 DEF TransitionCarrier
  <2>2. /\ carriers[c] \in CarrierRow /\ carriers[c].state = "live"
        /\ s \in CarrierProfileTransitions[carriers[c].status]
    BY <1>3 DEF TransitionCarrier, Found, TypeOK, CanTransition
  <2>3. /\ item.state = "live" /\ item.status = s /\ item.expires = carriers[c].expires
        /\ item.version = carriers[c].version + 1 /\ carriers[c].version \in Nat
    BY <2>2 DEF CarrierRow, Permit
  <2> HIDE DEF item
  <2> QED  BY <2>1, <2>2, <2>3, Starting
<1>4. ASSUME NEW c \in CarrierCodes, DeleteCarrier(w, c)
      PROVE  Started(w)
  BY <1>4, Starting DEF DeleteCarrier
<1> QED  BY <1>1, <1>2, <1>3, <1>4 DEF CarrierStep

LEMMA ManifestStarts ==
    ASSUME TypeOK, NEW w \in Workers, ManifestStep(w)
    PROVE  Started(w) \/ LookUpGenerator(w) \/ LookUpCarrier(w) \/ WriteManifest(w)
<1> USE DEF Computed, AsRead, ManifestAsRead, Created, Expects, Departs
<1>1. ASSUME NEW m \in ManifestCodes, NEW g \in GeneratorCodes, NEW c \in CarrierCodes,
             CreateManifest(w, m, g, c)
      PROVE  Started(w)
  <2> DEFINE item == [state |-> "live", status |-> "draft", version |-> 1, generator |-> g,
                      carrier |-> c]
  <2>1. Begin(w, "manifests", "create", m, item, "generator")
    BY <1>1 DEF CreateManifest
  <2>2. item.state = "live" /\ item.status = "draft" /\ item.version = 1
    OBVIOUS
  <2> HIDE DEF item
  <2> QED  BY <2>1, <2>2, Starting
<1>2. ASSUME NEW m \in ManifestCodes, NEW g \in GeneratorCodes, NEW c \in CarrierCodes,
             UpdateManifest(w, m, g, c)
      PROVE  Started(w)
  <2> DEFINE item == [manifests[m] EXCEPT !.generator = g, !.carrier = c, !.version = @ + 1]
  <2>1. Begin(w, "manifests", "update", m, item, "generator")
    BY <1>2 DEF UpdateManifest
  <2>2. /\ manifests[m] \in ManifestRow /\ manifests[m].state = "live"
        /\ manifests[m].status = "draft"
    BY <1>2 DEF UpdateManifest, Found, TypeOK
  <2>3. /\ item.state = "live" /\ item.status = "draft"
        /\ item.version = manifests[m].version + 1 /\ manifests[m].version \in Nat
    BY <2>2 DEF ManifestRow
  <2> HIDE DEF item
  <2> QED  BY <2>1, <2>2, <2>3, Starting
<1>3. ASSUME NEW m \in ManifestCodes, NEW s \in DOMAIN TransferManifestTransitions,
             TransitionManifest(w, m, s)
      PROVE  Started(w)
  <2> DEFINE item == [manifests[m] EXCEPT !.status = s, !.version = @ + 1]
             step == IF s \in Departure THEN "generator" ELSE "write"
  <2>1. Begin(w, "manifests", "transition", m, item, step)
    BY <1>3 DEF TransitionManifest
  <2>2. /\ manifests[m] \in ManifestRow /\ manifests[m].state = "live"
        /\ s \in TransferManifestTransitions[manifests[m].status]
    BY <1>3 DEF TransitionManifest, Found, TypeOK, CanTransition
  <2>3. /\ item.state = "live" /\ item.status = s
        /\ item.generator = manifests[m].generator /\ item.carrier = manifests[m].carrier
        /\ item.version = manifests[m].version + 1 /\ manifests[m].version \in Nat
    BY <2>2 DEF ManifestRow
  <2>4. s \in Departure => step = "generator"
    OBVIOUS
  <2> HIDE DEF item, step
  <2> QED  BY <2>1, <2>2, <2>3, <2>4, Starting
<1>4. ASSUME NEW m \in ManifestCodes, DeleteManifest(w, m)
      PROVE  Started(w)
  BY <1>4, Starting DEF DeleteManifest
<1> QED  BY <1>1, <1>2, <1>3, <1>4 DEF ManifestStep

LEMMA CheckStarts ==
    ASSUME TypeOK, NEW w \in Workers, CheckStep(w)
    PROVE  Started(w) \/ LookUpManifest(w) \/ WriteCheck(w)
<1> USE DEF Computed, AsRead, CheckAsRead, Created, Expects, Departs
<1>1. ASSUME NEW k \in CheckCodes, NEW m \in ManifestCodes, CreateCheck(w, k, m)
      PROVE  Started(w)
  <2> DEFINE item == [state |-> "live", status |-> "pending", version |-> 1, manifest |-> m]
  <2>1. Begin(w, "checks", "create", k, item, "manifest")
    BY <1>1 DEF CreateCheck
  <2>2. item.state = "live" /\ item.status = "pending" /\ item.version = 1
    OBVIOUS
  <2> HIDE DEF item
  <2> QED  BY <2>1, <2>2, Starting
<1>2. ASSUME NEW k \in CheckCodes, NEW m \in ManifestCodes, UpdateCheck(w, k, m)
      PROVE  Started(w)
  <2> DEFINE item == [checks[k] EXCEPT !.manifest = m, !.version = @ + 1]
  <2>1. Begin(w, "checks", "update", k, item, "manifest")
    BY <1>2 DEF UpdateCheck
  <2>2. checks[k] \in CheckRow /\ checks[k].state = "live" /\ checks[k].status = "pending"
    BY <1>2 DEF UpdateCheck, Found, TypeOK
  <2>3. /\ item.state = "live" /\ item.status = "pending"
        /\ item.version = checks[k].version + 1 /\ checks[k].version \in Nat
    BY <2>2 DEF CheckRow
  <2> HIDE DEF item
  <2> QED  BY <2>1, <2>2, <2>3, Starting
<1>3. ASSUME NEW k \in CheckCodes, NEW s \in DOMAIN ComplianceCheckTransitions,
             TransitionCheck(w, k, s)
      PROVE  Started(w)
  <2> DEFINE item == [checks[k] EXCEPT !.status = s, !.version = @ + 1]
  <2>1. Begin(w, "checks", "transition", k, item, "manifest")
    BY <1>3 DEF TransitionCheck
  <2>2. /\ checks[k] \in CheckRow /\ checks[k].state = "live"
        /\ s \in ComplianceCheckTransitions[checks[k].status]
    BY <1>3 DEF TransitionCheck, Found, TypeOK, CanTransition
  <2>3. /\ item.state = "live" /\ item.status = s /\ item.manifest = checks[k].manifest
        /\ item.version = checks[k].version + 1 /\ checks[k].version \in Nat
    BY <2>2 DEF CheckRow
  <2> HIDE DEF item
  <2> QED  BY <2>1, <2>2, <2>3, Starting
<1>4. ASSUME NEW k \in CheckCodes, DeleteCheck(w, k)
      PROVE  Started(w)
  BY <1>4, Starting DEF DeleteCheck
<1> QED  BY <1>1, <1>2, <1>3, <1>4 DEF CheckStep

-----------------------------------------------------------------------------
(* The transactions write as Transfers does. *)

\* What Transfers lets become of a row that is a permit.
PermitWrite(r, s, initial, graph) ==
    \/ r.state = "absent" /\ s = [state |-> "live", status |-> initial, version |-> 1,
                                  expires |-> s.expires]
    \/ /\ r.state = "live"
       /\ \/ s = Abstract!Renewed(r, s.expires)
          \/ s.status \in graph[r.status] /\ s = Abstract!Moved(r, s.status)
          \/ s = Abstract!Deleted(r)

LEMMA PermitWritten ==
    ASSUME NEW statuses, NEW r \in Permit(statuses), NEW j, j.item \in Permit(statuses),
           NEW initial, NEW graph, PermitAsRead(r, j, initial, graph),
           NEW s, Revised(r, j, s)
    PROVE  s.expires \in ExpiryDates /\ RowGrows(r, s) /\ PermitWrite(r, s, initial, graph)
<1>1. CASE j.op = "create" /\ r.state = "absent" /\ s = j.item
  BY <1>1 DEF PermitAsRead, Created, Permit, RowGrows, PermitWrite
<1>2. CASE /\ j.op \in {"update", "transition"} /\ r.state = "live"
           /\ r.version + 1 = j.item.version /\ s = j.item
  <2>1. s.expires \in ExpiryDates /\ RowGrows(r, s)
    BY <1>2 DEF Permit, RowGrows, PermitAsRead, Expects
  <2>2. CASE j.op = "update" /\ s.status = r.status
    <3>1. s = Abstract!Renewed(r, s.expires)
      BY <1>2, <2>2 DEF PermitAsRead, Expects, Permit, Abstract!Renewed
    <3> QED  BY <1>2, <2>1, <3>1 DEF PermitWrite
  <2>3. CASE j.op = "transition" /\ s.status \in graph[r.status] /\ s.expires = r.expires
    <3>1. s = Abstract!Moved(r, s.status)
      BY <1>2, <2>3 DEF PermitAsRead, Expects, Permit, Abstract!Moved
    <3> QED  BY <1>2, <2>1, <2>3, <3>1 DEF PermitWrite
  <2> QED  BY <1>2, <2>2, <2>3 DEF PermitAsRead, Expects
<1>3. CASE r.state = "live" /\ s = Abstract!Deleted(r)
  BY <1>3 DEF Abstract!Deleted, Permit, RowGrows, PermitWrite
<1> QED  BY <1>1, <1>2, <1>3 DEF Revised, Abstract!Deleted

LEMMA TablesStay ==
    ASSUME UNCHANGED <<generators, carriers, manifests, checks>>
    PROVE  TablesGrow
BY DEF TablesGrow, RowGrows

LEMMA AbstractGeneratorWrite ==
    ASSUME NEW g \in GeneratorCodes, NEW s, s.expires \in ExpiryDates,
           PermitWrite(generators[g], s, "active", WasteGeneratorTransitions),
           generators' = [generators EXCEPT ![g] = s]
    PROVE  Abstract!WriteGenerator(g)
<1> DEFINE r == generators[g]
<1> USE DEF Abstract!WriteGenerator
<1>1. CASE r.state = "absent" /\ s = [state |-> "live", status |-> "active", version |-> 1,
                                     expires |-> s.expires]
  BY <1>1
<1>2. CASE r.state = "live" /\ s = Abstract!Renewed(r, s.expires)
  <2>1. PICK t \in ExpiryDates : t = s.expires
    OBVIOUS
  <2>2. generators' = [generators EXCEPT ![g] = Abstract!Renewed(@, t)]
    BY <1>2, <2>1
  <2> QED  BY <1>2, <2>2
<1>3. CASE /\ r.state = "live" /\ s.status \in WasteGeneratorTransitions[r.status]
           /\ s = Abstract!Moved(r, s.status)
  <2>1. Abstract!WasteGeneratorTransitions = WasteGeneratorTransitions
    BY DEF WasteGeneratorTransitions, Abstract!WasteGeneratorTransitions
  <2>2. PICK q \in WasteGeneratorTransitions[r.status] : q = s.status
    BY <1>3
  <2>3. generators' = [generators EXCEPT ![g] = Abstract!Moved(@, q)]
    BY <1>3, <2>2
  <2> QED  BY <1>3, <2>1, <2>3
<1>4. CASE r.state = "live" /\ s = Abstract!Deleted(r)
  BY <1>4
<1> QED  BY <1>1, <1>2, <1>3, <1>4 DEF PermitWrite

LEMMA GeneratorWrites ==
    ASSUME HInv, NEW w \in Workers, WriteGenerator(w)
    PROVE  TablesGrow /\ \E g \in GeneratorCodes : Abstract!WriteGenerator(g)
<1> DEFINE j == work[w]
           r == generators[j.code]
<1>1. j \in Job /\ j # Idle /\ j.table = "generators" /\ Writable(generators, j)
  BY DEF WriteGenerator, Serving, HInv, IInv, TypeOK, Idle
<1>2. /\ j.code \in GeneratorCodes /\ j.item \in Permit(DOMAIN WasteGeneratorTransitions)
      /\ generators \in [GeneratorCodes -> Permit(DOMAIN WasteGeneratorTransitions)]
      /\ r \in Permit(DOMAIN WasteGeneratorTransitions)
  BY <1>1, JobType DEF GeneratorRow, HInv, IInv, TypeOK
<1>3. PermitAsRead(r, j, "active", WasteGeneratorTransitions)
  BY <1>1 DEF HInv, Recalled, AsRead
<1>4. PICK s : generators' = [generators EXCEPT ![j.code] = s] /\ Revised(r, j, s)
  BY <1>1, WriteEffect DEF WriteGenerator
<1>5. /\ s.expires \in ExpiryDates /\ RowGrows(r, s)
      /\ PermitWrite(r, s, "active", WasteGeneratorTransitions)
  BY <1>2, <1>3, <1>4, PermitWritten
<1>6. TablesGrow
  BY <1>2, <1>4, <1>5 DEF WriteGenerator, TablesGrow, RowGrows
<1>7. Abstract!WriteGenerator(j.code)
  BY <1>2, <1>4, <1>5, AbstractGeneratorWrite
<1> QED  BY <1>2, <1>6, <1>7

LEMMA AbstractCarrierWrite ==
    ASSUME NEW c \in CarrierCodes, NEW s, s.expires \in ExpiryDates,
           PermitWrite(carriers[c], s, "pending", CarrierProfileTransitions),
           carriers' = [carriers EXCEPT ![c] = s]
    PROVE  Abstract!WriteCarrier(c)
<1> DEFINE r == carriers[c]
<1> USE DEF Abstract!WriteCarrier
<1>1. CASE r.state = "absent" /\ s = [state |-> "live", status |-> "pending", version |-> 1,
                                     expires |-> s.expires]
  BY <1>1
<1>2. CASE r.state = "live" /\ s = Abstract!Renewed(r, s.expires)
  <2>1. PICK t \in ExpiryDates : t = s.expires
    OBVIOUS
  <2>2. carriers' = [carriers EXCEPT ![c] = Abstract!Renewed(@, t)]
    BY <1>2, <2>1
  <2> QED  BY <1>2, <2>2
<1>3. CASE /\ r.state = "live" /\ s.status \in CarrierProfileTransitions[r.status]
           /\ s = Abstract!Moved(r, s.status)
  <2>1. Abstract!CarrierProfileTransitions = CarrierProfileTransitions
    BY DEF CarrierProfileTransitions, Abstract!CarrierProfileTransitions
  <2>2. PICK q \in CarrierProfileTransitions[r.status] : q = s.status
    BY <1>3
  <2>3. carriers' = [carriers EXCEPT ![c] = Abstract!Moved(@, q)]
    BY <1>3, <2>2
  <2> QED  BY <1>3, <2>1, <2>3
<1>4. CASE r.state = "live" /\ s = Abstract!Deleted(r)
  BY <1>4
<1> QED  BY <1>1, <1>2, <1>3, <1>4 DEF PermitWrite

LEMMA CarrierWrites ==
    ASSUME HInv, NEW w \in Workers, WriteCarrier(w)
    PROVE  TablesGrow /\ \E c \in CarrierCodes : Abstract!WriteCarrier(c)
<1> DEFINE j == work[w]
           r == carriers[j.code]
<1>1. j \in Job /\ j # Idle /\ j.table = "carriers" /\ Writable(carriers, j)
  BY DEF WriteCarrier, Serving, HInv, IInv, TypeOK, Idle
<1>2. /\ j.code \in CarrierCodes /\ j.item \in Permit(DOMAIN CarrierProfileTransitions)
      /\ carriers \in [CarrierCodes -> Permit(DOMAIN CarrierProfileTransitions)]
      /\ r \in Permit(DOMAIN CarrierProfileTransitions)
  BY <1>1, JobType DEF CarrierRow, HInv, IInv, TypeOK
<1>3. PermitAsRead(r, j, "pending", CarrierProfileTransitions)
  BY <1>1 DEF HInv, Recalled, AsRead
<1>4. PICK s : carriers' = [carriers EXCEPT ![j.code] = s] /\ Revised(r, j, s)
  BY <1>1, WriteEffect DEF WriteCarrier
<1>5. /\ s.expires \in ExpiryDates /\ RowGrows(r, s)
      /\ PermitWrite(r, s, "pending", CarrierProfileTransitions)
  BY <1>2, <1>3, <1>4, PermitWritten
<1>6. TablesGrow
  BY <1>2, <1>4, <1>5 DEF WriteCarrier, TablesGrow, RowGrows
<1>7. Abstract!WriteCarrier(j.code)
  BY <1>2, <1>4, <1>5, AbstractCarrierWrite
<1> QED  BY <1>2, <1>6, <1>7

\* What Transfers lets become of the row of a manifest.
ManifestWrite(r, s) ==
    \/ r.state = "absent" /\ s = [state |-> "live", status |-> "draft", version |-> 1,
                                  generator |-> s.generator, carrier |-> s.carrier]
    \/ /\ r.state = "live"
       /\ \/ r.status = "draft" /\ s = Abstract!Reassigned(r, s.generator, s.carrier)
          \/ /\ s.status \in TransferManifestTransitions[r.status]
             /\ s.status \in Departure => r.generator \in permitted /\ r.carrier \in licensed
             /\ s = Abstract!Moved(r, s.status)
          \/ s = Abstract!Deleted(r)

LEMMA ManifestWritten ==
    ASSUME NEW r \in ManifestRow, NEW j, j.item \in ManifestRow,
           j.table = "manifests", j.step = "write", ManifestAsRead(r, j),
           Departs(j) => j.item.generator \in permitted /\ j.item.carrier \in licensed,
           NEW s, Revised(r, j, s)
    PROVE  RowGrows(r, s) /\ ManifestWrite(r, s)
<1>1. CASE j.op = "create" /\ r.state = "absent" /\ s = j.item
  BY <1>1 DEF ManifestAsRead, Created, ManifestRow, RowGrows, ManifestWrite
<1>2. CASE /\ j.op \in {"update", "transition"} /\ r.state = "live"
           /\ r.version + 1 = j.item.version /\ s = j.item
  <2>1. RowGrows(r, s)
    BY <1>2 DEF ManifestRow, RowGrows, ManifestAsRead, Expects
  <2>2. CASE j.op = "update" /\ r.status = "draft" /\ s.status = "draft"
    <3>1. s = Abstract!Reassigned(r, s.generator, s.carrier)
      BY <1>2, <2>2 DEF ManifestAsRead, Expects, ManifestRow, Abstract!Reassigned
    <3> QED  BY <1>2, <2>1, <2>2, <3>1 DEF ManifestWrite
  <2>3. CASE /\ j.op = "transition" /\ s.status \in TransferManifestTransitions[r.status]
             /\ s.generator = r.generator /\ s.carrier = r.carrier
    <3>1. s = Abstract!Moved(r, s.status)
      BY <1>2, <2>3 DEF ManifestAsRead, Expects, ManifestRow, Abstract!Moved
    <3>2. s.status \in Departure => r.generator \in permitted /\ r.carrier \in licensed
      BY <1>2, <2>3 DEF Departs
    <3> QED  BY <1>2, <2>1, <2>3, <3>1, <3>2 DEF ManifestWrite
  <2> QED  BY <1>2, <2>2, <2>3 DEF ManifestAsRead, Expects
<1>3. CASE r.state = "live" /\ s = Abstract!Deleted(r)
  BY <1>3 DEF Abstract!Deleted, ManifestRow, RowGrows, ManifestWrite
<1> QED  BY <1>1, <1>2, <1>3 DEF Revised, Abstract!Deleted

LEMMA AbstractManifestWrite ==
    ASSUME NEW m \in ManifestCodes, NEW s, ManifestWrite(manifests[m], s),
           s.generator \in Abstract!Known(generators), s.carrier \in Abstract!Known(carriers),
           manifests' = [manifests EXCEPT ![m] = s]
    PROVE  Abstract!WriteManifest(m)
<1> DEFINE r == manifests[m]
<1> USE DEF Abstract!WriteManifest
<1>0. PICK g \in Abstract!Known(generators), c \in Abstract!Known(carriers) :
          g = s.generator /\ c = s.carrier
  OBVIOUS
<1>1. CASE r.state = "absent" /\ s = [state |-> "live", status |-> "draft", version |-> 1,
                                     generator |-> s.generator, carrier |-> s.carrier]
  <2>1. manifests' = [manifests EXCEPT ![m] = [state |-> "live", status |-> "draft",
                                          version |-> 1, generator |-> g, carrier |-> c]]
    BY <1>0, <1>1
  <2> QED  BY <1>1, <2>1
<1>2. CASE /\ r.state = "live" /\ r.status = "draft"
           /\ s = Abstract!Reassigned(r, s.generator, s.carrier)
  <2>1. manifests' = [manifests EXCEPT ![m] = Abstract!Reassigned(@, g, c)]
    BY <1>0, <1>2
  <2> QED  BY <1>2, <2>1
<1>3. CASE /\ r.state = "live" /\ s.status \in TransferManifestTransitions[r.status]
           /\ s.status \in Departure => r.generator \in permitted /\ r.carrier \in licensed
           /\ s = Abstract!Moved(r, s.status)
  <2>1. Abstract!TransferManifestTransitions = TransferManifestTransitions
    BY DEF TransferManifestTransitions, Abstract!TransferManifestTransitions
  <2>2. PICK q \in TransferManifestTransitions[r.status] : q = s.status
    BY <1>3
  <2>3. manifests' = [manifests EXCEPT ![m] = Abstract!Moved(@, q)]
    BY <1>3, <2>2
  <2>4. q \in {"submitted", "in_transit"} => r.generator \in permitted /\ r.carrier \in licensed
    BY <1>3, <2>2 DEF Departure
  <2> QED  BY <1>3, <2>1, <2>3, <2>4
<1>4. CASE r.state = "live" /\ s = Abstract!Deleted(r)
  BY <1>4
<1> QED  BY <1>1, <1>2, <1>3, <1>4 DEF ManifestWrite

LEMMA ManifestWrites ==
    ASSUME HInv, IInv', NEW w \in Workers, WriteManifest(w)
    PROVE  TablesGrow /\ \E m \in ManifestCodes : Abstract!WriteManifest(m)
<1> DEFINE j == work[w]
           r == manifests[j.code]
<1>1. /\ j \in Job /\ j # Idle /\ j.table = "manifests" /\ j.step = "write"
      /\ Writable(manifests, j)
  BY DEF WriteManifest, Serving, HInv, IInv, TypeOK, Idle
<1>2. /\ j.code \in ManifestCodes /\ j.item \in ManifestRow
      /\ manifests \in [ManifestCodes -> ManifestRow] /\ r \in ManifestRow
  BY <1>1, JobType DEF HInv, IInv, TypeOK
<1>3. /\ ManifestAsRead(r, j)
      /\ Departs(j) => j.item.generator \in permitted /\ j.item.carrier \in licensed
  BY <1>1 DEF HInv, Recalled, AsRead, permitted, licensed, DepartingAt
<1>4. PICK s : manifests' = [manifests EXCEPT ![j.code] = s] /\ Revised(r, j, s)
  BY <1>1, WriteEffect DEF WriteManifest
<1>5. RowGrows(r, s) /\ ManifestWrite(r, s)
  BY <1>1, <1>2, <1>3, <1>4, ManifestWritten
<1>6. TablesGrow
  BY <1>2, <1>4, <1>5 DEF WriteManifest, TablesGrow, RowGrows
<1>7. s.generator \in Abstract!Known(generators) /\ s.carrier \in Abstract!Known(carriers)
  <2>1. s = manifests'[j.code] /\ s \in ManifestRow
    BY <1>2, <1>4 DEF IInv, TypeOK
  <2>2. r.state # "absent" \/ s.state = "live"
    BY <1>5 DEF ManifestWrite
  <2>3. s.state # "absent"
    BY <1>5, <2>2 DEF RowGrows
  <2>4. /\ generators[s.generator].state # "absent" /\ carriers[s.carrier].state # "absent"
    BY <1>2, <2>1, <2>3 DEF IInv, LinksWereCreated, Exists, WriteManifest
  <2> QED  BY <2>1, <2>4 DEF Abstract!Known, HInv, IInv, TypeOK, ManifestRow
<1>8. Abstract!WriteManifest(j.code)
  BY <1>2, <1>4, <1>5, <1>7, AbstractManifestWrite
<1> QED  BY <1>2, <1>6, <1>8

\* What Transfers lets become of the row of a check.
CheckWrite(r, s) ==
    \/ r.state = "absent" /\ s = [state |-> "live", status |-> "pending", version |-> 1,
                                  manifest |-> s.manifest]
    \/ /\ r.state = "live"
       /\ \/ r.status = "pending" /\ s = Abstract!Redirected(r, s.manifest)
          \/ /\ s.status \in ComplianceCheckTransitions[r.status]
             /\ s = Abstract!Moved(r, s.status)
          \/ s = Abstract!Deleted(r)

LEMMA CheckWritten ==
    ASSUME NEW r \in CheckRow, NEW j, j.item \in CheckRow, CheckAsRead(r, j),
           NEW s, Revised(r, j, s)
    PROVE  RowGrows(r, s) /\ CheckWrite(r, s)
<1>1. CASE j.op = "create" /\ r.state = "absent" /\ s = j.item
  BY <1>1 DEF CheckAsRead, Created, CheckRow, RowGrows, CheckWrite
<1>2. CASE /\ j.op \in {"update", "transition"} /\ r.state = "live"
           /\ r.version + 1 = j.item.version /\ s = j.item
  <2>1. RowGrows(r, s)
    BY <1>2 DEF CheckRow, RowGrows, CheckAsRead, Expects
  <2>2. CASE j.op = "update" /\ r.status = "pending" /\ s.status = "pending"
    <3>1. s = Abstract!Redirected(r, s.manifest)
      BY <1>2, <2>2 DEF CheckAsRead, Expects, CheckRow, Abstract!Redirected
    <3> QED  BY <1>2, <2>1, <2>2, <3>1 DEF CheckWrite
  <2>3. CASE /\ j.op = "transition" /\ s.status \in ComplianceCheckTransitions[r.status]
             /\ s.manifest = r.manifest
    <3>1. s = Abstract!Moved(r, s.status)
      BY <1>2, <2>3 DEF CheckAsRead, Expects, CheckRow, Abstract!Moved
    <3> QED  BY <1>2, <2>1, <2>3, <3>1 DEF CheckWrite
  <2> QED  BY <1>2, <2>2, <2>3 DEF CheckAsRead, Expects
<1>3. CASE r.state = "live" /\ s = Abstract!Deleted(r)
  BY <1>3 DEF Abstract!Deleted, CheckRow, RowGrows, CheckWrite
<1> QED  BY <1>1, <1>2, <1>3 DEF Revised, Abstract!Deleted

LEMMA AbstractCheckWrite ==
    ASSUME NEW k \in CheckCodes, NEW s, CheckWrite(checks[k], s),
           s.manifest \in Abstract!Known(manifests),
           checks[k].state = "live" /\ s = Abstract!Moved(checks[k], "pass")
               => manifests[checks[k].manifest].status # "draft",
           checks' = [checks EXCEPT ![k] = s]
    PROVE  Abstract!WriteCheck(k)
<1> DEFINE r == checks[k]
<1> USE DEF Abstract!WriteCheck
<1>0. PICK m \in Abstract!Known(manifests) : m = s.manifest
  OBVIOUS
<1>1. CASE r.state = "absent" /\ s = [state |-> "live", status |-> "pending", version |-> 1,
                                     manifest |-> s.manifest]
  <2>1. checks' = [checks EXCEPT ![k] = [state |-> "live", status |-> "pending", version |-> 1,
                                         manifest |-> m]]
    BY <1>0, <1>1
  <2> QED  BY <1>1, <2>1
<1>2. CASE r.state = "live" /\ r.status = "pending" /\ s = Abstract!Redirected(r, s.manifest)
  <2>1. checks' = [checks EXCEPT ![k] = Abstract!Redirected(@, m)]
    BY <1>0, <1>2
  <2> QED  BY <1>2, <2>1
<1>3. CASE /\ r.state = "live" /\ s.status \in ComplianceCheckTransitions[r.status]
           /\ s = Abstract!Moved(r, s.status)
  <2>1. Abstract!ComplianceCheckTransitions = ComplianceCheckTransitions
    BY DEF ComplianceCheckTransitions, Abstract!ComplianceCheckTransitions
  <2>2. PICK q \in ComplianceCheckTransitions[r.status] : q = s.status
    BY <1>3
  <2>3. checks' = [checks EXCEPT ![k] = Abstract!Moved(@, q)]
    BY <1>3, <2>2
  <2>4. q = "pass" => manifests[r.manifest].status # "draft"
    BY <1>3, <2>2
  <2> QED  BY <1>3, <2>1, <2>3, <2>4
<1>4. CASE r.state = "live" /\ s = Abstract!Deleted(r)
  BY <1>4
<1> QED  BY <1>1, <1>2, <1>3, <1>4 DEF CheckWrite

LEMMA CheckWrites ==
    ASSUME HInv, IInv', NEW w \in Workers, WriteCheck(w)
    PROVE  TablesGrow /\ \E k \in CheckCodes : Abstract!WriteCheck(k)
<1> DEFINE j == work[w]
           r == checks[j.code]
<1>1. j \in Job /\ j # Idle /\ j.table = "checks" /\ Writable(checks, j)
  BY DEF WriteCheck, Serving, HInv, IInv, TypeOK, Idle
<1>2. /\ j.code \in CheckCodes /\ j.item \in CheckRow
      /\ checks \in [CheckCodes -> CheckRow] /\ r \in CheckRow
  BY <1>1, JobType DEF HInv, IInv, TypeOK
<1>3. CheckAsRead(r, j)
  BY <1>1 DEF HInv, Recalled, AsRead
<1>4. PICK s : checks' = [checks EXCEPT ![j.code] = s] /\ Revised(r, j, s)
  BY <1>1, WriteEffect DEF WriteCheck
<1>5. RowGrows(r, s) /\ CheckWrite(r, s)
  BY <1>2, <1>3, <1>4, CheckWritten
<1>6. TablesGrow
  BY <1>2, <1>4, <1>5 DEF WriteCheck, TablesGrow, RowGrows
<1>7. s = checks'[j.code] /\ s \in CheckRow
  BY <1>2, <1>4 DEF IInv, TypeOK
<1>8. s.manifest \in Abstract!Known(manifests)
  <2>1. r.state # "absent" \/ s.state = "live"
    BY <1>5 DEF CheckWrite
  <2>2. s.state # "absent"
    BY <1>5, <2>1 DEF RowGrows
  <2>3. manifests[s.manifest].state # "absent"
    BY <1>2, <1>7, <2>2 DEF IInv, LinksWereCreated, Exists, WriteCheck
  <2> QED  BY <1>7, <2>3 DEF Abstract!Known, HInv, IInv, TypeOK, CheckRow
<1>9. r.state = "live" /\ s = Abstract!Moved(r, "pass") => manifests[r.manifest].status # "draft"
  <2> SUFFICES ASSUME r.state = "live", s = Abstract!Moved(r, "pass")
               PROVE  manifests[r.manifest].status # "draft"
    OBVIOUS
  <2>1. s.state = "live" /\ s.status = "pass" /\ s.manifest = r.manifest
    BY <1>2 DEF Abstract!Moved, CheckRow
  <2> QED  BY <1>2, <1>7, <2>1 DEF IInv, PassedLeftDraft, Found, WriteCheck
<1>10. Abstract!WriteCheck(j.code)
  BY <1>2, <1>4, <1>5, <1>8, <1>9, AbstractCheckWrite
<1> QED  BY <1>2, <1>6, <1>10

-----------------------------------------------------------------------------
(* The stronger invariant, and what Transfers knows of the parties. *)

\* The parties a job has looked up for a departure are known.
Cleared(j, gs, cs) ==
    Departs(j) =>
        /\ j.step \in {"carrier", "write"} => j.item.generator \in gs
        /\ j.step = "write" => j.item.carrier \in cs

Knowable(j) ==
    Cleared(j, permitted \cup Abstract!Permitted(generators', now'),
               licensed \cup Abstract!Licensed(carriers', now'))

LEMMA InOrder ==
    /\ {g \in GeneratorCodes : QualifiedGenerator(g)} = Abstract!Permitted(generators, now)
    /\ {c \in CarrierCodes : QualifiedCarrier(c)} = Abstract!Licensed(carriers, now)
BY DEF QualifiedGenerator, QualifiedCarrier, Found, Abstract!Permitted, Abstract!Licensed,
   Abstract!Valid

LEMMA InOrderThen ==
    /\ {g \in GeneratorCodes : QualifiedGenerator(g)}' = Abstract!Permitted(generators', now')
    /\ {c \in CarrierCodes : QualifiedCarrier(c)}' = Abstract!Licensed(carriers', now')
BY DEF QualifiedGenerator, QualifiedCarrier, Found, Abstract!Permitted, Abstract!Licensed,
   Abstract!Valid

LEMMA Remembering ==
    ASSUME \A v \in Workers : work'[v] = work[v] \/ work'[v] = Idle \/ Knowable(work'[v])
    PROVE  Abstract!Remember
<1>1. ASSUME NEW v \in Workers
      PROVE  Knowable(work'[v])
  <2>1. Cleared(work[v], permitted, licensed)
    BY DEF Cleared, permitted, licensed, DepartingAt
  <2>2. Knowable(work[v])
    BY <2>1 DEF Cleared, Knowable
  <2>3. Knowable(Idle)
    BY DEF Knowable, Cleared, Departs, Idle
  <2> QED  BY <2>2, <2>3
<1>2. permitted' \subseteq permitted \cup Abstract!Permitted(generators', now')
  <2> SUFFICES ASSUME NEW g, g \in permitted'
               PROVE  g \in permitted \cup Abstract!Permitted(generators', now')
    OBVIOUS
  <2>1. CASE g \in {h \in GeneratorCodes : QualifiedGenerator(h)}'
    BY <2>1, InOrderThen
  <2>2. CASE \E v \in Workers : /\ Departs(work'[v]) /\ work'[v].step \in {"carrier", "write"}
                               /\ g = work'[v].item.generator
    BY <1>1, <2>2 DEF Knowable, Cleared
  <2> QED  BY <2>1, <2>2 DEF permitted, DepartingAt, Departs
<1>3. licensed' \subseteq licensed \cup Abstract!Licensed(carriers', now')
  <2> SUFFICES ASSUME NEW c, c \in licensed'
               PROVE  c \in licensed \cup Abstract!Licensed(carriers', now')
    OBVIOUS
  <2>1. CASE c \in {d \in CarrierCodes : QualifiedCarrier(d)}'
    BY <2>1, InOrderThen
  <2>2. CASE \E v \in Workers : /\ Departs(work'[v]) /\ work'[v].step = "write"
                               /\ c = work'[v].item.carrier
    BY <1>1, <2>2 DEF Knowable, Cleared
  <2> QED  BY <2>1, <2>2 DEF licensed, DepartingAt, Departs
<1> QED  BY <1>2, <1>3 DEF Abstract!Remember

LEMMA RecalledStays ==
    ASSUME HInv, TypeOK', TablesGrow,
           \A v \in Workers :
               \/ work'[v] = work[v]
               \/ work'[v] = Idle
               \/ /\ AsRead(generators', carriers', manifests', checks', work'[v])
                  /\ Knowable(work'[v])
    PROVE  Recalled' /\ Abstract!Remember
<1>1. Abstract!Remember
  BY Remembering
<1>2. ASSUME NEW v \in Workers, work'[v] # Idle
      PROVE  AsRead(generators', carriers', manifests', checks', work'[v])
  <2>1. CASE work'[v] # work[v]
    BY <1>2, <2>1
  <2>2. CASE work'[v] = work[v]
    <3>1. /\ work[v] \in Job /\ TypeOK
          /\ AsRead(generators, carriers, manifests, checks, work[v])
      BY <1>2, <2>2 DEF HInv, IInv, TypeOK, Recalled
    <3>2. AsRead(generators', carriers', manifests', checks', work[v])
      BY <3>1, AsReadStays
    <3> QED  BY <2>2, <3>2
  <2> QED  BY <2>1, <2>2
<1>3. Recalled'
  BY <1>2 DEF Recalled
<1> QED  BY <1>1, <1>3

LEMMA Dropped ==
    ASSUME TypeOK, NEW w \in Workers, Finish(w)
    PROVE  \A v \in Workers : work'[v] = work[v] \/ work'[v] = Idle
BY DEF Finish, TypeOK

LEMMA StartRecalled ==
    ASSUME HInv, TypeOK', NEW w \in Workers, Started(w)
    PROVE  Recalled' /\ Abstract!Remember
<1>1. PICK n : Computed(n) /\ work' = [work EXCEPT ![w] = n]
  BY DEF Started
<1>2. UNCHANGED <<generators, carriers, manifests, checks>>
  BY DEF Started
<1>3. Knowable(n)
  BY <1>1 DEF Computed, Knowable, Cleared
<1>4. AsRead(generators', carriers', manifests', checks', n)
  BY <1>1, <1>2 DEF Computed
<1>5. \A v \in Workers : work'[v] = work[v] \/ work'[v] = n
  <2>1. work \in [Workers -> Job \cup {Idle}]
    BY DEF HInv, IInv, TypeOK
  <2> QED  BY <1>1, <2>1
<1> QED  BY <1>2, <1>3, <1>4, <1>5, TablesStay, RecalledStays

LEMMA LookUpRecalled ==
    ASSUME HInv, TypeOK', NEW w \in Workers, work[w] \in Job,
           NEW tableName \in Tables, NEW row, row.version \in Nat, NEW step, 
           step \in {"generator", "carrier", "manifest", "write"},
           LookedUp(w, tableName, row, step),
           \A i : i.table = work[w].table /\ i.op = work[w].op /\ i.item = work[w].item
                  /\ i.step = step => Knowable(i)
    PROVE  Recalled' /\ Abstract!Remember
<1> DEFINE j == work[w]
           sighting == [version |-> row.version, at |-> now]
           n == AfterLookUp(j, tableName, sighting, step)
<1>1. sighting \in Sighting
  BY RegistryAssumption DEF Sighting, HInv, IInv, TypeOK
<1>2. work' = [work EXCEPT ![w] = n] /\ UNCHANGED <<generators, carriers, manifests, checks>>
  BY DEF LookedUp, AfterLookUp
<1> HIDE DEF sighting, n
<1>3. n = AfterLookUp(j, tableName, sighting, step)
  BY DEF n
<1>4. n.table = j.table /\ n.op = j.op /\ n.code = j.code /\ n.item = j.item /\ n.step = step
  <2>1. j \in Job /\ n = AfterLookUp(j, tableName, sighting, step)
    BY <1>3
  <2> HIDE DEF j
  <2>2. /\ n \in Job
        /\ n.table = j.table /\ n.op = j.op /\ n.code = j.code /\ n.item = j.item
        /\ n.step = step
        /\ n.seen = [j.seen EXCEPT ![tableName] = sighting]
    BY <2>1, <1>1, LookUpEffect
  <2> QED  BY <2>2
<1>5. AsRead(generators, carriers, manifests, checks, j)
  BY JobType DEF HInv, Recalled
<1>6. AsRead(generators', carriers', manifests', checks', n)
  BY <1>2, <1>4, <1>5
     DEF AsRead, PermitAsRead, ManifestAsRead, CheckAsRead, Created, Expects
<1>7. Knowable(n)
  BY <1>4
<1>8. \A v \in Workers : work'[v] = work[v] \/ work'[v] = n
  <2>1. work \in [Workers -> Job \cup {Idle}]
    BY DEF HInv, IInv, TypeOK
  <2> QED  BY <1>2, <2>1
<1> QED  BY <1>2, <1>6, <1>7, <1>8, TablesStay, RecalledStays

LEMMA GeneratorLookedUp ==
    ASSUME HInv, TypeOK', NEW w \in Workers, LookUpGenerator(w)
    PROVE  Recalled' /\ Abstract!Remember
<1> DEFINE j == work[w]
           g == j.item.generator
<1>1. j \in Job /\ j.table = "manifests" /\ LookedUp(w, "generators", generators[g], "carrier")
  BY DEF LookUpGenerator, Serving, HInv, IInv, TypeOK, Idle
<1>2. g \in GeneratorCodes /\ generators[g].version \in Nat
  BY <1>1, JobType DEF ManifestRow, GeneratorRow, Permit, HInv, IInv, TypeOK
<1>3. j.op = "transition" => g \in Abstract!Permitted(generators', now')
  BY <1>1, <1>2, InOrder DEF LookUpGenerator, LookedUp
<1>4. \A i : i.op = j.op /\ i.item = j.item /\ i.step = "carrier"
             => Knowable(i)
  BY <1>3 DEF Knowable, Cleared, Departs
<1> HIDE DEF g, j
<1> QED  BY <1>1, <1>2, <1>4, LookUpRecalled DEF Tables, j, g

LEMMA CarrierLookedUp ==
    ASSUME HInv, TypeOK', NEW w \in Workers, LookUpCarrier(w)
    PROVE  Recalled' /\ Abstract!Remember
<1> DEFINE j == work[w]
           c == j.item.carrier
<1>1. /\ j \in Job /\ j # Idle /\ j.table = "manifests" /\ j.step = "carrier"
      /\ LookedUp(w, "carriers", carriers[c], "write")
  BY DEF LookUpCarrier, Serving, HInv, IInv, TypeOK, Idle
<1>2. c \in CarrierCodes /\ carriers[c].version \in Nat
  BY <1>1, JobType DEF ManifestRow, CarrierRow, Permit, HInv, IInv, TypeOK
<1>3. j.op = "transition" => c \in Abstract!Licensed(carriers', now')
  BY <1>1, <1>2, InOrder DEF LookUpCarrier, LookedUp
<1>4. Cleared(j, permitted, licensed)
  BY DEF Cleared, permitted, licensed, DepartingAt
<1>5. \A i : i.table = j.table /\ i.op = j.op /\ i.item = j.item /\ i.step = "write"
             => Knowable(i)
  BY <1>1, <1>3, <1>4 DEF Knowable, Cleared, Departs
<1> HIDE DEF c, j
<1> QED  BY <1>1, <1>2, <1>5, LookUpRecalled DEF Tables, j, c

LEMMA ManifestLookedUp ==
    ASSUME HInv, TypeOK', NEW w \in Workers, LookUpManifest(w)
    PROVE  Recalled' /\ Abstract!Remember
<1> DEFINE j == work[w]
           m == j.item.manifest
<1>1. j \in Job /\ j.table = "checks" /\ LookedUp(w, "manifests", manifests[m], "write")
  BY DEF LookUpManifest, Serving, HInv, IInv, TypeOK, Idle
<1>2. m \in ManifestCodes /\ manifests[m].version \in Nat
  BY <1>1, JobType DEF CheckRow, ManifestRow, HInv, IInv, TypeOK
<1>3. \A i : i.table = j.table => Knowable(i)
  BY <1>1 DEF Knowable, Cleared, Departs
<1> HIDE DEF m, j
<1> QED  BY <1>1, <1>2, <1>3, LookUpRecalled DEF Tables, j, m

-----------------------------------------------------------------------------
(* The refinement. *)

tables == <<generators, carriers, manifests, checks, now, permitted, licensed>>

LEMMA Unmoved ==
    ASSUME Abstract!Remember, UNCHANGED <<generators, carriers, manifests, checks, now>>
    PROVE  Abstract!Next
BY DEF Abstract!Next

LEMMA WorkerRefines ==
    ASSUME HInv, IInv', NEW w \in Workers,
           GeneratorStep(w) \/ CarrierStep(w) \/ ManifestStep(w) \/ CheckStep(w) \/ Abandon(w)
    PROVE  Recalled' /\ [Abstract!Next]_tables
<1>0. TypeOK /\ TypeOK'
  BY DEF HInv, IInv
<1>1. CASE Started(w)
  BY <1>0, <1>1, StartRecalled, Unmoved DEF Started
<1>2. CASE LookUpGenerator(w)
  BY <1>0, <1>2, GeneratorLookedUp, Unmoved DEF LookUpGenerator, LookedUp
<1>3. CASE LookUpCarrier(w)
  BY <1>0, <1>3, CarrierLookedUp, Unmoved DEF LookUpCarrier, LookedUp
<1>4. CASE LookUpManifest(w)
  BY <1>0, <1>4, ManifestLookedUp, Unmoved DEF LookUpManifest, LookedUp
<1>5. CASE Abandon(w)
  <2>1. Finish(w) /\ UNCHANGED <<generators, carriers, manifests, checks, now>>
    BY <1>5 DEF Abandon
  <2> QED  BY <1>0, <2>1, Dropped, TablesStay, RecalledStays, Unmoved
<1>6. CASE WriteGenerator(w)
  <2>1. TablesGrow /\ Finish(w) /\ \E g \in GeneratorCodes : Abstract!WriteGenerator(g)
    BY <1>6, GeneratorWrites DEF WriteGenerator
  <2>2. Recalled' /\ Abstract!Remember
    BY <1>0, <2>1, Dropped, RecalledStays
  <2>3. Abstract!Next
    BY <1>6, <2>1, <2>2 DEF WriteGenerator, Abstract!Next
  <2> QED  BY <2>2, <2>3
<1>7. CASE WriteCarrier(w)
  <2>1. TablesGrow /\ Finish(w) /\ \E c \in CarrierCodes : Abstract!WriteCarrier(c)
    BY <1>7, CarrierWrites DEF WriteCarrier
  <2>2. Recalled' /\ Abstract!Remember
    BY <1>0, <2>1, Dropped, RecalledStays
  <2>3. Abstract!Next
    BY <1>7, <2>1, <2>2 DEF WriteCarrier, Abstract!Next
  <2> QED  BY <2>2, <2>3
<1>8. CASE WriteManifest(w)
  <2>1. TablesGrow /\ Finish(w) /\ \E m \in ManifestCodes : Abstract!WriteManifest(m)
    BY <1>8, ManifestWrites DEF WriteManifest
  <2>2. Recalled' /\ Abstract!Remember
    BY <1>0, <2>1, Dropped, RecalledStays
  <2>3. Abstract!Next
    BY <1>8, <2>1, <2>2 DEF WriteManifest, Abstract!Next
  <2> QED  BY <2>2, <2>3
<1>9. CASE WriteCheck(w)
  <2>1. TablesGrow /\ Finish(w) /\ \E k \in CheckCodes : Abstract!WriteCheck(k)
    BY <1>9, CheckWrites DEF WriteCheck
  <2>2. Recalled' /\ Abstract!Remember
    BY <1>0, <2>1, Dropped, RecalledStays
  <2>3. Abstract!Next
    BY <1>9, <2>1, <2>2 DEF WriteCheck, Abstract!Next
  <2> QED  BY <2>2, <2>3
<1> QED
  BY <1>0, <1>1, <1>2, <1>3, <1>4, <1>5, <1>6, <1>7, <1>8, <1>9,
     GeneratorStarts, CarrierStarts, ManifestStarts, CheckStarts

LEMMA HInvInit == Init /\ LinksWereCreated /\ PassedLeftDraft => HInv
<1> SUFFICES ASSUME Init, LinksWereCreated, PassedLeftDraft PROVE HInv
  OBVIOUS
<1>1. IInv
  BY IInvInit
<1>2. Recalled
  BY DEF Init, Recalled
<1> QED  BY <1>1, <1>2 DEF HInv

LEMMA InitRefines == Init => Abstract!Init
<1> SUFFICES ASSUME Init PROVE Abstract!Init
  OBVIOUS
<1>1. DepartingAt({"carrier", "write"}) = {} /\ DepartingAt({"write"}) = {}
  BY DEF Init, DepartingAt, Departs, Idle
<1>2. /\ permitted = Abstract!Permitted(generators, now)
      /\ licensed = Abstract!Licensed(carriers, now)
  BY <1>1, InOrder DEF permitted, licensed
<1> QED  BY <1>2 DEF Init, Abstract!Init

LEMMA NextRefines == HInv /\ [Next]_registry => HInv' /\ [Abstract!Next]_tables
<1> SUFFICES ASSUME HInv, [Next]_registry PROVE HInv' /\ [Abstract!Next]_tables
  OBVIOUS
<1>0. IInv'
  BY IInvNext DEF HInv
<1>1. CASE UNCHANGED registry
  <2>1. UNCHANGED <<generators, carriers, manifests, checks, now, work>>
    BY <1>1 DEF registry
  <2>2. Recalled'
    BY <2>1 DEF HInv, Recalled
  <2>3. permitted' = permitted /\ licensed' = licensed
    BY <2>1 DEF permitted, licensed, DepartingAt, Departs, QualifiedGenerator, QualifiedCarrier,
       Found
  <2>4. UNCHANGED tables
    BY <2>1, <2>3 DEF tables
  <2> QED  BY <1>0, <2>2, <2>4 DEF HInv
<1>2. ASSUME NEW w \in Workers,
             GeneratorStep(w) \/ CarrierStep(w) \/ ManifestStep(w) \/ CheckStep(w) \/ Abandon(w)
      PROVE  Recalled' /\ [Abstract!Next]_tables
  BY <1>0, <1>2, WorkerRefines
<1>3. CASE Tick
  <2>1. UNCHANGED <<generators, carriers, manifests, checks, work>> /\ now' = now + 1
    BY <1>3 DEF Tick
  <2>2. Recalled' /\ Abstract!Remember
    BY <1>0, <2>1, TablesStay, RecalledStays DEF IInv
  <2>3. Abstract!Next
    BY <2>1, <2>2 DEF Abstract!Next
  <2> QED  BY <1>0, <2>2, <2>3 DEF HInv
<1> QED  BY <1>0, <1>1, <1>2, <1>3 DEF Next, HInv

\* Every write of every interleaving of the handlers of the four services is one that Transfers
\* allows, of the tables as they are when it is made, whatever its handler read before: a manifest
\* is edited as a draft and a check as pending, a status moves along its graph, links lead to
\* records that were created, a manifest leaves by parties that have been in order, and a check
\* passes about a manifest that has left draft.
THEOREM TransfersImplemented ==
    Spec /\ LinksWereCreated /\ PassedLeftDraft => ImplementsTransfers
BY HInvInit, InitRefines, NextRefines, PTL DEF Spec, ImplementsTransfers, Abstract!Spec, tables
=============================================================================
