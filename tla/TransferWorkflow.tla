--------------------------- MODULE TransferWorkflow ---------------------------
(***************************************************************************)
(* The four services on their shared tables, and what must hold between    *)
(* the tables: a manifest leaves only with qualified parties, a check      *)
(* passes only an active manifest.  The backend checks both before its     *)
(* transactions, on rows of other tables that it does not lock.            *)
(***************************************************************************)
EXTENDS WasteGenerators, CarrierProfiles, TransferManifests, ComplianceChecks

CONSTANTS
    SeedGenerators, SeedCarriers, SeedManifests, SeedChecks,  \* the tables at the start
    Start                                                     \* and the time

ASSUME SeedTypes ==
    /\ SeedGenerators \in [GeneratorCodes -> GeneratorRow]
    /\ SeedCarriers \in [CarrierCodes -> CarrierRow]
    /\ SeedManifests \in [ManifestCodes -> ManifestRow]
    /\ SeedChecks \in [CheckCodes -> CheckRow]
    /\ Start \in 0..Horizon

Init ==
    /\ generators = SeedGenerators
    /\ carriers = SeedCarriers
    /\ manifests = SeedManifests
    /\ checks = SeedChecks
    /\ now = Start
    /\ work = [w \in Workers |-> Idle]

Next ==
    \/ \E w \in Workers :
           GeneratorStep(w) \/ CarrierStep(w) \/ ManifestStep(w) \/ CheckStep(w) \/ Abandon(w)
    \/ Tick

Spec == Init /\ [][Next]_registry

-----------------------------------------------------------------------------
TypeOK ==
    /\ generators \in [GeneratorCodes -> GeneratorRow]
    /\ carriers \in [CarrierCodes -> CarrierRow]
    /\ manifests \in [ManifestCodes -> ManifestRow]
    /\ checks \in [CheckCodes -> CheckRow]
    /\ now \in 0..Horizon
    /\ work \in [Workers -> Job \cup {Idle}]

Exists(table, code) == table[code].state # "absent"

\* A link never dangles into nothing: the record it names exists or was soft-deleted.  The
\* services check links before the transaction and no foreign key backs them up.
LinksWereCreated ==
    /\ \A m \in ManifestCodes : Exists(manifests, m) =>
           Exists(generators, manifests[m].generator) /\ Exists(carriers, manifests[m].carrier)
    /\ \A k \in CheckCodes : Exists(checks, k) => Exists(manifests, checks[k].manifest)

\* A check that passed is about a manifest that has been submitted, although the manifest is
\* read before the check is written: manifests never return to draft, and the link of the
\* check cannot be edited in between.
PassedLeftDraft ==
    \A k \in CheckCodes :
        Found(checks, k) /\ checks[k].status = "pass" => manifests[checks[k].manifest].status # "draft"

\* A linked permit changed after a handler saw it: it was rewritten, deleted, or ran out.
Overtaken(permit, seen) ==
    \/ permit.state = "deleted"
    \/ permit.version > seen.version
    \/ seen.at < permit.expires /\ permit.expires <= now

\* A departure about to be written.
Departing(w) ==
    /\ Serving(w, "manifests", "write")
    /\ work[w].op = "transition" /\ work[w].item.status \in Departure
    /\ Writable(manifests, work[w])

\* Whenever a departure will be written, each party the manifest names then is qualified, or
\* was when it was looked up and has been overtaken since: the check can be outrun, but never
\* skipped or made about another party than the one that leaves.
QualifiedUnlessOvertaken ==
    \A w \in Workers : Departing(w) =>
        LET m == work[w].code
            g == manifests[m].generator
            c == manifests[m].carrier
        IN /\ QualifiedGenerator(g) \/ Overtaken(generators[g], work[w].seen["generators"])
           /\ QualifiedCarrier(c) \/ Overtaken(carriers[c], work[w].seen["carriers"])

\* A pass about to be written.
Passing(w) ==
    /\ Serving(w, "checks", "write")
    /\ work[w].op = "transition" /\ work[w].item.status = "pass"
    /\ Writable(checks, work[w])

\* Whenever a pass will be written, the manifest its check names then is active or received,
\* or has been rejected after it was looked up.
PassableUnlessRejected ==
    \A w \in Workers : Passing(w) =>
        LET manifest == manifests[checks[work[w].code].manifest]
        IN \/ manifest.status \in Passable
           \/ manifest.status = "rejected" /\ manifest.version > work[w].seen["manifests"].version

-----------------------------------------------------------------------------
(***************************************************************************)
(* The handlers implement steps on whole tables.  What Transfers knows of  *)
(* the parties is what they are now, and what the departures under way     *)
(* have found out about theirs.                                            *)
(***************************************************************************)

Departs(job) == job.table = "manifests" /\ job.op = "transition" /\ job.item.status \in Departure

\* Departures under way that have got to one of the steps.
DepartingAt(steps) == {w \in Workers : Departs(work[w]) /\ work[w].step \in steps}

permitted == {g \in GeneratorCodes : QualifiedGenerator(g)}
             \cup {work[w].item.generator : w \in DepartingAt({"carrier", "write"})}

licensed == {c \in CarrierCodes : QualifiedCarrier(c)}
            \cup {work[w].item.carrier : w \in DepartingAt({"write"})}

Abstract == INSTANCE Transfers WITH permitted <- permitted, licensed <- licensed

\* The interleaved handlers of the four services write as Transfers does: each write is right for
\* the row it replaces, a manifest keeps its parties once it is submitted and a check its manifest
\* once it is decided, nothing leaves by a party that was never in order, and nothing passes about
\* a draft.
ImplementsTransfers == Abstract!Spec

-----------------------------------------------------------------------------
\* README.md:43: a failed check can still be escalated; for that its manifest must be found.
FailedCanEscalate ==
    \A k \in CheckCodes :
        Found(checks, k) /\ checks[k].status = "fail" => Found(manifests, checks[k].manifest)
=============================================================================
