------------------------------ MODULE Transfers ------------------------------
(***************************************************************************)
(* What the four services promise together, of the tables alone: whatever  *)
(* the handlers read and look up before, each write is one step, right for *)
(* the row as that step finds it.  Rows of other tables are not locked:    *)
(* they may have changed since they were looked up, so that of them only   *)
(* what is past is promised.                                               *)
(***************************************************************************)
EXTENDS Naturals, StatusGraphs

CONSTANTS
    GeneratorCodes, CarrierCodes, ManifestCodes, CheckCodes, ExpiryDates,
    SeedGenerators, SeedCarriers, SeedManifests, SeedChecks, Start

VARIABLES
    generators, carriers, manifests, checks, now,
    permitted,  \* generators known to have been active under a valid permit, at some time so far
    licensed    \* carriers known to have been verified with a valid license, at some time so far

Valid(row, status, t) == row.state = "live" /\ row.status = status /\ row.expires > t

Permitted(table, t) == {g \in GeneratorCodes : Valid(table[g], "active", t)}
Licensed(table, t) == {c \in CarrierCodes : Valid(table[c], "verified", t)}

\* What is known is seen in the tables, kept, or forgotten.
Remember ==
    /\ permitted' \subseteq permitted \cup Permitted(generators', now')
    /\ licensed' \subseteq licensed \cup Licensed(carriers', now')

\* Records that were created, and possibly deleted since.
Known(table) == {k \in DOMAIN table : table[k].state # "absent"}

Init ==
    /\ generators = SeedGenerators /\ carriers = SeedCarriers
    /\ manifests = SeedManifests /\ checks = SeedChecks
    /\ now = Start
    /\ permitted \subseteq Permitted(generators, now)
    /\ licensed \subseteq Licensed(carriers, now)

-----------------------------------------------------------------------------
(* In each table a row is created, edited, moved along its graph, or deleted. *)

Renewed(row, t) == [row EXCEPT !.expires = t, !.version = @ + 1]
Reassigned(row, g, c) == [row EXCEPT !.generator = g, !.carrier = c, !.version = @ + 1]
Redirected(row, m) == [row EXCEPT !.manifest = m, !.version = @ + 1]
Moved(row, s) == [row EXCEPT !.status = s, !.version = @ + 1]
Deleted(row) == [row EXCEPT !.state = "deleted"]

WriteGenerator(g) ==
    \/ /\ generators[g].state = "absent"
       /\ \E t \in ExpiryDates : generators' = [generators EXCEPT ![g] =
              [state |-> "live", status |-> "active", version |-> 1, expires |-> t]]
    \/ /\ generators[g].state = "live"
       /\ \/ \E t \in ExpiryDates : generators' = [generators EXCEPT ![g] = Renewed(@, t)]
          \/ \E s \in WasteGeneratorTransitions[generators[g].status] :
                 generators' = [generators EXCEPT ![g] = Moved(@, s)]
          \/ generators' = [generators EXCEPT ![g] = Deleted(@)]

WriteCarrier(c) ==
    \/ /\ carriers[c].state = "absent"
       /\ \E t \in ExpiryDates : carriers' = [carriers EXCEPT ![c] =
              [state |-> "live", status |-> "pending", version |-> 1, expires |-> t]]
    \/ /\ carriers[c].state = "live"
       /\ \/ \E t \in ExpiryDates : carriers' = [carriers EXCEPT ![c] = Renewed(@, t)]
          \/ \E s \in CarrierProfileTransitions[carriers[c].status] :
                 carriers' = [carriers EXCEPT ![c] = Moved(@, s)]
          \/ carriers' = [carriers EXCEPT ![c] = Deleted(@)]

\* The parties of a manifest are those of its draft.  They have been in order when it leaves.
WriteManifest(m) ==
    \/ /\ manifests[m].state = "absent"
       /\ \E g \in Known(generators), c \in Known(carriers) :
              manifests' = [manifests EXCEPT ![m] = [state |-> "live", status |-> "draft",
                                version |-> 1, generator |-> g, carrier |-> c]]
    \/ /\ manifests[m].state = "live"
       /\ \/ /\ manifests[m].status = "draft"
             /\ \E g \in Known(generators), c \in Known(carriers) :
                    manifests' = [manifests EXCEPT ![m] = Reassigned(@, g, c)]
          \/ \E s \in TransferManifestTransitions[manifests[m].status] :
                 /\ s \in {"submitted", "in_transit"} =>
                        manifests[m].generator \in permitted /\ manifests[m].carrier \in licensed
                 /\ manifests' = [manifests EXCEPT ![m] = Moved(@, s)]
          \/ manifests' = [manifests EXCEPT ![m] = Deleted(@)]

\* The manifest of a check is that of the pending check.  It has left draft when the check passes.
WriteCheck(k) ==
    \/ /\ checks[k].state = "absent"
       /\ \E m \in Known(manifests) : checks' = [checks EXCEPT ![k] =
              [state |-> "live", status |-> "pending", version |-> 1, manifest |-> m]]
    \/ /\ checks[k].state = "live"
       /\ \/ /\ checks[k].status = "pending"
             /\ \E m \in Known(manifests) : checks' = [checks EXCEPT ![k] = Redirected(@, m)]
          \/ \E s \in ComplianceCheckTransitions[checks[k].status] :
                 /\ s = "pass" => manifests[checks[k].manifest].status # "draft"
                 /\ checks' = [checks EXCEPT ![k] = Moved(@, s)]
          \/ checks' = [checks EXCEPT ![k] = Deleted(@)]

Next ==
    /\ \/ \E g \in GeneratorCodes :
              WriteGenerator(g) /\ UNCHANGED <<carriers, manifests, checks, now>>
       \/ \E c \in CarrierCodes :
              WriteCarrier(c) /\ UNCHANGED <<generators, manifests, checks, now>>
       \/ \E m \in ManifestCodes :
              WriteManifest(m) /\ UNCHANGED <<generators, carriers, checks, now>>
       \/ \E k \in CheckCodes :
              WriteCheck(k) /\ UNCHANGED <<generators, carriers, manifests, now>>
       \/ now' \in {now, now + 1} /\ UNCHANGED <<generators, carriers, manifests, checks>>
    /\ Remember

Spec == Init /\ [][Next]_<<generators, carriers, manifests, checks, now, permitted, licensed>>
=============================================================================
