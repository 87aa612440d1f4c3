-------------------------- MODULE TransferManifests --------------------------
(***************************************************************************)
(* internal/service/transfer_manifest.go: transfers of waste from a        *)
(* generator by a carrier.  A handler reads the manifest, then the         *)
(* generator, then the carrier, in three queries outside its transaction.  *)
(***************************************************************************)
EXTENDS Registry

\* Creation and update require that both parties exist.
CreateManifest(w, m, g, c) ==
    Begin(w, "manifests", "create", m,
          [state |-> "live", status |-> "draft", version |-> 1, generator |-> g, carrier |-> c],
          "generator")

UpdateManifest(w, m, g, c) ==
    /\ Found(manifests, m) /\ Revisable("manifests", manifests[m])
    /\ manifests[m].status = "draft"
    /\ Begin(w, "manifests", "update", m,
             [manifests[m] EXCEPT !.generator = g, !.carrier = c, !.version = @ + 1], "generator")

\* The moves that put waste on its way.
Departure == {"submitted", "in_transit"}

TransitionManifest(w, m, target) ==
    /\ Found(manifests, m) /\ Revisable("manifests", manifests[m])
    /\ CanTransition(TransferManifestTransitions, manifests[m].status, target)
    /\ Begin(w, "manifests", "transition", m,
             [manifests[m] EXCEPT !.status = target, !.version = @ + 1],
             IF target \in Departure THEN "generator" ELSE "write")

DeletableManifest(m) == Found(manifests, m) /\ manifests[m].status = "draft"

DeleteManifest(w, m) ==
    /\ DeletableManifest(m)
    /\ Begin(w, "manifests", "delete", m, manifests[m], "write")

-----------------------------------------------------------------------------
(* The linked parties: validateLinkedParties for a departure, existence otherwise. *)

QualifiedGenerator(g) ==
    Found(generators, g) /\ generators[g].status = "active" /\ generators[g].expires > now

QualifiedCarrier(c) ==
    Found(carriers, c) /\ carriers[c].status = "verified" /\ carriers[c].expires > now

LookUpGenerator(w) ==
    LET g == work[w].item.generator IN
    /\ Serving(w, "manifests", "generator")
    /\ Found(generators, g)
    /\ work[w].op = "transition" => QualifiedGenerator(g)
    /\ LookedUp(w, "generators", generators[g], "carrier")

\* Slip: the carrier has to exist, but not to be verified.
LookUpAnyCarrier(w) ==
    LET c == work[w].item.carrier IN
    /\ Serving(w, "manifests", "carrier")
    /\ Found(carriers, c)
    /\ LookedUp(w, "carriers", carriers[c], "write")

LookUpCarrier(w) ==
    LET c == work[w].item.carrier IN
    /\ Serving(w, "manifests", "carrier")
    /\ Found(carriers, c)
    /\ work[w].op = "transition" => QualifiedCarrier(c)
    /\ LookedUp(w, "carriers", carriers[c], "write")

WriteManifest(w) ==
    /\ Serving(w, "manifests", "write")
    /\ Writable(manifests, work[w])
    /\ manifests' = Written(manifests, work[w])
    /\ Finish(w)
    /\ UNCHANGED <<generators, carriers, checks, now>>

ManifestStep(w) ==
    \/ \E m \in ManifestCodes :
           \/ \E g \in GeneratorCodes, c \in CarrierCodes :
                  CreateManifest(w, m, g, c) \/ UpdateManifest(w, m, g, c)
           \/ \E s \in DOMAIN TransferManifestTransitions : TransitionManifest(w, m, s)
           \/ DeleteManifest(w, m)
    \/ LookUpGenerator(w)
    \/ LookUpCarrier(w)
    \/ WriteManifest(w)
=============================================================================
