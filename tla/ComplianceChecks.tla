--------------------------- MODULE ComplianceChecks ---------------------------
(***************************************************************************)
(* internal/service/compliance_check.go: decisions about a manifest.       *)
(* Every handler but the deletion looks the manifest up between reading    *)
(* the check and opening its transaction.                                  *)
(***************************************************************************)
EXTENDS Registry

CreateCheck(w, k, m) ==
    Begin(w, "checks", "create", k,
          [state |-> "live", status |-> "pending", version |-> 1, manifest |-> m], "manifest")

\* Slip: an edit of a decided check.
UpdateDecidedCheck(w, k, m) ==
    /\ Found(checks, k) /\ Revisable("checks", checks[k])
    /\ Begin(w, "checks", "update", k,
             [checks[k] EXCEPT !.manifest = m, !.version = @ + 1], "manifest")

UpdateCheck(w, k, m) ==
    /\ Found(checks, k) /\ Revisable("checks", checks[k])
    /\ checks[k].status = "pending"
    /\ Begin(w, "checks", "update", k,
             [checks[k] EXCEPT !.manifest = m, !.version = @ + 1], "manifest")

TransitionCheck(w, k, target) ==
    /\ Found(checks, k) /\ Revisable("checks", checks[k])
    /\ CanTransition(ComplianceCheckTransitions, checks[k].status, target)
    /\ Begin(w, "checks", "transition", k,
             [checks[k] EXCEPT !.status = target, !.version = @ + 1], "manifest")

DeleteCheck(w, k) ==
    /\ Found(checks, k)
    /\ checks[k].status = "pending"
    /\ Begin(w, "checks", "delete", k, checks[k], "write")

\* A manifest in one of these states can pass.
Passable == {"submitted", "in_transit", "received"}

\* Slip: only rejected manifests are kept from passing.
LookUpUnrejectedManifest(w) ==
    LET m == work[w].item.manifest IN
    /\ Serving(w, "checks", "manifest")
    /\ Found(manifests, m)
    /\ work[w].op = "transition" /\ work[w].item.status = "pass"
           => manifests[m].status # "rejected"
    /\ LookedUp(w, "manifests", manifests[m], "write")

\* Slip: the manifest is looked up for a pass only.
LookUpManifestForPass(w) ==
    LET m == work[w].item.manifest IN
    /\ Serving(w, "checks", "manifest")
    /\ work[w].op = "transition" /\ work[w].item.status = "pass"
           => Found(manifests, m) /\ manifests[m].status \in Passable
    /\ LookedUp(w, "manifests", manifests[m], "write")

LookUpManifest(w) ==
    LET m == work[w].item.manifest IN
    /\ Serving(w, "checks", "manifest")
    /\ Found(manifests, m)
    /\ work[w].op = "transition" /\ work[w].item.status = "pass"
           => manifests[m].status \in Passable
    /\ LookedUp(w, "manifests", manifests[m], "write")

WriteCheck(w) ==
    /\ Serving(w, "checks", "write")
    /\ Writable(checks, work[w])
    /\ checks' = Written(checks, work[w])
    /\ Finish(w)
    /\ UNCHANGED <<generators, carriers, manifests, now>>

CheckStep(w) ==
    \/ \E k \in CheckCodes :
           \/ \E m \in ManifestCodes : CreateCheck(w, k, m) \/ UpdateCheck(w, k, m)
           \/ \E s \in DOMAIN ComplianceCheckTransitions : TransitionCheck(w, k, s)
           \/ DeleteCheck(w, k)
    \/ LookUpManifest(w)
    \/ WriteCheck(w)
=============================================================================
