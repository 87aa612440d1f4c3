--------------------------- MODULE CarrierProfiles ---------------------------
(***************************************************************************)
(* internal/service/carrier_profile.go: carriers and their licenses.       *)
(* A new carrier is pending; an update keeps the status, whatever it is,   *)
(* and a deletion does not depend on it.                                   *)
(***************************************************************************)
EXTENDS Registry

\* validateCarrierProfileBusinessFields: the license must still be valid.
ValidCarrier(expires) == expires > now

CreateCarrier(w, c, expires) ==
    /\ ValidCarrier(expires)
    /\ Begin(w, "carriers", "create", c,
             [state |-> "live", status |-> "pending", version |-> 1, expires |-> expires], "write")

UpdateCarrier(w, c, expires) ==
    /\ Found(carriers, c) /\ Revisable("carriers", carriers[c])
    /\ ValidCarrier(expires)
    /\ Begin(w, "carriers", "update", c,
             [carriers[c] EXCEPT !.expires = expires, !.version = @ + 1], "write")

TransitionCarrier(w, c, target) ==
    /\ Found(carriers, c) /\ Revisable("carriers", carriers[c])
    /\ CanTransition(CarrierProfileTransitions, carriers[c].status, target)
    /\ target = "verified" => carriers[c].expires > now
    /\ Begin(w, "carriers", "transition", c,
             [carriers[c] EXCEPT !.status = target, !.version = @ + 1], "write")

DeleteCarrier(w, c) ==
    /\ Found(carriers, c)
    /\ Begin(w, "carriers", "delete", c, carriers[c], "write")

WriteCarrier(w) ==
    /\ Serving(w, "carriers", "write")
    /\ Writable(carriers, work[w])
    /\ carriers' = Written(carriers, work[w])
    /\ Finish(w)
    /\ UNCHANGED <<generators, manifests, checks, now>>

CarrierStep(w) ==
    \/ \E c \in CarrierCodes :
           \/ \E t \in ExpiryDates : CreateCarrier(w, c, t) \/ UpdateCarrier(w, c, t)
           \/ \E s \in DOMAIN CarrierProfileTransitions : TransitionCarrier(w, c, s)
           \/ DeleteCarrier(w, c)
    \/ WriteCarrier(w)
=============================================================================
