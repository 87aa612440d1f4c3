--------------------------- MODULE WasteGenerators ---------------------------
(***************************************************************************)
(* internal/service/waste_generator.go: producers of waste and their       *)
(* permits.  Neither an update nor a deletion depends on the status.       *)
(***************************************************************************)
EXTENDS Registry

\* validateWasteGeneratorBusinessFields: the permit must still be valid.
ValidGenerator(expires) == expires > now

CreateGenerator(w, g, expires) ==
    /\ ValidGenerator(expires)
    /\ Begin(w, "generators", "create", g,
             [state |-> "live", status |-> "active", version |-> 1, expires |-> expires], "write")

UpdateGenerator(w, g, expires) ==
    /\ Found(generators, g) /\ Revisable("generators", generators[g])
    /\ ValidGenerator(expires)
    /\ Begin(w, "generators", "update", g,
             [generators[g] EXCEPT !.expires = expires, !.version = @ + 1], "write")

TransitionGenerator(w, g, target) ==
    /\ Found(generators, g) /\ Revisable("generators", generators[g])
    /\ CanTransition(WasteGeneratorTransitions, generators[g].status, target)
    /\ target = "active" => generators[g].expires > now
    /\ Begin(w, "generators", "transition", g,
             [generators[g] EXCEPT !.status = target, !.version = @ + 1], "write")

DeleteGenerator(w, g) ==
    /\ Found(generators, g)
    /\ Begin(w, "generators", "delete", g, generators[g], "write")

WriteGenerator(w) ==
    /\ Serving(w, "generators", "write")
    /\ Writable(generators, work[w])
    /\ generators' = Written(generators, work[w])
    /\ Finish(w)
    /\ UNCHANGED <<carriers, manifests, checks, now>>

GeneratorStep(w) ==
    \/ \E g \in GeneratorCodes :
           \/ \E t \in ExpiryDates : CreateGenerator(w, g, t) \/ UpdateGenerator(w, g, t)
           \/ \E s \in DOMAIN WasteGeneratorTransitions : TransitionGenerator(w, g, s)
           \/ DeleteGenerator(w, g)
    \/ WriteGenerator(w)
=============================================================================
