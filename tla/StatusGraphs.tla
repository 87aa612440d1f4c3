---------------------------- MODULE StatusGraphs ----------------------------
(***************************************************************************)
(* The four status graphs of internal/constants/status.go.  A graph is a   *)
(* record from a status to the set of statuses a transition request may    *)
(* name, like the nested Go maps; the service of each aggregate passes its *)
(* own graph to CanTransition.                                             *)
(***************************************************************************)

WasteGeneratorTransitions ==
    [active     |-> {"restricted", "suspended", "expired"},
     restricted |-> {"active", "suspended", "expired"},
     suspended  |-> {"active", "expired"},
     expired    |-> {}]

CarrierProfileTransitions ==
    [pending    |-> {"verified", "restricted"},
     verified   |-> {"restricted", "expired"},
     restricted |-> {"pending", "expired"},
     expired    |-> {}]

TransferManifestTransitions ==
    [draft      |-> {"submitted"},
     submitted  |-> {"in_transit", "rejected"},
     in_transit |-> {"received", "rejected"},
     received   |-> {},
     rejected   |-> {}]

ComplianceCheckTransitions ==
    [pending   |-> {"pass", "fail"},
     pass      |-> {},
     fail      |-> {"escalated"},
     escalated |-> {}]

\* The graphs of the pages, TRANSITIONS of frontend/src/types/status.ts.
OfferedForGenerators ==
    [active     |-> {"restricted", "suspended", "expired"},
     restricted |-> {"active", "suspended", "expired"},
     suspended  |-> {"active", "expired"},
     expired    |-> {}]

OfferedForCarriers ==
    [pending    |-> {"verified", "restricted", "expired"},
     verified   |-> {"restricted", "expired"},
     restricted |-> {"pending", "expired"},
     expired    |-> {}]

\* Slip: a page skips a status.
OfferedForManifestsSkipping ==
    [draft      |-> {"submitted"},
     submitted  |-> {"in_transit", "received", "rejected"},
     in_transit |-> {"received", "rejected"},
     received   |-> {},
     rejected   |-> {}]

OfferedForManifests ==
    [draft      |-> {"submitted"},
     submitted  |-> {"in_transit", "rejected"},
     in_transit |-> {"received", "rejected"},
     received   |-> {},
     rejected   |-> {}]

OfferedForChecks ==
    [pending   |-> {"pass", "fail", "escalated"},
     pass      |-> {},
     fail      |-> {"escalated"},
     escalated |-> {}]

CanTransition(graph, from, to) ==
    /\ from \in DOMAIN graph
    /\ to \in graph[from]

=============================================================================
