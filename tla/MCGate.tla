-------------------------------- MODULE MCGate --------------------------------
(* An instance of the gate in front of a job: a proposal of each kind, and     *)
(* manifests a follow-up must not rest on beside one it may.                   *)
EXTENDS ResearchGate

MCProposal(kind) == [kind |-> kind, unset |-> {}, model |-> "m1", parserAsRegistered |-> TRUE,
                     intent |-> TRUE, notes |-> TRUE, fallback |-> FALSE]
MCProposals ==
    {MCProposal("baseline-eval"), [MCProposal("mechanistic-localization") EXCEPT !.notes = FALSE, !.model = Unset],
     [MCProposal("causal-intervention") EXCEPT !.fallback = TRUE], MCProposal("generic")}
\* The kinds the guard examines.
MCGuarded == {c \in MCProposals : c.kind # "generic"}
MCManifest == [status |-> "completed", prepNote |-> FALSE, metrics |-> TRUE,
               prompt |-> "p1", runtime |-> "gpu", name |-> "d1", slice |-> "all", model |-> "m1"]
MCManifests ==
    {MCManifest, [MCManifest EXCEPT !.runtime = "mock", !.model = "m2", !.slice = Unset],
     [MCManifest EXCEPT !.runtime = "prep"], [MCManifest EXCEPT !.status = "blocked", !.model = Unset]}
===============================================================================
