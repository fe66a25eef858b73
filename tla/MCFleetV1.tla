----------------------------- MODULE MCFleetV1 -----------------------------
(***************************************************************************)
(* Manifests of three tasks for FleetV1.                                   *)
(***************************************************************************)
EXTENDS FleetV1

Plain == [wave |-> <<1, 1, 2>>, deps |-> <<{}, {}, {1}>>, max |-> <<2, 1, 1>>,
          status |-> <<"pending", "pending", "pending">>,
          fit |-> 1 .. 3, stopped |-> {}, gated |-> {2}]

\* The task that retried may no longer, and the second one has no agent.
Edited == [Plain EXCEPT !.max = <<1, 1, 1>>, !.fit = {1, 3}]

\* Ids against the order of the dependencies, an input that is missing and a
\* task that the manifest skips.
Backward == [Plain EXCEPT !.deps = <<{2}, {}, {1}>>, !.stopped = {3},
                          !.status = <<"pending", "skipped", "pending">>, !.gated = {}]

\* A task of the first wave depends on one of the second.
Unordered == [Plain EXCEPT !.deps = <<{3}, {}, {}>>, !.gated = {}]

OrderedPlans == {Plain, Edited, Backward}
AllPlans == {Plain, Unordered}
=============================================================================
