-------------------------- MODULE MCDecisionInputs --------------------------
(* A small instance: two publishers with a stored record each (the ids and  *)
(* the order of acceptance disagree), and two contracts.  The two thresholds *)
(* are the default, which a contradicted class passes, and one it does not.  *)
EXTENDS DecisionInputs

Stored ==
  {[id |-> i, publisher |-> IF i = 2 THEN "p2" ELSE "p1", boot |-> 1,
    flow |-> "f", flow_generation |-> 1,
    workload |-> IF i = 1 THEN "w2" ELSE "w1", workload_generation |-> IF i = 2 THEN 2 ELSE 1,
    accepted_epoch |-> 1, accepted_seq |-> 4 - i, fresh_until |-> IF i = 1 THEN 1 ELSE 2,
    semantic |-> c, source |-> s, state |-> st] :
   i \in {1, 2, 3}, c \in {"A", "B"}, s \in {1, 3, 5}, st \in {"CURRENT", "SUPERSEDED"}}

Derived ==
  {[id |-> i, publisher |-> "p1", boot |-> 0, flow |-> "f", flow_generation |-> 1,
    workload |-> w, workload_generation |-> 1, accepted_epoch |-> 1, accepted_seq |-> 0,
    fresh_until |-> 3, semantic |-> c, source |-> ContractDerived, state |-> "CURRENT"] :
   <<i, w>> \in {<<-1, "w1">>, <<-2, "w2">>}, c \in {"A", "B"}}

Candidates == {r \in Stored : r.state = "CURRENT" \/ r.id = 3} \cup Derived

Inputs ==
  {[flow |-> "f", generation |-> 1, epoch |-> 1, tick |-> 1,
    live |-> {<<"p1", 1>>, <<"p2", 1>>}, revoked |-> FALSE,
    policy |-> [allow_heuristic |-> h, penalty |-> 2000, minimum |-> m,
                max_considered |-> n, window |-> 1]] :
   h \in BOOLEAN, <<m, n>> \in {<<1000, 1>>, <<1000, 2>>, <<6500, 1>>}}

=============================================================================
