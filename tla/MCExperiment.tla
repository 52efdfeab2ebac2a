---------------------------- MODULE MCExperiment ----------------------------
(* A harmless change and a secret; two lines after the segment's, torn   *)
(* or not; one crash.  The user's campaign file isolates the worktree, has *)
(* a secondary metric and a sweep over 1.0000, 1.0001, 1.0002, which share *)
(* one ID; the project may have one without isolation and with the other   *)
(* mutations.                                                              *)
EXTENDS Experiment

CONSTANTS edit, env

Latency == [direction |-> "minimize", baseline |-> 1, threshold |-> 1]

Isolated ==
  [complete |-> TRUE, direction |-> "maximize", secondary |-> {Latency}, useWorktree |-> TRUE,
   mutations |-> {[type |-> "parameter_sweep", param |-> "p", low |-> 10000, high |-> 10002,
                   step |-> 1]}]

Plain ==
  [complete |-> TRUE, direction |-> "minimize", secondary |-> {}, useWorktree |-> FALSE,
   mutations |-> {[type |-> "swap", target |-> "a", replacement |-> "b"],
                  [type |-> "toggle", flag |-> "f"], [type |-> "remove", target |-> "a"],
                  [type |-> "scale", param |-> "p", factors |-> {5000, 20000}],
                  [type |-> "enum_sweep", param |-> "p", values |-> {"x", "y"}],
                  [type |-> "reorder", items |-> <<1, 2, 3>>, max |-> 4]}]

MCChange == {edit, env}
MCSecrets == {env}
MCMetric == {2}
MCValue == {2, 3}
MCMutation == ParameterSweep(CHOOSE m \in Isolated.mutations : TRUE)
MCFile == {Plain}
MCHomeFile == {Isolated}
=============================================================================
