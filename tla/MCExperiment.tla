---------------------------- MODULE MCExperiment ----------------------------
(* Small sessions of Experiment for TLC. *)
EXTENDS Experiment

CONSTANTS energy, markets

TwoAgents == <<<<energy>>, <<markets>>>>
=============================================================================
