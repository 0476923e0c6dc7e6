------------------------------ MODULE MCServer ------------------------------
(* A small instance of Server for TLC.                                       *)
EXTENDS Server

CONSTANTS m1, m2

OnePerServer == {[id |-> "c1", via |-> "rest"], [id |-> "c2", via |-> "grpc"],
                 [id |-> "c3", via |-> "kafka"]}
=============================================================================
