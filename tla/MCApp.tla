-------------------------------- MODULE MCApp --------------------------------
(* Constants of the application's runs: its workers are a sequence. *)
EXTENDS App

CONSTANTS taskA, taskB

TwoWorkers == <<taskA, taskB>>
=============================================================================
