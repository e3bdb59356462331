------------------------------ MODULE MCTelemetry ------------------------------
(* The instance of Telemetry: constants are given in the cfg file.             *)
EXTENDS Telemetry
================================================================================
