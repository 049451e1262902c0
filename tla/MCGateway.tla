------------------------------- MODULE MCGateway -------------------------------
(* Values for the model-checking runs of Gateway.                          *)
EXTENDS Gateway

CONSTANTS a, b
================================================================================
