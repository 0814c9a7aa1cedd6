-------------------------- MODULE MCSignalIngestion --------------------------
(* Instances of SignalIngestion for TLC. *)
EXTENDS SignalIngestion, TLC

CONSTANTS planning1, other1, a, b, w1, w2

\* A source that revises next to one that does not.
MCSourceType == [s \in Signal |-> IF s = planning1 THEN "planning" ELSE "other"]
=============================================================================
