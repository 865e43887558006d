-------------------------- MODULE MCSerialDevice --------------------------
(* Instances of SerialDevice for TLC. *)
EXTENDS SerialDevice

\* Starts fall into different seconds, or all into one.
DistinctPaths == [n \in Calls |-> n]
OneSecond     == [n \in Calls |-> 1]
=============================================================================
