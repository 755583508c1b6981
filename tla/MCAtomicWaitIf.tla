----------------------------- MODULE MCAtomicWaitIf ----------------------------
(* The instance of AtomicWaitIf that TLC checks: two waiters for different *)
(* values, and a value that neither waits for.                             *)
EXTENDS AtomicWaitIf

CONSTANTS early, late, zero, one, two

MCWaiters == {early, late}
MCValues == {zero, one, two}
MCSatisfying == [t \in MCWaiters |-> IF t = early THEN {one, two} ELSE {two}]
================================================================================
