---------------------------- MODULE MCSessionManager ----------------------------
(***************************************************************************)
(* Small instances of SessionManager: requests are interchangeable; three  *)
(* of them, or two and a fault.                                            *)
(***************************************************************************)
EXTENDS SessionManager, TLC

RequestSymmetry == Permutations(Request)

Little == begun' + faults' <= 3

LittleSpec == Init /\ [][Next /\ Little]_vars
================================================================================
