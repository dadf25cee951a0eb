--------------------------- MODULE MCEventImport ---------------------------
(* Small instances of EventImport for TLC.                                 *)
EXTENDS EventImport, TLC

(* Operators are interchangeable.                                          *)
Symmetric == Permutations(Operators)

=============================================================================
