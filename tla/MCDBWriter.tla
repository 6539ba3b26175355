----------------------------- MODULE MCDBWriter -----------------------------
(* Model values and small sets for DBWriter. *)
EXTENDS DBWriter, TLC

CONSTANTS h1, h2, mqtt, analytics, tempA, occB

MCKindOf == [d \in Devices |-> CASE d = tempA -> "temp" [] d = occB -> "occ"
                                 [] OTHER -> "power"]
Symm == Permutations(Handlers)
=============================================================================
