----------------------------- MODULE MCWaveLoop -----------------------------
(* TLC instances of WaveLoop: values of the constants that a .cfg file     *)
(* cannot write down.                                                      *)
EXTENDS WaveLoop

CONSTANTS a, b, c

NoDeps == [t \in Tickets |-> {}]
Chained == [t \in Tickets |-> IF t = b THEN {a} ELSE {}]
OneEpic == [t \in Tickets |-> "e"]
\* a and b share an epic, b and c a file.
EpicOfThree == [t \in Tickets |-> IF t = c THEN "f" ELSE "e"]
FilesOfThree == {{b, c}}
=============================================================================
