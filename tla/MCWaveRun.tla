----------------------------- MODULE MCWaveRun ------------------------------
(* TLC instances of WaveRun: values of the constants that a .cfg file      *)
(* cannot write down.                                                      *)
EXTENDS WaveRun

CONSTANTS a, b, c

OneWave == [t \in Tickets |-> 1]
TwoWaves == [t \in Tickets |-> IF t = b THEN 2 ELSE 1]
OneOnly == <<1>>
InOrder == <<1, 2>>
=============================================================================
