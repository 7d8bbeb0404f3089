---- MODULE MCSht20 ----
\* Instances of Sht20 for TLC: the first sensor has a bus of its own, the others share one.
EXTENDS Sht20

MCBuses == [s \in 1..NSensors |-> IF s = 1 THEN 1 ELSE 2]
====
