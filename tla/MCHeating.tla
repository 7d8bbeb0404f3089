---- MODULE MCHeating ----
\* Instances of Heating for TLC: all the thermostats switch one relay.
EXTENDS Heating

MCRelayOf == [t \in Therms |-> "r"]
MCHysts == {-1, 1}
====
