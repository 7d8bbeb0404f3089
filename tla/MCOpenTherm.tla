---- MODULE MCOpenTherm ----
\* Instances of OpenTherm for TLC: a boiler that knows every command, and one without a
\* set point.
EXTENDS OpenTherm

MCBoilers == {Cmds, Cmds \ {"ch"}}
====
