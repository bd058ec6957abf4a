------------------------------ MODULE MCHttpd ------------------------------
EXTENDS Httpd

Plain   == [method |-> "get", version |-> 11, connection |-> "none", expect |-> FALSE]
Expect  == [Plain EXCEPT !.expect = TRUE]
Closing == [Plain EXCEPT !.connection = "close"]
Old     == [Plain EXCEPT !.version = 10]
OldKeep == [Old EXCEPT !.connection = "keep"]
HeadRq  == [Plain EXCEPT !.method = "head"]

All == {Expect, Closing, Old, OldKeep, HeadRq}
=============================================================================
