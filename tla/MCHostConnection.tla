--------------------------- MODULE MCHostConnection ---------------------------
EXTENDS HostConnection
Controllers == {[live |-> TRUE, board |-> "b1"], [live |-> TRUE, board |-> "b2"]}
Demo == [live |-> FALSE, board |-> "mock-board"]
===============================================================================
