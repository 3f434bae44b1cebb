--------------------------- MODULE MCFlasherPage ---------------------------
(* An F7 board, the F405 diagnostic, and three images.                      *)
EXTENDS FlasherPage

MCBase == 2
MCSizes == [F745 |-> <<2, 2, 3>>, F405 |-> <<2, 1>>]
MCLayout == [kakute |-> <<2, 2, 3>>, other |-> <<2, 1>>]
MCBoards == [f7 |-> [id |-> "f7", mcu |-> "F745", diagnostic |-> FALSE],
             f4 |-> [id |-> "f4", mcu |-> "F405", diagnostic |-> TRUE]]

Rec(t, at, val, data) ==
  [type |-> t, sum |-> TRUE, shape |-> TRUE, at |-> at, val |-> val, data |-> data]
EndRec == Rec(1, 0, 0, <<>>)
W(v) == <<"data", v>>

\* main: vectors and code in one region, one word alone at the end of the window;
\* records out of order and across an upper address record.
MCFiles ==
  [main  |-> [hint |-> "F745", names |-> "f7",
              recs |-> <<Rec(4, 0, 1, <<>>), Rec(0, 2, 0, <<W(9)>>), Rec(2, 0, 0, <<>>),
                         Rec(0, 3, 0, <<W(7)>>), Rec(0, 2, 0, <<<<"f7", 3>>>>),
                         Rec(5, 0, 3, <<>>), EndRec>>],
   next  |-> [hint |-> "none", names |-> "none",
              recs |-> <<Rec(0, 2, 0, <<<<"f7", 2>>, W(1), W(2)>>), EndRec>>],
   diag  |-> [hint |-> "F405", names |-> "f4",
              recs |-> <<Rec(0, 2, 0, <<<<"f4", 2>>, <<"marker", 0>>>>), EndRec>>],
   bad   |-> [hint |-> "none", names |-> "none",
              recs |-> <<Rec(0, 2, 0, <<<<"f7", 2>>, W(1)>>), Rec(0, 3, 0, <<W(2)>>), EndRec>>]]

MCPorts == {[live |-> TRUE, board |-> "f7", mcu |-> "F745"],
            [live |-> TRUE, board |-> "unknown", mcu |-> "F745"],
            [live |-> FALSE, board |-> "f7", mcu |-> "F745"]}

\* A session in which a board has been chosen, the first box ticked and a controller
\* put into DFU mode (the start of the program lies three events earlier).
MCInit ==
  /\ board \in DOMAIN MCBoards /\ custom = (board = "f4") /\ plugged \in Devices
  /\ DfuStart /\ LockInit /\ SessInit
  /\ ticks = {"prepared"} /\ PageStart
MCSpec == MCInit /\ [][Next]_vars
=============================================================================
