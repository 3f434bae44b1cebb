-------------------------- MODULE MCControllerPages -------------------------
EXTENDS ControllerPages

\* a flash board with an enabled notch
FlashBoard == Booted(1, Keys \cup {"sensors"}, TRUE, 4, [Defaults EXCEPT !["center"] = 3, !["cutoff"] = 2, !["rate"] = 1])
\* the demo board, which has no flash and other settings
DemoBoard == Booted(2, Keys \cup {"sensors"}, FALSE, 9, [Defaults EXCEPT !["direction"] = 1, !["poles"] = 1, !["map"] = 1, !["expo"] = 1, !["mode"] = 1])
\* firmware without the later settings
OldBoard == Booted(3, Keys \ Later, TRUE, 9, [Defaults EXCEPT !["power"] = 1])
Boards == {FlashBoard, DemoBoard, OldBoard}

Edit(lpf, center, cutoff, rpm) == [lpf |-> lpf, center |-> center, cutoff |-> cutoff, rpm |-> rpm]
Tour(tabs, controllers, n) == [tabs |-> tabs, controllers |-> controllers, events |-> n]
\* Motors, Filters and Modes each with the pages whose unfinished writes can reach their settings
MCTours == {Tour({"motors", "setup", "receiver"}, {FlashBoard, DemoBoard}, 2),
            Tour({"motors", "setup", "receiver"}, {DemoBoard, OldBoard}, 3),
            Tour({"filters", "setup", "rates"}, {FlashBoard, OldBoard}, 3),
            Tour({"modes", "setup", "receiver"}, Boards, 3),
            Tour({"sensors", "setup"}, Boards, 3), Tour({"power", "setup"}, Boards, 3)}
\* a wider and a narrower notch, one above the board's limit, and the notch off
MCEdits == {Edit(0, 2, 1, 0), Edit(1, 3, 1, 0), Edit(0, 4, 3, 1), Edit(0, 0, 2, 1)}
=============================================================================
