----------------------------- MODULE MCLoopRate -----------------------------
EXTENDS LoopRate

\* An idle window, one exactly at 1% of its slots, and one above it.
SomeWindows == {<<0, 0>>, <<1, 100>>, <<2, 100>>}
=============================================================================
