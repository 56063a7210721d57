--------------------------- MODULE MCSlowControl ---------------------------
EXTENDS SlowControl
MCLinks == {0, 1}
MCLengths == {1, 4}
=============================================================================
