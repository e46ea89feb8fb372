----------------------------- MODULE MCChatPage -----------------------------
\* ChatPage with a workbook to switch to and two messages between two others.
EXTENDS ChatPage, TLC
CONSTANTS u1, u2, m1, m2, m3, m4
Symmetric == Permutations({u1, u2}) \cup Permutations({m1, m2, m3, m4})
=============================================================================
