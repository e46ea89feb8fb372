--------------------------- MODULE MCChatSession ----------------------------
\* ChatSession on small instances: two turns at once, about a fact that only a
\* tool can return (fig).
EXTENDS ChatSession, TLC

Symmetric == Permutations(Turn)

=============================================================================
