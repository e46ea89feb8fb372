--------------------------- MODULE MCAskQuestion ---------------------------
\* AskQuestion with two questions, a conversation there is already, and the
\* requests that rename and delete one.
EXTENDS AskQuestion

CONSTANTS q1, q2

=============================================================================
