------------------------ MODULE MCWorkbookProcessing ------------------------
\* WorkbookProcessing with the background task of an upload and two requests
\* made by users, which are alike.
EXTENDS WorkbookProcessing, TLC

CONSTANTS p1, p2

Symmetric == Permutations({p1, p2})

=============================================================================
