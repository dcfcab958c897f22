---------------------------- MODULE MCDataCleanup ----------------------------
\* DataCleanup for TLC: 2 is "M.", whom both 1, "Max", and 3, "Maria", fit.
EXTENDS DataCleanup, TLC

CONSTANTS home

InitialNames == {{1, 2}, {2, 3}}
NoProfiles == [r \in Researchers |-> 0]
ListedOn == [p \in Papers |-> home]
SameTitles == [t \in Papers |-> t]
=============================================================================
