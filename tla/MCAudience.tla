----------------------------- MODULE MCAudience -----------------------------
\* Audience for TLC: "M." fits "Max" and "Maximilian", who fit each other only as
\* an abbreviation; "Max" and "M." are rows of their own who wrote a paper together.
EXTENDS Audience, TLC

CONSTANTS p1, p2, u1, home, api, script

M == 1
Max == 2
Maximilian == 3
FitNames == {{M, Max}, {M, Maximilian}}
ShortNames == {{Max, Maximilian}}
InitialNames == FitNames \cup {{M}}
Bylines == p1 :> <<Max, Maximilian>> @@ p2 :> <<M>>
ListedOn == p1 :> home @@ p2 :> home
RowNames == <<Max, M>>
RowPapers == <<{p1}, {p1}>>
RowPages == <<{}, {home}>>
Follows == u1 :> {2}
=============================================================================
