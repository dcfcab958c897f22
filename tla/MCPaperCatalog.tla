-------------------------- MODULE MCPaperCatalog --------------------------
\* PaperCatalog for TLC: two rows of one title and the same authors, for which
\* OpenAlex has two works, and a third paper whose record makes the code raise.
EXTENDS PaperCatalog, TLC

CONSTANTS w1, w2, w3, t1, t2, t3, ann, bob

WorkTitles == w1 :> t1 @@ w2 :> t1 @@ w3 :> t2
PaperTitles == <<t1, t1, t2>>
PaperAuthors == <<{ann, bob}, {ann, bob}, {ann}>>
PaperStatuses == <<5, 4, 5>>
Dois == <<{}, {w1}, {w3}>>
===========================================================================
