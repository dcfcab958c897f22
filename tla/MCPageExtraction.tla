--------------------------- MODULE MCPageExtraction ---------------------------
(* Instances of PageExtraction for TLC. *)
EXTENDS PageExtraction, TLC

CONSTANTS ga, gb, gc, p, q

\* The page gains a paper, is then reworded, and may revert.
RewordedPages == {ga, gb, gc}
RewordedPapers == ga :> {} @@ gb :> {p} @@ gc :> {p}

\* One paper stays, the other comes and goes.
LastingPages == {ga, gb}
LastingPapers == ga :> {p} @@ gb :> {p, q}

\* The page gains a paper, and may lose it again.
PlainPages == {ga, gb}
PlainPapers == ga :> {} @@ gb :> {p}

\* The page without a paper is a JPEG or an empty body.
EmptyUnreadable == {ga}
NoneUnreadable == {}

\* The extractors are alike.
AnyExtractor == Permutations(Extractors)

(* What the properties of PageOverlap look at, and all that actions read: the  *)
(* other history variables tell apart states that are alike to both.          *)
OverlapView == <<system, seedSaved, finds>>
===============================================================================
