------------------------------ MODULE MCPaperFeed -------------------------------
(* Small instances of PaperFeed.                                           *)
EXTENDS PaperFeed, TLC

CONSTANTS u1, u2, worker, cli

(* What a page says of the paper: nothing, or one of three statuses in order. *)
Ladder == {NoStatus, WorkingPaper, ReviseResubmit, Published}

FeedSymmetry == Permutations(Urls) \cup Permutations(Extractors)
===============================================================================
