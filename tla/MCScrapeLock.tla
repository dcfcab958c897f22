----------------------------- MODULE MCScrapeLock -----------------------------
(* Instances of ScrapeLock for TLC. *)
EXTENDS ScrapeLock, TLC

CONSTANTS owner, other, shell,   \* the processes
          sched, api, remote, cli,  \* the interval job, POST to the owner and to another worker, the CLI
          c1, c2, c3, c4

ProcOfAll == sched :> owner @@ api :> owner @@ remote :> other @@ cli :> shell
Placement == [t \in Threads |-> ProcOfAll[t]]
ConnSymmetry == Permutations(Conns)
===============================================================================
