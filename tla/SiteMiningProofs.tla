-------------------------- MODULE SiteMiningProofs --------------------------
(***************************************************************************)
(* Theorems about SiteMining, for every set of miners, candidates, pages   *)
(* and sites, and every bound.                                             *)
(***************************************************************************)
EXTENDS SiteMining, TLAPS

---------------------------------------------------------------------------
(* Types. *)

MinerState == [pc : {"idle", "start", "read", "cached", "links", "directory",
                     "due", "verify", "decide", "finish", "close", "lost"},
               known : SUBSET Urls, todo : SUBSET Sources,
               src : Sources \cup {NoSource}, body : 0..2,
               links : SUBSET Candidates, batch : SUBSET Candidates,
               cand : SUBSET Candidates]

(* A source that is read has a body, and none is left when the next is picked. *)
SourceShape(m) ==
  /\ At(m, "links") /\ miner[m].src # NoSource => miner[m].body \in {1, 2}
  /\ At(m, "cached") => miner[m].src = NoSource

(* An approval under way is of a researcher for whom a search found pages. *)
AdminShape == admin # NoAdmin => admin.of \in Researchers /\ Finds[admin.of] # <<>>

(* An open candidate has failed at most twice.                               *)
TypeInv ==
  /\ TypeOK /\ AdminShape
  /\ \A c \in Candidates : cand[c] \in Open => attempts[c] \in 0..2
  /\ \A m \in Miners : SourceShape(m)

(* The candidates' table by itself. *)
QueueOK ==
  /\ cand \in [Candidates -> Statuses] /\ due \subseteq Candidates
  /\ attempts \in [Candidates -> 0..3] /\ behind \subseteq Profiles
  /\ saved \in [Candidates -> SUBSET Urls]
  /\ held \subseteq {c \in Candidates : cand[c] \in {"review", "rejected"}}
  /\ \A c \in Candidates : cand[c] \in Open => attempts[c] \in 0..2

LEMMA TypeInvQueue == TypeInv => QueueOK
  BY DEF TypeInv, TypeOK, QueueOK

LEMMA EnqueueType ==
  ASSUME QueueOK, NEW m, NEW c \in Candidates, Enqueue(m, c)
  PROVE  QueueOK'
<1>1. CASE UNCHANGED queue
  BY <1>1 DEF QueueOK, queue
<1>2. CASE /\ cand' = [cand EXCEPT ![c] = "pending"] /\ attempts' = [attempts EXCEPT ![c] = 0]
           /\ due' = due \cup {c} /\ behind' = behind \ {c} /\ UNCHANGED held
           /\ saved' = [saved EXCEPT ![c] = {}]
           /\ cand[c] = "absent" \/ c \notin held
  BY <1>2 DEF QueueOK, Statuses, Open
<1> QED
  BY <1>1, <1>2 DEF Enqueue, Refreshes

LEMMA ResultType ==
  ASSUME QueueOK, NEW c \in Candidates, NEW status, NEW pages \in SUBSET Urls,
         NEW counted \in BOOLEAN, SaveResult(c, status, pages, counted),
         status \in {"retry", "review", "approved"},
         status = "retry" /\ counted => attempts[c] < 2
  PROVE  QueueOK'
<1>1. CASE UNCHANGED queue
  BY <1>1 DEF QueueOK, queue
<1>2. CASE /\ cand[c] \in Open
           /\ cand' = [cand EXCEPT ![c] = status]
           /\ attempts' = [attempts EXCEPT ![c] = IF counted THEN @ + 1 ELSE @]
           /\ due' = due \ {c} /\ UNCHANGED <<behind, held>>
           /\ saved' = [saved EXCEPT ![c] = pages]
  BY <1>2 DEF QueueOK, Statuses, Open
<1> QED
  BY <1>1, <1>2 DEF SaveResult
(* The rest of the types: tables and locals.                                 *)
TablesOK ==
  /\ urls \subseteq Researchers \X Urls /\ dead \subseteq urls
  /\ version \in [Sources -> {1, 2}] /\ source \in [Sources -> 0..2] /\ dirDue \in BOOLEAN
  /\ disc \in [Researchers -> {"absent", "pending", "no_result", "approved", "rejected"}]
  /\ searching \subseteq Researchers
  /\ holder \in Miners \cup {Nobody} /\ running \subseteq Miners
  /\ admin \in [of : Researchers \cup {Nobody}, next : Nat \ {0}]
  /\ changes \in 0..MaxChanges /\ audits \in 0..MaxAudits /\ faults \in 0..MaxFaults
  /\ seenLinks \subseteq Candidates
  /\ AdminShape

LocalsOK ==
  /\ miner \in [Miners -> MinerState]
  /\ \A m \in Miners : SourceShape(m)

LEMMA TypeInvParts == TypeInv <=> QueueOK /\ TablesOK /\ LocalsOK
  BY DEF TypeInv, TypeOK, QueueOK, TablesOK, AdminShape, LocalsOK, MinerState

(* A step of one miner that gives it locals of the right shape.              *)
LEMMA LocalsStep ==
  ASSUME LocalsOK, NEW m \in Miners, NEW r \in MinerState, miner' = [miner EXCEPT ![m] = r],
         r.pc = "links" /\ r.src # NoSource => r.body \in {1, 2},
         r.pc = "cached" => r.src = NoSource
  PROVE  LocalsOK'
  BY DEF LocalsOK, SourceShape, At

(* A miner that goes on elsewhere than to a source keeps its locals.         *)
LEMMA GotoType ==
  ASSUME LocalsOK, NEW m \in Miners,
         NEW pc \in {"start", "read", "due", "verify", "finish", "close", "lost"}, Goto(m, pc)
  PROVE  LocalsOK'
<1> DEFINE r == [miner[m] EXCEPT !.pc = pc]
<1>1. miner' = [miner EXCEPT ![m] = r]
  BY DEF Goto
<1>2. miner[m] \in MinerState
  BY DEF LocalsOK
<1>3. r \in MinerState /\ r.pc = pc
  BY <1>2 DEF MinerState
<1> QED
  BY <1>1, <1>3, LocalsStep

(* A link that was queued is taken from the miner's list.                    *)
LEMMA LinkTaken ==
  ASSUME LocalsOK, NEW m \in Miners, NEW c, miner' = [miner EXCEPT ![m].links = @ \ {c}]
  PROVE  LocalsOK'
<1> DEFINE r == [miner[m] EXCEPT !.links = @ \ {c}]
<1>1. miner' = [miner EXCEPT ![m] = r]
  OBVIOUS
<1>2. miner[m] \in MinerState /\ SourceShape(m)
  BY DEF LocalsOK
<1>3. r \in MinerState /\ r.pc = miner[m].pc /\ r.src = miner[m].src /\ r.body = miner[m].body
  BY <1>2 DEF MinerState
<1> QED
  BY <1>1, <1>2, <1>3, LocalsStep DEF SourceShape, At

(* The locals of a miner that begins with a source.                          *)
LEMMA SourceTaken ==
  ASSUME NEW x \in MinerState, NEW s \in Sources, NEW b \in {1, 2}, NEW L \in SUBSET Candidates,
         NEW r, r = [x EXCEPT !.pc = "links", !.todo = @ \ {s}, !.src = s, !.body = b, !.links = L]
  PROVE  r \in MinerState /\ r.pc = "links" /\ r.body \in {1, 2}
<1> DEFINE y == [x EXCEPT !.pc = "links", !.todo = @ \ {s}, !.src = s]
<1>1. y \in MinerState /\ y.pc = "links"
  BY DEF MinerState
<1>2. b \in 0..2
  OBVIOUS
<1> HIDE DEF y
<1>3. [y EXCEPT !.body = b, !.links = L] \in MinerState
  BY <1>1, <1>2 DEF MinerState
<1>4. r = [y EXCEPT !.body = b, !.links = L]
  BY DEF y, MinerState
<1> QED
  BY <1>1, <1>3, <1>4 DEF MinerState

(* A fault more stays within the bound.                                      *)
LEMMA FaultCounted ==
  ASSUME faults \in 0..MaxFaults, faults < MaxFaults, faults' = faults + 1
  PROVE  faults' \in 0..MaxFaults
<1>1. MaxFaults \in Nat
  BY MiningAssumption
<1> QED
  BY <1>1

(* A run's steps from its lock to its sources keep the types.                *)
LEMMA SourceSteps ==
  ASSUME QueueOK, TablesOK, LocalsOK, NEW m \in Miners,
         \/ Enter(m) \/ StartRun(m) \/ ReadTables(m) \/ ReadSource(m) \/ EnqueueLink(m)
         \/ Checkpoint(m) \/ SkipDirectory(m) \/ VisitDirectory(m) \/ OutOfTime(m)
  PROVE  QueueOK' /\ TablesOK' /\ LocalsOK'
<1> USE MiningAssumption
<1>1. CASE Enter(m) \/ StartRun(m) \/ SkipDirectory(m)
  <2>1. QueueOK'
    BY <1>1 DEF Enter, StartRun, SkipDirectory, QueueOK, queue
  <2>2. TablesOK'
    BY <1>1 DEF Enter, StartRun, SkipDirectory, TablesOK, AdminShape, crawl, table, bounds
  <2>3. PICK pc \in {"start", "read", "due"} : Goto(m, pc)
    BY <1>1 DEF Enter, StartRun, SkipDirectory
  <2>4. LocalsOK'
    BY <2>3, GotoType
  <2> QED
    BY <2>1, <2>2, <2>4
<1>2. CASE ReadTables(m)
  <2> DEFINE r == [Idle EXCEPT !.pc = "cached", !.known = {u[2] : u \in urls},
                               !.todo = {s \in Sources : source[s] # version[s]}]
  <2>1. {u[2] : u \in urls} \subseteq Urls
    BY DEF TablesOK, AdminShape
  <2>2. r \in MinerState /\ r.pc = "cached" /\ r.src = NoSource
    <3>1. Idle \in MinerState /\ Idle.src = NoSource
      BY DEF Idle, MinerState
    <3> QED
      BY <3>1, <2>1 DEF MinerState
  <2>3. LocalsOK'
    <3>1. miner' = [miner EXCEPT ![m] = r]
      BY <1>2 DEF ReadTables
    <3> QED
      BY <3>1, <2>2, LocalsStep
  <2> QED
    BY <1>2, <2>3 DEF ReadTables, QueueOK, TablesOK, AdminShape, queue, crawl, table, bounds
<1>3. CASE ReadSource(m)
  <2>1. PICK s \in miner[m].todo :
          miner' = [miner EXCEPT ![m].pc = "links", ![m].todo = @ \ {s}, ![m].src = s,
                                 ![m].body = version[s], ![m].links = LinksOn[s][version[s]]]
    BY <1>3 DEF ReadSource
  <2> DEFINE r == [miner[m] EXCEPT !.pc = "links", !.todo = @ \ {s}, !.src = s,
                                   !.body = version[s], !.links = LinksOn[s][version[s]]]
  <2>2. miner[m] \in MinerState
    BY DEF LocalsOK
  <2>3. s \in Sources /\ version[s] \in {1, 2} /\ LinksOn[s][version[s]] \in SUBSET Candidates
    BY <2>2 DEF MinerState, TablesOK, AdminShape
  <2>4. r \in MinerState /\ r.pc = "links" /\ r.body \in {1, 2}
    BY <2>2, <2>3, SourceTaken
  <2>5. LocalsOK'
    <3>1. miner' = [miner EXCEPT ![m] = r]
      BY <2>1
    <3> QED
      BY <3>1, <2>4, LocalsStep
  <2> QED
    BY <1>3, <2>5 DEF ReadSource, QueueOK, TablesOK, AdminShape, queue, crawl, table, bounds
<1>4. CASE EnqueueLink(m)
  <2>1. PICK c \in miner[m].links : Enqueue(m, c) /\ miner' = [miner EXCEPT ![m].links = @ \ {c}]
    BY <1>4 DEF EnqueueLink
  <2>2. c \in Candidates
    BY DEF LocalsOK, MinerState
  <2>3. QueueOK'
    BY <2>1, <2>2, EnqueueType
  <2>4. LocalsOK'
    BY <2>1, LinkTaken
  <2> QED
    BY <1>4, <2>3, <2>4 DEF EnqueueLink, TablesOK, AdminShape, crawl, table, bounds
<1>5. CASE Checkpoint(m)
  <2>1. miner[m] \in MinerState /\ (miner[m].src # NoSource => miner[m].body \in {1, 2})
    BY <1>5 DEF LocalsOK, SourceShape, Checkpoint
  <2>2. CASE miner[m].src = NoSource
    <3>1. Goto(m, "due") /\ UNCHANGED <<source, seenLinks>> /\ dirDue' = FALSE
      BY <1>5, <2>2 DEF Checkpoint
    <3>2. LocalsOK'
      BY <3>1, GotoType, <2>2
    <3> QED
      BY <1>5, <3>1, <3>2 DEF Checkpoint, QueueOK, TablesOK, AdminShape, queue, crawl, table, bounds
  <2>3. CASE miner[m].src # NoSource
    <3> DEFINE r == [miner[m] EXCEPT !.pc = "cached", !.src = NoSource]
    <3>1. miner[m].src \in Sources /\ LinksOn[miner[m].src][miner[m].body] \subseteq Candidates
      BY <2>1, <2>3 DEF MinerState
    <3>2. miner' = [miner EXCEPT ![m] = r]
      BY <1>5, <2>3 DEF Checkpoint
    <3>3. r \in MinerState /\ r.pc = "cached" /\ r.src = NoSource
      BY <2>1 DEF MinerState
    <3>4. LocalsOK'
      BY <3>2, <3>3, LocalsStep
    <3>5. TablesOK'
      BY <1>5, <2>1, <2>3, <3>1 DEF Checkpoint, TablesOK, AdminShape, crawl, table, bounds
    <3> QED
      BY <1>5, <3>4, <3>5 DEF Checkpoint, QueueOK, queue
  <2> QED
    BY <2>2, <2>3
<1>6. CASE VisitDirectory(m)
  <2>1. miner[m] \in MinerState /\ miner[m].src = NoSource
    BY <1>6 DEF LocalsOK, SourceShape, VisitDirectory, At
  <2>2. CASE /\ miner' = [miner EXCEPT ![m].pc = "links", ![m].links = Directory]
             /\ behind' = {c \in Profiles : cand[c] # "absent"}
             /\ UNCHANGED <<dirDue, bounds>>
    <3> DEFINE r == [miner[m] EXCEPT !.pc = "links", !.links = Directory]
    <3>1. r \in MinerState /\ r.pc = "links" /\ r.src = NoSource
      BY <2>1 DEF MinerState
    <3>2. LocalsOK'
      <4>1. miner' = [miner EXCEPT ![m] = r]
        BY <2>2
      <4> QED
        BY <4>1, <3>1, LocalsStep
    <3> QED
      BY <1>6, <2>2, <3>2 DEF VisitDirectory, QueueOK, TablesOK, AdminShape, crawl, table, bounds
  <2>3. CASE /\ faults < MaxFaults /\ faults' = faults + 1
             /\ \/ dirDue' = FALSE /\ Goto(m, "due")
                \/ UNCHANGED dirDue /\ Goto(m, "finish")
             /\ UNCHANGED <<behind, changes, audits>>
    <3>1. LocalsOK'
      BY <2>1, <2>3, GotoType
    <3>2. QueueOK'
      BY <1>6, <2>3 DEF VisitDirectory, QueueOK
    <3>3. TablesOK'
      <4>1. faults' \in 0..MaxFaults
        BY <2>3, FaultCounted DEF TablesOK, AdminShape
      <4>2. dirDue' \in BOOLEAN
        BY <2>3 DEF TablesOK, AdminShape
      <4> QED
        BY <1>6, <2>3, <4>1, <4>2 DEF VisitDirectory, TablesOK, AdminShape, crawl, table
    <3> QED
      BY <3>1, <3>2, <3>3
  <2> QED
    BY <1>6, <2>2, <2>3 DEF VisitDirectory
<1>7. CASE OutOfTime(m)
  <2> DEFINE r == [miner[m] EXCEPT !.todo = {}]
  <2>1. miner[m] \in MinerState /\ miner[m].pc = "cached" /\ miner[m].src = NoSource
    BY <1>7 DEF LocalsOK, SourceShape, OutOfTime, At
  <2>2. r \in MinerState /\ r.pc = "cached" /\ r.src = NoSource
    BY <2>1 DEF MinerState
  <2>3. LocalsOK'
    <3>1. miner' = [miner EXCEPT ![m] = r]
      BY <1>7 DEF OutOfTime
    <3> QED
      BY <3>1, <2>2, LocalsStep
  <2> QED
    BY <1>7, <2>3 DEF OutOfTime, QueueOK, TablesOK, AdminShape, queue, crawl, table
<1> QED
  BY <1>1, <1>2, <1>3, <1>4, <1>5, <1>6, <1>7
(* A miner that begins again has forgotten everything.                       *)
LEMMA IdleType ==
  ASSUME LocalsOK, NEW m \in Miners, miner' = [miner EXCEPT ![m] = Idle]
  PROVE  LocalsOK'
<1>1. Idle \in MinerState /\ Idle.pc = "idle"
  BY DEF Idle, MinerState
<1> QED
  BY <1>1, LocalsStep

(* The steps between the sources and the end of a run, and its failures,     *)
(* keep the types.                                                           *)
LEMMA RunSteps ==
  ASSUME QueueOK, TablesOK, LocalsOK, NEW m \in Miners,
         \/ ReadDue(m) \/ Fetched(m) \/ EnqueueChild(m) \/ BatchDone(m) \/ FinishRun(m)
         \/ Close(m) \/ GiveUp(m) \/ Raise(m) \/ Crash(m) \/ Cut(m)
  PROVE  QueueOK' /\ TablesOK' /\ LocalsOK'
<1>1. CASE ReadDue(m)
  <2> DEFINE r == [miner[m] EXCEPT !.pc = "verify", !.batch = {c \in due : cand[c] \in Open}]
  <2>1. miner[m] \in MinerState
    BY DEF LocalsOK
  <2>2. r \in MinerState /\ r.pc = "verify"
    BY <2>1 DEF MinerState, QueueOK
  <2>3. LocalsOK'
    <3>1. miner' = [miner EXCEPT ![m] = r]
      BY <1>1 DEF ReadDue
    <3> QED
      BY <3>1, <2>2, LocalsStep
  <2> QED
    BY <1>1, <2>3 DEF ReadDue, QueueOK, TablesOK, AdminShape, queue, crawl, table, bounds
<1>2. CASE Fetched(m)
  <2>1. PICK c \in miner[m].batch :
          miner' = [miner EXCEPT ![m].pc = "decide", ![m].batch = @ \ {c}, ![m].cand = {c},
                                 ![m].links = IF c \in Profiles THEN ChildrenOf[c] ELSE {}]
    BY <1>2 DEF Fetched
  <2> DEFINE L == IF c \in Profiles THEN ChildrenOf[c] ELSE {}
             y == [miner[m] EXCEPT !.pc = "decide", !.batch = @ \ {c}]
             r == [y EXCEPT !.cand = {c}, !.links = L]
  <2>2. miner[m] \in MinerState
    BY DEF LocalsOK
  <2>3. c \in Candidates /\ L \in SUBSET Candidates
    BY <2>2, MiningAssumption DEF MinerState
  <2>4. y \in MinerState /\ y.pc = "decide"
    BY <2>2 DEF MinerState
  <2>5. miner' = [miner EXCEPT ![m] = r]
    BY <2>1
  <2> HIDE DEF L, y
  <2>6. r \in MinerState /\ r.pc = "decide"
    BY <2>3, <2>4 DEF MinerState
  <2>7. LocalsOK'
    BY <2>5, <2>6, LocalsStep
  <2> QED
    BY <1>2, <2>7 DEF Fetched, QueueOK, TablesOK, AdminShape, queue, crawl, table, bounds
<1>3. CASE EnqueueChild(m)
  <2>1. PICK c \in miner[m].links : Enqueue(m, c) /\ miner' = [miner EXCEPT ![m].links = @ \ {c}]
    BY <1>3 DEF EnqueueChild
  <2>2. c \in Candidates
    BY DEF LocalsOK, MinerState
  <2>3. QueueOK' /\ LocalsOK'
    BY <2>1, <2>2, EnqueueType, LinkTaken
  <2> QED
    BY <1>3, <2>3 DEF EnqueueChild, TablesOK, AdminShape, crawl, table, bounds
<1>4. CASE BatchDone(m) \/ FinishRun(m)
  <2>1. LocalsOK'
    BY <1>4, GotoType DEF BatchDone, FinishRun
  <2> QED
    BY <1>4, <2>1 DEF BatchDone, FinishRun, QueueOK, TablesOK, AdminShape, queue, crawl, table, bounds
<1>5. CASE Close(m) \/ GiveUp(m)
  <2>1. LocalsOK'
    BY <1>5, IdleType DEF Close, GiveUp
  <2> QED
    BY <1>5, <2>1 DEF Close, GiveUp, QueueOK, TablesOK, AdminShape, queue, crawl, table, bounds
<1>6. CASE Raise(m) \/ Cut(m)
  <2>1. LocalsOK'
    BY <1>6, GotoType DEF Raise, Cut
  <2>2. faults' \in 0..MaxFaults
    BY <1>6, FaultCounted DEF Raise, Cut, TablesOK, AdminShape
  <2> QED
    BY <1>6, <2>1, <2>2 DEF Raise, Cut, QueueOK, TablesOK, AdminShape, queue, crawl, table, bounds
<1>7. CASE Crash(m)
  <2>1. LocalsOK'
    BY <1>7, IdleType DEF Crash
  <2>2. faults' \in 0..MaxFaults
    BY <1>7, FaultCounted DEF Crash, TablesOK, AdminShape
  <2> QED
    BY <1>7, <2>1, <2>2 DEF Crash, QueueOK, TablesOK, AdminShape, queue, crawl, table, bounds
<1> QED
  BY <1>1, <1>2, <1>3, <1>4, <1>5, <1>6, <1>7

(* A miner that is done with a candidate goes on to the next.                *)
LEMMA DecidedType ==
  ASSUME LocalsOK, NEW m \in Miners, NEW c, NEW added \in SUBSET Urls, Deciding(m, c, added)
  PROVE  LocalsOK'
<1> DEFINE r == [miner[m] EXCEPT !.pc = "verify", !.cand = {}, !.known = @ \cup added]
<1>1. miner' = [miner EXCEPT ![m] = r]
  BY DEF Deciding
<1>2. miner[m] \in MinerState
  BY DEF LocalsOK
<1>3. r \in MinerState /\ r.pc = "verify"
  BY <1>2 DEF MinerState
<1> QED
  BY <1>1, <1>3, LocalsStep

(* What a miner decides about a candidate keeps the types.                   *)
LEMMA CandidateSteps ==
  ASSUME QueueOK, TablesOK, LocalsOK, NEW m \in Miners, NEW c \in Candidates,
         Unreachable(m, c) \/ Doubtful(m, c) \/ ApproveBundle(m, c) \/ BudgetExceeded(m, c)
  PROVE  QueueOK' /\ TablesOK' /\ LocalsOK'
<1>1. CASE Unreachable(m, c)
  <2>1. QueueOK'
    <3>1. SaveResult(c, RetryStatus(c), {}, TRUE) /\ RetryStatus(c) \in {"retry", "review"}
      BY <1>1 DEF Unreachable, RetryStatus
    <3>2. RetryStatus(c) = "retry" => attempts[c] < 2
      BY DEF RetryStatus, QueueOK
    <3> QED
      BY <3>1, <3>2, ResultType
  <2>2. LocalsOK'
    BY <1>1, DecidedType DEF Unreachable
  <2>3. faults' \in 0..MaxFaults
    BY <1>1, FaultCounted DEF Unreachable, TablesOK, AdminShape
  <2> QED
    BY <1>1, <2>1, <2>2, <2>3 DEF Unreachable, Deciding, TablesOK, AdminShape, table
<1>2. CASE Doubtful(m, c)
  <2>1. PICK pages \in SUBSET Urls : SaveResult(c, "review", pages, TRUE)
    BY <1>2 DEF Doubtful, Bundles
  <2>2. QueueOK'
    BY <2>1, ResultType
  <2>3. LocalsOK'
    BY <1>2, DecidedType DEF Doubtful
  <2> QED
    BY <1>2, <2>2, <2>3 DEF Doubtful, Deciding, TablesOK, AdminShape, bounds, table
<1>3. CASE ApproveBundle(m, c)
  <2>0. OwnerOf[c] \in Researchers
    BY <1>3, MiningAssumption DEF ApproveBundle, Confirmed
  <2>1. PICK b \in Bundles :
          \/ /\ Deciding(m, c, b) /\ SaveResult(c, "approved", b, TRUE)
             /\ urls' = urls \cup {<<OwnerOf[c], p>> : p \in b}
          \/ Deciding(m, c, {}) /\ SaveResult(c, "review", b, TRUE) /\ UNCHANGED urls
    BY <1>3 DEF ApproveBundle
  <2>2. b \in SUBSET Urls
    BY DEF Bundles
  <2>3. QueueOK'
    BY <2>1, <2>2, ResultType
  <2>4. LocalsOK'
    BY <2>1, <2>2, DecidedType
  <2>5. urls' \subseteq Researchers \X Urls /\ dead' \subseteq urls'
    <3>1. urls \subseteq Researchers \X Urls /\ dead \subseteq urls /\ dead' = dead
      BY <1>3 DEF ApproveBundle, TablesOK
    <3>2. urls \subseteq urls' /\ urls' \subseteq urls \cup {<<OwnerOf[c], p>> : p \in b}
      BY <2>1
    <3>3. {<<OwnerOf[c], p>> : p \in b} \subseteq Researchers \X Urls
      BY <2>0, <2>2
    <3> QED
      BY <3>1, <3>2, <3>3
  <2>6. UNCHANGED <<disc, searching, admin, version, source, dirDue, holder, running, seenLinks, bounds>>
    BY <1>3, <2>1 DEF Deciding, ApproveBundle
  <2> QED
    BY <2>3, <2>4, <2>5, <2>6 DEF TablesOK, AdminShape, bounds
<1>4. CASE BudgetExceeded(m, c)
  <2>1. QueueOK'
    BY <1>4, ResultType DEF BudgetExceeded
  <2>2. LocalsOK'
    BY <1>4, GotoType DEF BudgetExceeded
  <2>3. faults' \in 0..MaxFaults
    BY <1>4, FaultCounted DEF BudgetExceeded, TablesOK, AdminShape
  <2> QED
    BY <1>4, <2>1, <2>2, <2>3 DEF BudgetExceeded, TablesOK, AdminShape, crawl, table
<1> QED
  BY <1>1, <1>2, <1>3, <1>4
(* The steps of the search, of people, of time and of the web keep the types. *)
LEMMA OutsideSteps ==
  ASSUME QueueOK, TablesOK, LocalsOK,
         \/ \E r \in Researchers : Search(r) \/ StartApproval(r) \/ RejectDiscovery(r)
         \/ StartSearch \/ SearchQuota \/ ApprovalAdds \/ EndApproval \/ ApprovalDies
         \/ \E row \in urls : Deactivate(row) \/ Reactivate(row)
         \/ \E c \in Candidates : Audit(c) \/ CandidateDue(c)
         \/ \E s \in Sources : PageChanges(s)
         \/ DirectoryDue
  PROVE  QueueOK' /\ TablesOK' /\ LocalsOK'
<1>0. UNCHANGED miner => LocalsOK'
  BY DEF LocalsOK, SourceShape, At
<1>1. ASSUME NEW r \in Researchers, Search(r) PROVE QueueOK' /\ TablesOK' /\ LocalsOK'
  BY <1>0, <1>1 DEF Search, Verdict, QueueOK, TablesOK, AdminShape, queue, bounds, table
<1>2. ASSUME NEW r \in Researchers, StartApproval(r) PROVE QueueOK' /\ TablesOK' /\ LocalsOK'
  <2>1. admin' \in [of : Researchers \cup {Nobody}, next : Nat \ {0}] /\ AdminShape'
    BY <1>2 DEF StartApproval, AdminShape
  <2>2. audits' \in 0..MaxAudits
    BY <1>2, MiningAssumption DEF StartApproval, TablesOK, AdminShape
  <2> QED
    BY <1>0, <1>2, <2>1, <2>2 DEF StartApproval, QueueOK, TablesOK, AdminShape, queue, table
<1>3. ASSUME NEW r \in Researchers, RejectDiscovery(r) PROVE QueueOK' /\ TablesOK' /\ LocalsOK'
  <2>1. audits' \in 0..MaxAudits
    BY <1>3, MiningAssumption DEF RejectDiscovery, TablesOK, AdminShape
  <2> QED
    BY <1>0, <1>3, <2>1 DEF RejectDiscovery, QueueOK, TablesOK, AdminShape, queue, table
<1>4. CASE StartSearch \/ DirectoryDue
  BY <1>0, <1>4, MiningAssumption DEF StartSearch, DirectoryDue, QueueOK, TablesOK, AdminShape, queue, crawl, table, bounds
<1>5. CASE SearchQuota \/ ApprovalDies
  <2>1. faults' \in 0..MaxFaults
    BY <1>5, FaultCounted DEF SearchQuota, ApprovalDies, TablesOK, AdminShape
  <2>2. admin' \in [of : Researchers \cup {Nobody}, next : Nat \ {0}] /\ AdminShape'
    BY <1>5 DEF SearchQuota, ApprovalDies, TablesOK, AdminShape, NoAdmin
  <2> QED
    BY <1>0, <1>5, <2>1, <2>2 DEF SearchQuota, ApprovalDies, QueueOK, TablesOK, AdminShape, queue, table
<1>6. CASE ApprovalAdds
  <2>1. admin.of \in Researchers /\ Finds[admin.of] \in Seq(Urls) /\ admin.next \in DOMAIN Finds[admin.of]
    BY <1>6, MiningAssumption DEF ApprovalAdds, TablesOK, AdminShape
  <2>2. /\ urls' = urls \cup {<<admin.of, Finds[admin.of][admin.next]>>}
        /\ admin' = [admin EXCEPT !.next = @ + 1] /\ UNCHANGED dead
    BY <1>6 DEF ApprovalAdds
  <2>3. urls' \subseteq Researchers \X Urls /\ dead' \subseteq urls'
    BY <2>1, <2>2 DEF TablesOK
  <2>4. admin' \in [of : Researchers \cup {Nobody}, next : Nat \ {0}] /\ AdminShape'
    <3>1. admin \in [of : Researchers \cup {Nobody}, next : Nat \ {0}]
      BY DEF TablesOK
    <3>2. admin'.of = admin.of /\ admin' \in [of : Researchers \cup {Nobody}, next : Nat \ {0}]
      BY <2>2, <3>1
    <3>3. Finds[admin.of] # <<>>
      BY <2>1
    <3> QED
      BY <2>1, <3>2, <3>3 DEF AdminShape
  <2> QED
    BY <1>0, <1>6, <2>3, <2>4 DEF ApprovalAdds, QueueOK, TablesOK, AdminShape, queue, bounds
<1>7. CASE EndApproval
  <2>1. admin' \in [of : Researchers \cup {Nobody}, next : Nat \ {0}] /\ AdminShape'
    BY <1>7 DEF EndApproval, AdminShape, NoAdmin
  <2>2. disc' \in [Researchers -> {"absent", "pending", "no_result", "approved", "rejected"}]
    BY <1>7 DEF EndApproval, TablesOK, AdminShape
  <2> QED
    BY <1>0, <1>7, <2>1, <2>2 DEF EndApproval, QueueOK, TablesOK, AdminShape, queue, bounds, table
<1>8. ASSUME NEW c \in Candidates, Audit(c) PROVE QueueOK' /\ TablesOK' /\ LocalsOK'
  <2>1. audits' \in 0..MaxAudits
    BY <1>8, MiningAssumption DEF Audit, TablesOK, AdminShape
  <2>2. QueueOK'
    BY <1>8 DEF Audit, QueueOK, Statuses, Open
  <2> QED
    BY <1>0, <1>8, <2>1, <2>2 DEF Audit, TablesOK, AdminShape, crawl, table
<1>9. ASSUME NEW c \in Candidates, CandidateDue(c) PROVE QueueOK' /\ TablesOK' /\ LocalsOK'
  BY <1>0, <1>9 DEF CandidateDue, QueueOK, TablesOK, AdminShape, crawl, table, bounds
<1>10. ASSUME NEW s \in Sources, PageChanges(s) PROVE QueueOK' /\ TablesOK' /\ LocalsOK'
  <2>1. changes' \in 0..MaxChanges
    BY <1>10, MiningAssumption DEF PageChanges, TablesOK, AdminShape
  <2>2. version' \in [Sources -> {1, 2}]
    BY <1>10 DEF PageChanges, TablesOK, AdminShape
  <2> QED
    BY <1>0, <1>10, <2>1, <2>2 DEF PageChanges, QueueOK, TablesOK, AdminShape, queue, crawl, table
<1>11. ASSUME NEW row \in urls, Deactivate(row) \/ Reactivate(row) PROVE QueueOK' /\ TablesOK' /\ LocalsOK'
  <2>1. dead' \subseteq urls' /\ UNCHANGED urls
    BY <1>11 DEF Deactivate, Reactivate, TablesOK
  <2>2. faults' \in 0..MaxFaults /\ audits' \in 0..MaxAudits
    BY <1>11, FaultCounted, MiningAssumption DEF Deactivate, Reactivate, TablesOK
  <2> QED
    BY <1>0, <1>11, <2>1, <2>2 DEF Deactivate, Reactivate, QueueOK, TablesOK, AdminShape, queue
<1> QED
  BY <1>1, <1>2, <1>3, <1>4, <1>5, <1>6, <1>7, <1>8, <1>9, <1>10, <1>11

LEMMA InitTypes == Init => TypeInv
<1> SUFFICES ASSUME Init PROVE QueueOK /\ TablesOK /\ LocalsOK
  BY TypeInvParts
<1> USE MiningAssumption DEF Init
<1>1. QueueOK
  BY DEF QueueOK, Statuses, Open
<1>2. TablesOK
  BY DEF TablesOK, AdminShape, NoAdmin
<1>3. LocalsOK
  BY DEF LocalsOK, MinerState, Idle, SourceShape, At
<1> QED
  BY <1>1, <1>2, <1>3

LEMMA NextTypes == TypeInv /\ [Next]_vars => TypeInv'
<1> SUFFICES ASSUME QueueOK, TablesOK, LocalsOK, [Next]_vars PROVE QueueOK' /\ TablesOK' /\ LocalsOK'
  BY TypeInvParts DEF TypeInv, TypeOK, QueueOK, TablesOK, LocalsOK, MinerState
<1>1. ASSUME NEW m \in Miners, Step(m) \/ Raise(m) \/ Crash(m) \/ Cut(m) \/ OutOfTime(m)
      PROVE  QueueOK' /\ TablesOK' /\ LocalsOK'
  BY <1>1, SourceSteps, RunSteps, CandidateSteps DEF Step
<1>2. ASSUME NEW m \in Miners, NEW c \in Candidates, BudgetExceeded(m, c)
      PROVE  QueueOK' /\ TablesOK' /\ LocalsOK'
  BY <1>2, CandidateSteps
<1>3. CASE UNCHANGED vars
  BY <1>3 DEF vars, crawl, table, queue, bounds, QueueOK, TablesOK, LocalsOK, AdminShape, SourceShape, At
<1> QED
  BY <1>1, <1>2, <1>3, OutsideSteps DEF Next

(* The variables of the miner and of the searches always have their types,   *)
(* whatever crashes, cuts and decisions of people come in between.           *)
THEOREM MiningTypeCorrect == Spec => []TypeOK
<1>1. TypeInv => TypeOK
  BY DEF TypeInv
<1> QED
  BY InitTypes, NextTypes, <1>1, PTL DEF Spec
---------------------------------------------------------------------------
(* Links. *)

(* What has a row keeps it, and what is scraped stays.                       *)
LEMMA Grows ==
  ASSUME TypeInv, [Next]_vars
  PROVE  urls \subseteq urls' /\ \A c \in Candidates : cand[c] # "absent" => cand'[c] # "absent"
<1> DEFINE Grow == urls \subseteq urls' /\ \A c \in Candidates : cand[c] # "absent" => cand'[c] # "absent"
<1>0. cand \in [Candidates -> Statuses]
  BY DEF TypeInv, TypeOK
<1>1. ASSUME NEW m, NEW c, Enqueue(m, c), UNCHANGED urls PROVE Grow
  BY <1>0, <1>1 DEF Enqueue, queue
<1>2. ASSUME NEW c, NEW status, status # "absent", NEW pages, NEW counted,
             SaveResult(c, status, pages, counted), urls \subseteq urls'
      PROVE  Grow
  BY <1>0, <1>2 DEF SaveResult, queue
<1>3. ASSUME NEW m \in Miners,
             \/ Enter(m) \/ StartRun(m) \/ ReadTables(m) \/ ReadSource(m) \/ Checkpoint(m)
             \/ SkipDirectory(m) \/ VisitDirectory(m) \/ ReadDue(m) \/ Fetched(m) \/ BatchDone(m)
             \/ FinishRun(m) \/ Close(m) \/ GiveUp(m) \/ Raise(m) \/ Crash(m) \/ Cut(m) \/ OutOfTime(m)
      PROVE  Grow
  BY <1>3 DEF Enter, StartRun, ReadTables, ReadSource, Checkpoint, SkipDirectory, VisitDirectory, ReadDue,
              Fetched, BatchDone, FinishRun, Close, GiveUp, Raise, Crash, Cut, OutOfTime, queue, crawl, table
<1>4. ASSUME NEW m \in Miners, EnqueueLink(m) \/ EnqueueChild(m) PROVE Grow
  BY <1>1, <1>4 DEF EnqueueLink, EnqueueChild, crawl, table
<1>5. ASSUME NEW m \in Miners, NEW c \in Candidates,
             Unreachable(m, c) \/ Doubtful(m, c) \/ ApproveBundle(m, c) \/ BudgetExceeded(m, c)
      PROVE  Grow
  <2>1. CASE Unreachable(m, c)
    BY <1>2, <2>1 DEF Unreachable, RetryStatus, table
  <2>2. CASE Doubtful(m, c)
    BY <1>2, <2>2 DEF Doubtful, table
  <2>3. CASE ApproveBundle(m, c)
    BY <1>2, <2>3 DEF ApproveBundle
  <2>4. CASE BudgetExceeded(m, c)
    BY <1>2, <2>4 DEF BudgetExceeded, crawl, table
  <2> QED
    BY <1>5, <2>1, <2>2, <2>3, <2>4
<1>6. ASSUME NEW r \in Researchers, Search(r) \/ StartApproval(r) \/ RejectDiscovery(r) PROVE Grow
  BY <1>6 DEF Search, StartApproval, RejectDiscovery, queue, table
<1>7. CASE \/ StartSearch \/ SearchQuota \/ ApprovalAdds \/ EndApproval \/ ApprovalDies \/ DirectoryDue
          \/ UNCHANGED vars
  BY <1>7 DEF StartSearch, SearchQuota, ApprovalAdds, EndApproval, ApprovalDies, DirectoryDue, vars, queue,
              crawl, table
<1>8. ASSUME NEW c \in Candidates, Audit(c) \/ CandidateDue(c) PROVE Grow
  BY <1>0, <1>8 DEF Audit, CandidateDue, crawl, table
<1>9. ASSUME NEW s \in Sources, PageChanges(s) PROVE Grow
  BY <1>9 DEF PageChanges, queue, crawl, table
<1>10. ASSUME NEW row \in urls, Deactivate(row) \/ Reactivate(row) PROVE Grow
  BY <1>10 DEF Deactivate, Reactivate, queue
<1> QED
  BY <1>3, <1>4, <1>5, <1>6, <1>7, <1>8, <1>9, <1>10 DEF Next, Step

(* A miner knows only URLs that are listed, and has queued the links of    *)
(* the source it reads but those it still has to.                            *)
Knows(m) == miner[m].known \subseteq {u[2] : u \in urls}

Queued(m) ==
  At(m, "links") /\ miner[m].src # NoSource =>
    \A c \in LinksOn[miner[m].src][miner[m].body] \ miner[m].links :
      Wanted(m, c) => cand[c] # "absent"

LinkInv == LinksNeverLost /\ \A m \in Miners : Knows(m) /\ Queued(m)

(* A step of one miner that checkpoints nothing.                             *)
LEMMA LinkStep ==
  ASSUME TypeInv, LinkInv, [Next]_vars, UNCHANGED <<source, seenLinks>>, NEW m \in Miners,
         \A n \in Miners \ {m} : miner'[n] = miner[n],
         Knows(m)', Queued(m)'
  PROVE  LinkInv'
<1>0. urls \subseteq urls' /\ \A c \in Candidates : cand[c] # "absent" => cand'[c] # "absent"
  BY Grows
<1>1. LinksNeverLost'
  BY <1>0 DEF LinkInv, LinksNeverLost, TypeInv, TypeOK
<1>2. ASSUME NEW n \in Miners, n # m PROVE Knows(n)' /\ Queued(n)'
  <2>1. miner'[n] = miner[n] /\ miner[n] \in MinerState /\ SourceShape(n) /\ Knows(n) /\ Queued(n)
    BY <1>2 DEF LinkInv, TypeInv, TypeOK, MinerState
  <2>2. Knows(n)'
    BY <1>0, <2>1 DEF Knows
  <2>3. Queued(n)'
    BY <1>0, <2>1, MiningAssumption DEF Queued, At, Wanted, MinerState, SourceShape
  <2> QED
    BY <2>2, <2>3
<1> QED
  BY <1>1, <1>2 DEF LinkInv
(* A step of one miner to where no link is at hand, that learns no site.     *)
LEMMA AwayStep ==
  ASSUME TypeInv, LinkInv, [Next]_vars, UNCHANGED <<source, seenLinks>>, NEW m \in Miners,
         NEW r, miner' = [miner EXCEPT ![m] = r], r.pc # "links" \/ r.src = NoSource,
         r.known \subseteq miner[m].known \cup {u[2] : u \in urls'}
  PROVE  LinkInv'
<1>1. miner'[m] = r /\ \A n \in Miners \ {m} : miner'[n] = miner[n]
  BY DEF TypeInv, TypeOK
<1>2. Knows(m)'
  BY <1>1, Grows DEF LinkInv, Knows
<1>3. Queued(m)'
  BY <1>1 DEF Queued, At
<1> QED
  BY <1>1, <1>2, <1>3, LinkStep

(* A step that leaves miners and checkpoints alone.                          *)
LEMMA OutsideStep ==
  ASSUME TypeInv, LinkInv, [Next]_vars, UNCHANGED <<source, seenLinks, miner>>
  PROVE  LinkInv'
<1>0. urls \subseteq urls' /\ \A c \in Candidates : cand[c] # "absent" => cand'[c] # "absent"
  BY Grows
<1>1. LinksNeverLost'
  BY <1>0 DEF LinkInv, LinksNeverLost, TypeInv, TypeOK
<1>2. ASSUME NEW n \in Miners PROVE Knows(n)' /\ Queued(n)'
  <2>1. miner'[n] = miner[n] /\ miner[n] \in MinerState /\ SourceShape(n) /\ Knows(n) /\ Queued(n)
    BY <1>2 DEF LinkInv, TypeInv, TypeOK, MinerState
  <2>2. Knows(n)'
    BY <1>0, <2>1 DEF Knows
  <2>3. Queued(n)'
    BY <1>0, <2>1, MiningAssumption DEF Queued, At, Wanted, MinerState, SourceShape
  <2> QED
    BY <2>2, <2>3
<1> QED
  BY <1>1, <1>2 DEF LinkInv

(* A link is queued: either it has a row now, or it is not wanted.           *)
LEMMA EnqueueLinkStep ==
  ASSUME TypeInv, LinkInv, [Next]_vars, UNCHANGED <<source, seenLinks>>, NEW m \in Miners,
         NEW c \in miner[m].links, Enqueue(m, c), miner' = [miner EXCEPT ![m].links = @ \ {c}]
  PROVE  LinkInv'
<1> DEFINE r == [miner[m] EXCEPT !.links = @ \ {c}]
<1>0. miner[m] \in MinerState /\ c \in Candidates /\ SourceShape(m) /\ cand \in [Candidates -> Statuses]
  BY DEF TypeInv, TypeOK, MinerState
<1>1. miner' = [miner EXCEPT ![m] = r]
  OBVIOUS
<1>2. miner'[m] = r /\ \A n \in Miners \ {m} : miner'[n] = miner[n]
  BY <1>1 DEF TypeInv, TypeOK
<1>3. r.pc = miner[m].pc /\ r.src = miner[m].src /\ r.body = miner[m].body
        /\ r.known = miner[m].known /\ r.links = miner[m].links \ {c}
  BY <1>0 DEF MinerState
<1> HIDE DEF r
<1>4. Knows(m)'
  BY <1>2, <1>3, Grows DEF LinkInv, Knows
<1>5. Wanted(m, c) => cand'[c] # "absent"
  BY <1>0 DEF Enqueue, queue
<1>6. Queued(m)'
  <2> SUFFICES ASSUME r.pc = "links", r.src # NoSource,
                      NEW d \in LinksOn[r.src][r.body] \ r.links, Wanted(m, d)
               PROVE  cand'[d] # "absent"
    BY <1>2, <1>3 DEF Queued, At, Wanted
  <2>1. d \in Candidates
    BY <1>0, <1>3, MiningAssumption DEF SourceShape, At, MinerState
  <2> QED
    BY <2>1, <1>3, <1>5, Grows DEF LinkInv, Queued, At
<1> QED
  BY <1>2, <1>4, <1>6, LinkStep

(* The checkpoint of a source comes after all of its links.                  *)
LEMMA CheckpointStep ==
  ASSUME TypeInv, LinkInv, [Next]_vars, NEW m \in Miners, Checkpoint(m)
  PROVE  LinkInv'
<1>0. /\ miner[m] \in MinerState /\ SourceShape(m) /\ Knows(m) /\ Queued(m) /\ miner[m].links = {}
      /\ urls' = urls /\ cand' = cand /\ source \in [Sources -> 0..2]
  BY DEF TypeInv, TypeOK, MinerState, LinkInv, Checkpoint, queue, crawl, table
<1>1. CASE miner[m].src = NoSource
  <2> DEFINE r == [miner[m] EXCEPT !.pc = "due"]
  <2>1. miner' = [miner EXCEPT ![m] = r] /\ UNCHANGED <<source, seenLinks>>
    BY <1>1 DEF Checkpoint, Goto
  <2>2. r.pc = "due" /\ r.known = miner[m].known
    BY <1>0 DEF MinerState
  <2> QED
    BY <2>1, <2>2, AwayStep
<1>2. CASE miner[m].src # NoSource
  <2> DEFINE L == LinksOn[miner[m].src][miner[m].body]
             r == [miner[m] EXCEPT !.pc = "cached", !.src = NoSource]
  <2>1. /\ source' = [source EXCEPT ![miner[m].src] = miner[m].body]
        /\ seenLinks' = seenLinks \cup {c \in L : Wanted(m, c)}
        /\ miner' = [miner EXCEPT ![m] = r]
    BY <1>2 DEF Checkpoint
  <2>2. miner[m].src \in Sources /\ L \subseteq Candidates
    BY <1>0, <1>2, MiningAssumption DEF MinerState, SourceShape, Checkpoint
  <2>3. \A c \in L : Wanted(m, c) => cand[c] # "absent"
    BY <1>0, <1>2 DEF Queued, Checkpoint
  <2>4. \A c \in L : cand[c] # "absent" \/ \E u \in urls : u[2] = UrlOf[c]
    BY <2>3, <1>0 DEF Wanted, Knows
  <2>5. LinksNeverLost'
    <3>1. \A c \in seenLinks' : cand'[c] # "absent"
      BY <1>0, <2>1, <2>3 DEF LinkInv, LinksNeverLost
    <3>2. ASSUME NEW s \in Sources, NEW c \in Candidates,
                 source'[s] # 0, c \in LinksOn[s][source'[s]], cand'[c] = "absent"
          PROVE  \E u \in urls' : u[2] = UrlOf[c]
      <4>1. CASE s = miner[m].src
        BY <1>0, <2>1, <2>2, <2>4, <3>2, <4>1
      <4>2. CASE s # miner[m].src
        BY <1>0, <2>1, <3>2, <4>2 DEF LinkInv, LinksNeverLost
      <4> QED
        BY <4>1, <4>2
    <3> QED
      BY <3>1, <3>2 DEF LinksNeverLost
  <2>6. ASSUME NEW n \in Miners PROVE Knows(n)' /\ Queued(n)'
    <3>1. r.pc = "cached" /\ r.known = miner[m].known
      BY <1>0 DEF MinerState
    <3>2. miner'[n] = IF n = m THEN r ELSE miner[n]
      BY <2>1 DEF TypeInv, TypeOK
    <3> HIDE DEF r
    <3> QED
      BY <1>0, <3>1, <3>2 DEF LinkInv, Knows, Queued, At, Wanted
  <2> QED
    BY <2>5, <2>6 DEF LinkInv
<1> QED
  BY <1>1, <1>2
(* Every step of a miner's run keeps the links.                              *)
LEMMA LinkRunSteps ==
  ASSUME TypeInv, LinkInv, [Next]_vars, NEW m \in Miners,
         \/ Enter(m) \/ StartRun(m) \/ ReadTables(m) \/ ReadSource(m) \/ EnqueueLink(m)
         \/ Checkpoint(m) \/ SkipDirectory(m) \/ VisitDirectory(m) \/ ReadDue(m) \/ Fetched(m)
         \/ EnqueueChild(m) \/ BatchDone(m) \/ FinishRun(m) \/ Close(m) \/ GiveUp(m)
         \/ Raise(m) \/ Crash(m) \/ Cut(m) \/ OutOfTime(m)
  PROVE  LinkInv'
<1>0. miner[m] \in MinerState
  BY DEF TypeInv, TypeOK, MinerState
<1>1. CASE ReadTables(m)
  <2> DEFINE r == [Idle EXCEPT !.pc = "cached", !.known = {u[2] : u \in urls},
                               !.todo = {s \in Sources : source[s] # version[s]}]
  <2>1. miner' = [miner EXCEPT ![m] = r] /\ UNCHANGED <<source, seenLinks>>
    BY <1>1 DEF ReadTables, Goto
  <2>2. (r.pc # "links" \/ r.src = NoSource) /\ r.known \subseteq {u[2] : u \in urls'}
    BY <1>0, <1>1 DEF Idle, ReadTables, crawl, table
  <2> QED
    BY <2>1, <2>2, AwayStep
<1>2. CASE OutOfTime(m)
  <2> DEFINE r == [miner[m] EXCEPT !.todo = {}]
  <2>1. miner' = [miner EXCEPT ![m] = r] /\ UNCHANGED <<source, seenLinks>>
    BY <1>2 DEF OutOfTime, Goto
  <2>2. (r.pc # "links" \/ r.src = NoSource) /\ r.known \subseteq miner[m].known
    BY <1>0, <1>2 DEF MinerState, OutOfTime, At
  <2> QED
    BY <2>1, <2>2, AwayStep
<1>3. CASE ReadDue(m)
  <2> DEFINE r == [miner[m] EXCEPT !.pc = "verify", !.batch = {c \in due : cand[c] \in Open}]
  <2>1. miner' = [miner EXCEPT ![m] = r] /\ UNCHANGED <<source, seenLinks>>
    BY <1>3 DEF ReadDue, Goto
  <2>2. (r.pc # "links" \/ r.src = NoSource) /\ r.known \subseteq miner[m].known
    BY <1>0, <1>3 DEF MinerState
  <2> QED
    BY <2>1, <2>2, AwayStep
<1>4. CASE \/ Enter(m) \/ StartRun(m) \/ SkipDirectory(m) \/ BatchDone(m) \/ FinishRun(m) \/ Raise(m)
          \/ Cut(m)
  <2>1. PICK pc \in {"start", "read", "due", "finish", "close", "lost"} : Goto(m, pc)
    BY <1>4 DEF Enter, StartRun, SkipDirectory, BatchDone, FinishRun, Raise, Cut
  <2> DEFINE r == [miner[m] EXCEPT !.pc = pc]
  <2>2. r.pc # "links" /\ r.known \subseteq miner[m].known
    BY <1>0 DEF MinerState
  <2>3. miner' = [miner EXCEPT ![m] = r] /\ UNCHANGED <<source, seenLinks>>
    BY <1>4, <2>1 DEF Enter, StartRun, SkipDirectory, BatchDone, FinishRun, Raise, Cut, Goto
  <2> QED
    BY <2>2, <2>3, AwayStep
<1>5. CASE Close(m) \/ GiveUp(m) \/ Crash(m)
  <2>1. Idle.pc = "idle" /\ Idle.known = {}
    BY DEF Idle
  <2>2. miner' = [miner EXCEPT ![m] = Idle] /\ UNCHANGED <<source, seenLinks>>
    BY <1>5 DEF Close, GiveUp, Crash
  <2> QED
    BY <2>1, <2>2, AwayStep
<1>6. CASE ReadSource(m)
  <2>1. PICK s \in miner[m].todo :
          miner' = [miner EXCEPT ![m].pc = "links", ![m].todo = @ \ {s}, ![m].src = s,
                                 ![m].body = version[s], ![m].links = LinksOn[s][version[s]]]
    BY <1>6 DEF ReadSource
  <2>2. /\ miner'[m].known = miner[m].known /\ miner'[m].links = LinksOn[s][version[s]]
        /\ miner'[m].src = s /\ miner'[m].body = version[s]
        /\ \A n \in Miners \ {m} : miner'[n] = miner[n]
    BY <1>0, <2>1 DEF TypeInv, TypeOK, MinerState
  <2>3. Knows(m)' /\ Queued(m)'
    BY <2>2, Grows DEF LinkInv, Knows, Queued
  <2> QED
    BY <1>6, <2>2, <2>3, LinkStep DEF ReadSource
<1>7. CASE EnqueueLink(m)
  BY <1>7, EnqueueLinkStep DEF EnqueueLink
<1>8. CASE EnqueueChild(m)
  BY <1>8, EnqueueLinkStep DEF EnqueueChild
<1>9. CASE Checkpoint(m)
  BY <1>9, CheckpointStep
<1>10. CASE VisitDirectory(m)
  <2>1. SourceShape(m) /\ miner[m].src = NoSource
    BY <1>10 DEF TypeInv, SourceShape, VisitDirectory
  <2>2. CASE miner' = [miner EXCEPT ![m].pc = "links", ![m].links = Directory]
    <3> DEFINE r == [miner[m] EXCEPT !.pc = "links", !.links = Directory]
    <3>1. r.src = NoSource /\ r.known \subseteq miner[m].known
      BY <1>0, <2>1 DEF MinerState
    <3>2. miner' = [miner EXCEPT ![m] = r] /\ UNCHANGED <<source, seenLinks>>
      BY <1>10, <2>2 DEF VisitDirectory
    <3> QED
      BY <3>1, <3>2, AwayStep
  <2>3. CASE Goto(m, "due") \/ Goto(m, "finish")
    <3>1. PICK pc \in {"due", "finish"} : Goto(m, pc)
      BY <2>3
    <3> DEFINE r == [miner[m] EXCEPT !.pc = pc]
    <3>2. r.pc # "links" /\ r.known \subseteq miner[m].known
      BY <1>0 DEF MinerState
    <3>3. miner' = [miner EXCEPT ![m] = r] /\ UNCHANGED <<source, seenLinks>>
      BY <1>10, <3>1 DEF VisitDirectory, Goto
    <3> QED
      BY <3>2, <3>3, AwayStep
  <2> QED
    BY <1>10, <2>2, <2>3 DEF VisitDirectory
<1>11. CASE Fetched(m)
  <2>1. PICK c \in miner[m].batch :
          miner' = [miner EXCEPT ![m].pc = "decide", ![m].batch = @ \ {c}, ![m].cand = {c},
                                 ![m].links = IF c \in Profiles THEN ChildrenOf[c] ELSE {}]
    BY <1>11 DEF Fetched
  <2>2. /\ miner'[m].known = miner[m].known /\ miner'[m].pc = "decide"
        /\ \A n \in Miners \ {m} : miner'[n] = miner[n]
    BY <1>0, <2>1 DEF TypeInv, TypeOK, MinerState
  <2>3. Knows(m)' /\ Queued(m)'
    BY <2>2, Grows DEF LinkInv, Knows, Queued, At
  <2> QED
    BY <1>11, <2>2, <2>3, LinkStep DEF Fetched
<1> QED
  BY <1>1, <1>2, <1>3, <1>4, <1>5, <1>6, <1>7, <1>8, <1>9, <1>10, <1>11

(* What is decided about a candidate keeps the links.                        *)
LEMMA LinkCandidateSteps ==
  ASSUME TypeInv, LinkInv, [Next]_vars, NEW m \in Miners, NEW c \in Candidates,
         Unreachable(m, c) \/ Doubtful(m, c) \/ ApproveBundle(m, c) \/ BudgetExceeded(m, c)
  PROVE  LinkInv'
<1>0. miner[m] \in MinerState
  BY DEF TypeInv, TypeOK, MinerState
<1>1. ASSUME NEW added, Deciding(m, c, added), added \subseteq {u[2] : u \in urls'} PROVE LinkInv'
  <2> DEFINE r == [miner[m] EXCEPT !.pc = "verify", !.cand = {}, !.known = @ \cup added]
  <2>1. miner' = [miner EXCEPT ![m] = r] /\ UNCHANGED <<source, seenLinks>>
    BY <1>1 DEF Deciding
  <2>2. r.pc # "links" /\ r.known = miner[m].known \cup added
    BY <1>0 DEF MinerState
  <2> QED
    BY <1>1, <2>1, <2>2, AwayStep
<1>2. CASE Unreachable(m, c) \/ Doubtful(m, c)
  BY <1>1, <1>2 DEF Unreachable, Doubtful
<1>3. CASE ApproveBundle(m, c)
  <2>1. CASE Deciding(m, c, {})
    BY <1>1, <2>1
  <2>2. CASE \E b \in Bundles : Deciding(m, c, b) /\ urls' = urls \cup {<<OwnerOf[c], p>> : p \in b}
    <3>1. PICK b \in Bundles : Deciding(m, c, b) /\ urls' = urls \cup {<<OwnerOf[c], p>> : p \in b}
      BY <2>2
    <3>2. b \subseteq {u[2] : u \in urls'}
      <4> SUFFICES ASSUME NEW p \in b PROVE p \in {u[2] : u \in urls'}
        OBVIOUS
      <4>1. <<OwnerOf[c], p>> \in urls' /\ <<OwnerOf[c], p>>[2] = p
        BY <3>1
      <4> QED
        BY <4>1
    <3> QED
      BY <1>1, <3>1, <3>2
  <2> QED
    BY <1>3, <2>1, <2>2 DEF ApproveBundle
<1>4. CASE BudgetExceeded(m, c)
  <2> DEFINE r == [miner[m] EXCEPT !.pc = "finish"]
  <2>1. miner' = [miner EXCEPT ![m] = r] /\ UNCHANGED <<source, seenLinks>>
    BY <1>4 DEF BudgetExceeded, Goto
  <2>2. r.pc # "links" /\ r.known = miner[m].known
    BY <1>0 DEF MinerState
  <2> QED
    BY <2>1, <2>2, AwayStep
<1> QED
  BY <1>2, <1>3, <1>4

LEMMA NextLinks == TypeInv /\ LinkInv /\ [Next]_vars => LinkInv'
<1> SUFFICES ASSUME TypeInv, LinkInv, [Next]_vars PROVE LinkInv'
  OBVIOUS
<1>1. ASSUME NEW m \in Miners, Step(m) \/ Raise(m) \/ Crash(m) \/ Cut(m) \/ OutOfTime(m) PROVE LinkInv'
  BY <1>1, LinkRunSteps, LinkCandidateSteps DEF Step
<1>2. ASSUME NEW m \in Miners, NEW c \in Candidates, BudgetExceeded(m, c) PROVE LinkInv'
  BY <1>2, LinkCandidateSteps
<1>3. ASSUME NEW r \in Researchers, Search(r) \/ StartApproval(r) \/ RejectDiscovery(r) PROVE LinkInv'
  BY <1>3, OutsideStep DEF Search, StartApproval, RejectDiscovery
<1>4. CASE \/ StartSearch \/ SearchQuota \/ ApprovalAdds \/ EndApproval \/ ApprovalDies \/ DirectoryDue
          \/ UNCHANGED vars
  BY <1>4, OutsideStep DEF StartSearch, SearchQuota, ApprovalAdds, EndApproval, ApprovalDies, DirectoryDue, vars
<1>5. ASSUME NEW c \in Candidates, Audit(c) \/ CandidateDue(c) PROVE LinkInv'
  BY <1>5, OutsideStep DEF Audit, CandidateDue
<1>6. ASSUME NEW s \in Sources, PageChanges(s) PROVE LinkInv'
  BY <1>6, OutsideStep DEF PageChanges
<1>7. ASSUME NEW row \in urls, Deactivate(row) \/ Reactivate(row) PROVE LinkInv'
  BY <1>7, OutsideStep DEF Deactivate, Reactivate
<1> QED
  BY <1>1, <1>2, <1>3, <1>4, <1>5, <1>6, <1>7 DEF Next

(* No link is lost: what the checkpointed version of a source links to has a *)
(* row of the queue, or its URL is listed,   whatever crash, error or change *)
(* of the page fell between its reading and its checkpoint.                  *)
THEOREM LinksNeverLostCorrect == Spec => []LinksNeverLost
<1>1. Init => LinkInv
  BY DEF Init, LinkInv, LinksNeverLost, Knows, Queued, At, Idle
<1>2. LinkInv => LinksNeverLost
  BY DEF LinkInv
<1> QED
  BY InitTypes, NextTypes, <1>1, <1>2, NextLinks, PTL DEF Spec
---------------------------------------------------------------------------
(* Approvals and holds. *)

(* An approval under way has added every page before its next.               *)
Added ==
  admin # NoAdmin =>
    \A i \in DOMAIN Finds[admin.of] : i < admin.next => <<admin.of, Finds[admin.of][i]>> \in urls

ApprovalInv == ApprovedIsListed /\ Added

(* Miners, candidates and sources approve no discovery.                      *)
LEMMA QuietApproval ==
  ASSUME TypeInv, ApprovalInv, [Next]_vars, UNCHANGED admin,
         \A r \in Researchers : disc'[r] = "approved" => disc[r] = "approved"
  PROVE  ApprovalInv'
  BY Grows DEF ApprovalInv, ApprovedIsListed, Added

LEMMA NextApproval == TypeInv /\ ApprovalInv /\ [Next]_vars => ApprovalInv'
<1> SUFFICES ASSUME TypeInv, ApprovalInv, [Next]_vars PROVE ApprovalInv'
  OBVIOUS
<1>0. disc \in [Researchers -> {"absent", "pending", "no_result", "approved", "rejected"}]
  BY DEF TypeInv, TypeOK
<1>1. ASSUME NEW m \in Miners, \/ Step(m) \/ Raise(m) \/ Crash(m) \/ Cut(m) \/ OutOfTime(m)
                                \/ \E c \in Candidates : BudgetExceeded(m, c)
      PROVE  ApprovalInv'
  <2>1. ASSUME NEW c, Unreachable(m, c) \/ Doubtful(m, c) \/ ApproveBundle(m, c) \/ BudgetExceeded(m, c)
        PROVE  UNCHANGED <<disc, admin>>
    BY <2>1 DEF Unreachable, Doubtful, ApproveBundle, Deciding, BudgetExceeded, crawl, table
  <2>2. UNCHANGED <<disc, admin>>
    BY <1>1, <2>1 DEF Step, Enter, StartRun, ReadTables, ReadSource, EnqueueLink, Checkpoint, SkipDirectory,
                VisitDirectory, ReadDue, Fetched, EnqueueChild, BatchDone, FinishRun, Close, GiveUp,
                Raise, Crash, Cut, OutOfTime, crawl, table
  <2> QED
    BY <2>2, QuietApproval
<1>2. CASE \/ DirectoryDue \/ UNCHANGED vars \/ (\E s \in Sources : PageChanges(s))
          \/ (\E c \in Candidates : Audit(c) \/ CandidateDue(c))
          \/ \E row \in urls : Deactivate(row) \/ Reactivate(row)
  <2>1. UNCHANGED <<disc, admin>>
    BY <1>2 DEF DirectoryDue, vars, Deactivate, Reactivate, PageChanges, Audit, CandidateDue, crawl, table
  <2> QED
    BY <2>1, QuietApproval
<1>3. ASSUME NEW r \in Researchers, Search(r) \/ RejectDiscovery(r) PROVE ApprovalInv'
  <2>1. UNCHANGED admin /\ \A q \in Researchers : disc'[q] = "approved" => disc[q] = "approved"
    BY <1>0, <1>3 DEF Search, Verdict, RejectDiscovery
  <2> QED
    BY <2>1, QuietApproval
<1>4. ASSUME NEW r \in Researchers, StartApproval(r) PROVE ApprovalInv'
  <2>1. admin' = [of |-> r, next |-> 1] /\ UNCHANGED <<disc, urls>> /\ Finds[r] \in Seq(Urls)
    BY <1>4, MiningAssumption DEF StartApproval, table
  <2> QED
    BY <2>1 DEF ApprovalInv, ApprovedIsListed, Added
<1>5. CASE StartSearch \/ SearchQuota
  BY <1>5, QuietApproval DEF StartSearch, SearchQuota
<1>6. CASE ApprovalDies
  BY <1>6 DEF ApprovalDies, ApprovalInv, ApprovedIsListed, Added, table
<1>7. CASE ApprovalAdds
  <2>1. /\ urls' = urls \cup {<<admin.of, Finds[admin.of][admin.next]>>}
        /\ admin' = [admin EXCEPT !.next = @ + 1] /\ UNCHANGED disc /\ admin # NoAdmin
    BY <1>7 DEF ApprovalAdds
  <2>2. admin.of \in Researchers /\ Finds[admin.of] \in Seq(Urls) /\ admin.next \in Nat
    BY <2>1, MiningAssumption DEF TypeInv, TypeOK, AdminShape
  <2>3. admin'.of = admin.of /\ admin'.next = admin.next + 1
    BY <2>1 DEF TypeInv, TypeOK
  <2>4. Added'
    <3> SUFFICES ASSUME NEW i \in DOMAIN Finds[admin.of], i < admin.next + 1
                 PROVE  <<admin.of, Finds[admin.of][i]>> \in urls'
      BY <2>3 DEF Added
    <3>1. i < admin.next \/ i = admin.next
      BY <2>2
    <3> QED
      BY <2>1, <3>1 DEF ApprovalInv, Added
  <2> QED
    BY <2>1, <2>4 DEF ApprovalInv, ApprovedIsListed
<1>8. CASE EndApproval
  <2>1. admin.of \in Researchers /\ Finds[admin.of] \in Seq(Urls) /\ admin.next \in Nat \ {0}
    BY <1>8, MiningAssumption DEF EndApproval, TypeInv, TypeOK, AdminShape
  <2>2. \A i \in DOMAIN Finds[admin.of] : i < admin.next
    BY <1>8, <2>1 DEF EndApproval
  <2>3. \A i \in DOMAIN Finds[admin.of] : <<admin.of, Finds[admin.of][i]>> \in urls
    BY <1>8, <2>2 DEF EndApproval, ApprovalInv, Added
  <2> QED
    BY <1>0, <1>8, <2>3 DEF EndApproval, ApprovalInv, ApprovedIsListed, Added, table
<1> QED
  BY <1>1, <1>2, <1>3, <1>4, <1>5, <1>6, <1>7, <1>8 DEF Next

(* Every page of a discovery marked approved is listed for its researcher,   *)
(* wherever its approval was interrupted and whoever decided on it meanwhile. *)
THEOREM ApprovedIsListedCorrect == Spec => []ApprovedIsListed
<1>1. Init => ApprovalInv
  BY DEF Init, ApprovalInv, ApprovedIsListed, Added
<1>2. ApprovalInv => ApprovedIsListed
  BY DEF ApprovalInv
<1> QED
  BY InitTypes, NextTypes, <1>1, <1>2, NextApproval, PTL DEF Spec

(* What a step of HoldsHold may do.                                          *)
HoldsHoldStep ==
  \A u \in urls' \ urls :
    admin.of = Nobody => \A c \in held : OwnerOf[c] # u[1] /\ UrlOf[c] # u[2]

LEMMA NextHolds == TypeInv /\ [Next]_vars => HoldsHoldStep
<1> SUFFICES ASSUME TypeInv, [Next]_vars, NEW u \in urls' \ urls, admin.of = Nobody, NEW d \in held
             PROVE  OwnerOf[d] # u[1] /\ UrlOf[d] # u[2]
  BY DEF HoldsHoldStep
<1>0. admin = NoAdmin
  BY MiningAssumption DEF TypeInv, AdminShape
<1>1. ASSUME NEW m \in Miners, NEW c \in Candidates, ApproveBundle(m, c)
      PROVE  OwnerOf[d] # u[1] /\ UrlOf[d] # u[2]
  <2>1. PICK b \in Bundles : Preflight(c, b) /\ urls' = urls \cup {<<OwnerOf[c], p>> : p \in b}
    BY <1>1 DEF ApproveBundle
  <2>2. u[1] = OwnerOf[c] /\ u[2] \in b
    BY <2>1
  <2> QED
    BY <2>1, <2>2 DEF Preflight
<1>2. CASE \E m \in Miners, c \in Candidates : ApproveBundle(m, c)
  BY <1>1, <1>2
<1>3. CASE ~\E m \in Miners, c \in Candidates : ApproveBundle(m, c)
  <2>1. ASSUME NEW m \in Miners, Step(m) \/ Raise(m) \/ Crash(m) \/ Cut(m) \/ OutOfTime(m)
                                 \/ \E c \in Candidates : BudgetExceeded(m, c)
        PROVE  UNCHANGED urls
    BY <1>3, <2>1 DEF Step, Enter, StartRun, ReadTables, ReadSource, EnqueueLink, Checkpoint, SkipDirectory,
                VisitDirectory, ReadDue, Fetched, EnqueueChild, BatchDone, FinishRun, Close, GiveUp, Unreachable,
                Doubtful, Raise, Crash, Cut, OutOfTime, BudgetExceeded, crawl, table
  <2>2. ~ApprovalAdds
    BY <1>0 DEF ApprovalAdds, NoAdmin
  <2>3. ASSUME NEW r \in Researchers, Search(r) \/ StartApproval(r) \/ RejectDiscovery(r) PROVE UNCHANGED urls
    BY <2>3 DEF Search, StartApproval, RejectDiscovery, table
  <2>4. CASE \/ StartSearch \/ SearchQuota \/ EndApproval \/ ApprovalDies \/ DirectoryDue \/ UNCHANGED vars
            \/ (\E c \in Candidates : Audit(c) \/ CandidateDue(c)) \/ (\E s \in Sources : PageChanges(s))
            \/ \E row \in urls : Deactivate(row) \/ Reactivate(row)
    BY <2>4 DEF Deactivate, Reactivate, StartSearch, SearchQuota, EndApproval, ApprovalDies, DirectoryDue, vars, Audit, CandidateDue,
                PageChanges, crawl, table
  <2> QED
    BY <2>1, <2>2, <2>3, <2>4 DEF Next
<1> QED
  BY <1>2, <1>3

(* While an audit holds a candidate, no run adds a URL for its researcher,   *)
(* nor the URL that is held, although the run may have read its batch before. *)
THEOREM HoldsHoldCorrect == Spec => HoldsHold
<1>1. TypeInv /\ [Next]_vars => [HoldsHoldStep]_vars
  BY NextHolds
<1>2. HoldsHold <=> [][HoldsHoldStep]_vars
  BY DEF HoldsHold, HoldsHoldStep
<1> QED
  BY InitTypes, NextTypes, <1>1, <1>2, PTL DEF Spec
---------------------------------------------------------------------------
(* The queue of candidates is a work list. *)

Item(c) == IF cand[c] \in Open THEN "open" ELSE cand[c]

(* Queueing a candidate adds it, opens it again, or does nothing.            *)
LEMMA EnqueueListed ==
  ASSUME TypeInv, NEW m, NEW c \in Candidates, Enqueue(m, c)
  PROVE  [List!ListNext]_(List!listVars)
<1>0. cand \in [Candidates -> Statuses]
  BY DEF TypeInv, TypeOK
<1>1. CASE UNCHANGED queue
  BY <1>1 DEF queue, List!listVars
<1>2. CASE /\ cand' = [cand EXCEPT ![c] = "pending"] /\ UNCHANGED held
           /\ cand[c] = "absent" \/ Refreshes(m, c)
  <2>1. [d \in Candidates |-> Item(d)]' = [[d \in Candidates |-> Item(d)] EXCEPT ![c] = "open"]
    BY <1>0, <1>2 DEF Item, Open
  <2>2. CASE cand[c] = "absent"
    <3>1. List!Add(c)
      BY <1>2, <2>1, <2>2 DEF List!Add, Item, Open
    <3> QED
      BY <3>1 DEF List!ListNext
  <2>3. CASE Refreshes(m, c)
    <3>1. List!Reopen(c)
      BY <1>2, <2>1, <2>3 DEF List!Reopen, Item, Open, Refreshes
    <3> QED
      BY <3>1 DEF List!ListNext
  <2> QED
    BY <1>2, <2>2, <2>3
<1> QED
  BY <1>1, <1>2 DEF Enqueue

(* A result decides an open candidate, leaves it open, or does nothing.      *)
LEMMA ResultListed ==
  ASSUME TypeInv, NEW c \in Candidates, NEW status \in {"retry", "review", "approved"}, NEW pages,
         NEW counted, SaveResult(c, status, pages, counted)
  PROVE  [List!ListNext]_(List!listVars)
<1>0. cand \in [Candidates -> Statuses]
  BY DEF TypeInv, TypeOK
<1>1. CASE UNCHANGED queue
  BY <1>1 DEF queue, List!listVars
<1>2. CASE cand[c] \in Open /\ cand' = [cand EXCEPT ![c] = status] /\ UNCHANGED held
  <2>1. CASE status = "retry"
    BY <1>0, <1>2, <2>1 DEF List!listVars, Open
  <2>2. CASE status # "retry"
    <3>1. [d \in Candidates |-> Item(d)]' = [[d \in Candidates |-> Item(d)] EXCEPT ![c] = status]
      BY <1>0, <1>2, <2>2 DEF Item, Open
    <3>2. List!Decide(c)
      BY <1>2, <2>2, <3>1 DEF List!Decide, List!Decisions, Item, Open
    <3> QED
      BY <3>2 DEF List!ListNext
  <2> QED
    BY <2>1, <2>2
<1> QED
  BY <1>1, <1>2 DEF SaveResult

LEMMA AuditListed ==
  ASSUME TypeInv, NEW c \in Candidates, Audit(c)
  PROVE  List!ListNext
<1>0. cand \in [Candidates -> Statuses] /\ cand[c] # "absent"
  BY DEF TypeInv, TypeOK, Audit
<1>1. PICK d \in {"review", "rejected"} : cand' = [cand EXCEPT ![c] = d]
  BY DEF Audit
<1>2. [e \in Candidates |-> Item(e)]' = [[e \in Candidates |-> Item(e)] EXCEPT ![c] = d]
  BY <1>0, <1>1 DEF Item, Open
<1>3. List!Overrule(c)
  BY <1>0, <1>1, <1>2 DEF List!Overrule, Item, Open, Audit
<1> QED
  BY <1>3 DEF List!ListNext

LEMMA NextListed ==
  ASSUME TypeInv, [Next]_vars
  PROVE  [List!ListNext]_(List!listVars)
<1>1. ASSUME UNCHANGED <<cand, held>> PROVE [List!ListNext]_(List!listVars)
  BY <1>1 DEF List!listVars
<1>2. ASSUME NEW m \in Miners,
             \/ Enter(m) \/ StartRun(m) \/ ReadTables(m) \/ ReadSource(m) \/ Checkpoint(m)
             \/ SkipDirectory(m) \/ VisitDirectory(m) \/ ReadDue(m) \/ Fetched(m) \/ BatchDone(m)
             \/ FinishRun(m) \/ Close(m) \/ GiveUp(m) \/ Raise(m) \/ Crash(m) \/ Cut(m) \/ OutOfTime(m)
      PROVE  UNCHANGED <<cand, held>>
  BY <1>2 DEF Enter, StartRun, ReadTables, ReadSource, Checkpoint, SkipDirectory, VisitDirectory, ReadDue,
              Fetched, BatchDone, FinishRun, Close, GiveUp, Raise, Crash, Cut, OutOfTime, queue
<1>3. ASSUME NEW m \in Miners, EnqueueLink(m) \/ EnqueueChild(m) PROVE [List!ListNext]_(List!listVars)
  <2>1. PICK c \in miner[m].links : Enqueue(m, c)
    BY <1>3 DEF EnqueueLink, EnqueueChild
  <2>2. c \in Candidates
    BY DEF TypeInv, TypeOK
  <2> QED
    BY <2>1, <2>2, EnqueueListed
<1>4. ASSUME NEW m \in Miners, NEW c \in Candidates,
             Unreachable(m, c) \/ Doubtful(m, c) \/ ApproveBundle(m, c) \/ BudgetExceeded(m, c)
      PROVE  [List!ListNext]_(List!listVars)
  <2>0. {} \in SUBSET Urls /\ Bundles \subseteq SUBSET Urls
    BY DEF Bundles
  <2>1. CASE Unreachable(m, c) \/ BudgetExceeded(m, c)
    <3>1. PICK status \in {"retry", "review"}, counted \in BOOLEAN : SaveResult(c, status, {}, counted)
      BY <2>1 DEF Unreachable, RetryStatus, BudgetExceeded
    <3> QED
      BY <3>1, ResultListed
  <2>2. CASE Doubtful(m, c) \/ ApproveBundle(m, c)
    <3>1. PICK status \in {"review", "approved"}, pages \in SUBSET Urls : SaveResult(c, status, pages, TRUE)
      BY <2>0, <2>2 DEF Doubtful, ApproveBundle
    <3> QED
      BY <3>1, ResultListed
  <2> QED
    BY <1>4, <2>1, <2>2
<1>5. ASSUME NEW r \in Researchers, Search(r) \/ StartApproval(r) \/ RejectDiscovery(r)
      PROVE  UNCHANGED <<cand, held>>
  BY <1>5 DEF Search, StartApproval, RejectDiscovery, queue
<1>6. CASE \/ StartSearch \/ SearchQuota \/ ApprovalAdds \/ EndApproval \/ ApprovalDies \/ DirectoryDue
          \/ UNCHANGED vars \/ (\E c \in Candidates : CandidateDue(c)) \/ (\E s \in Sources : PageChanges(s))
          \/ \E row \in urls : Deactivate(row) \/ Reactivate(row)
  <2>1. UNCHANGED <<cand, held>>
    BY <1>6 DEF Deactivate, Reactivate, StartSearch, SearchQuota, ApprovalAdds, EndApproval, ApprovalDies, DirectoryDue, vars,
                CandidateDue, PageChanges, queue
  <2> QED
    BY <1>1, <2>1
<1>7. ASSUME NEW c \in Candidates, Audit(c) PROVE [List!ListNext]_(List!listVars)
  BY <1>7, AuditListed
<1> QED
  BY <1>1, <1>2, <1>3, <1>4, <1>5, <1>6, <1>7 DEF Next, Step

(* The queue of candidates implements the abstract work list: a candidate is *)
(* added once, a decision stands, and only a profile that nobody holds is    *)
(* opened again.                                                             *)
THEOREM WorkListRefined == Spec => ImplementsWorkList
<1>1. Init => List!ListInit
  BY DEF Init, List!ListInit, Open
<1>2. TypeInv /\ [Next]_vars => [List!ListNext]_(List!listVars)
  BY NextListed
<1> QED
  BY InitTypes, NextTypes, <1>1, <1>2, PTL DEF Spec, ImplementsWorkList, List!ListSpec
===========================================================================
