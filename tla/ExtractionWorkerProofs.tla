----------------------- MODULE ExtractionWorkerProofs -----------------------
(***************************************************************************)
(* Theorems about ExtractionWorker: any number of pages, any length of the *)
(* queue, any limits.                                                      *)
(***************************************************************************)
EXTENDS ExtractionWorker, FiniteSetTheorems, WellFoundedInduction, TLAPS

---------------------------------------------------------------------------
(* The types. *)

LEMMA ElapseType ==
  ASSUME WorkerAssumption, TypeOK, NEW d \in Nat, NEW u \in Urls
  PROVE  Elapsed(u, d) \in 0..Cooldown
  BY DEF Elapsed, TypeOK, WorkerAssumption

LEMMA QueueType ==
  ASSUME NEW excluded
  PROVE  Queue(excluded) \in SUBSET {u \in Urls \ excluded : NeedsExtraction(u)}
  BY DEF Queue

LEMMA ForgetType ==
  ASSUME WorkerAssumption, TypeOK, NEW pages, Forget(pages)
  PROVE  /\ cooling' \subseteq Urls /\ failures' \in [Urls -> 0..MaxUrlFailures]
         /\ failedHash' \in [Urls -> Versions]
  BY DEF Forget, TypeOK, Versions, WorkerAssumption

LEMMA FetcherTypes ==
  ASSUME WorkerAssumption, TypeOK, NEW u \in Urls,
         PageChanges(u) \/ PageSame(u) \/ FetchTooLarge(u) \/ FetchFails(u) \/ Reactivate(u)
  PROVE  TypeOK'
<1>1. CASE PageChanges(u)
  <2>1. PICK v \in Versions \ {0, hash[u]} : hash' = [hash EXCEPT ![u] = v]
    BY <1>1 DEF PageChanges
  <2>2. hash' \in [Urls -> Versions] /\ fetchFails' \in [Urls -> Nat] /\ strikes' \in [Urls -> Nat]
        /\ changes' \in 0..MaxChanges
    BY <1>1, <2>1 DEF PageChanges, TypeOK, WorkerAssumption
  <2> QED
    BY <1>1, <2>2 DEF PageChanges, memory, TypeOK
<1>2. CASE PageSame(u)
  BY <1>2 DEF PageSame, memory, TypeOK
<1>3. CASE FetchTooLarge(u)
  BY <1>3 DEF FetchTooLarge, memory, TypeOK, Reasons, WorkerAssumption
<1>4. CASE FetchFails(u)
  <2>1. fetchFails' \in [Urls -> Nat] /\ active' \in [Urls -> BOOLEAN] /\ reason' \in [Urls -> Reasons]
    <3>1. fetchFails' \in [Urls -> Nat]
      BY <1>4 DEF FetchFails, RecordFailure, TypeOK
    <3>2. active' \in [Urls -> BOOLEAN]
      BY <1>4 DEF FetchFails, RecordFailure, TypeOK
    <3>3. reason' \in [Urls -> Reasons]
      BY <1>4 DEF FetchFails, RecordFailure, TypeOK, Reasons
    <3> QED
      BY <3>1, <3>2, <3>3
  <2>2. faults' \in 0..MaxFaults
    BY <1>4 DEF FetchFails, TypeOK, WorkerAssumption
  <2> QED
    BY <1>4, <2>1, <2>2 DEF FetchFails, memory, TypeOK
<1>5. CASE Reactivate(u)
  BY <1>5 DEF Reactivate, memory, TypeOK, Reasons
<1> QED
  BY <1>1, <1>2, <1>3, <1>4, <1>5

LEMMA PollTypes ==
  ASSUME WorkerAssumption, TypeOK, Poll \/ PollFails
  PROVE  TypeOK'
<1>0. \A u \in Urls : Row(u) \in [url : Urls, hash : Versions]
  BY DEF Row, TypeOK
<1>1. PICK pages : Forget(pages)
  BY DEF Poll, PollFails
<1>2. strikes' \in [Urls -> Nat]
  BY DEF Poll, PollFails, TypeOK
<1>3. CASE Poll
  <2>1. PICK batch \in SUBSET Urls : rows' = {Row(u) : u \in batch}
    BY <1>3, QueueType DEF Poll
  <2>2. left' \in [Urls -> 0..Cooldown]
    <3>1. PICK d \in Nat : \E forgotten : left' = [u \in Urls |-> IF u \in forgotten THEN 0 ELSE Elapsed(u, d)]
      BY <1>3 DEF Poll, WorkerAssumption
    <3> QED
      BY <3>1, ElapseType DEF WorkerAssumption
  <2>3. rows' \subseteq [url : Urls, hash : Versions]
    BY <1>0, <2>1
  <2>4. UNCHANGED <<hash, extracted, active, fetchFails, reason, job, changes, faults>>
    BY <1>3 DEF Poll, table
  <2> QED
    BY <1>1, <1>2, <2>2, <2>3, <2>4, ForgetType DEF TypeOK
<1>4. CASE PollFails
  <2>1. left' \in [Urls -> 0..Cooldown]
    <3>1. PICK d \in Nat : left' = [u \in Urls |-> Elapsed(u, d)]
      BY <1>4 DEF PollFails, Elapse, WorkerAssumption
    <3> QED
      BY <3>1, ElapseType
  <2>2. faults' \in 0..MaxFaults
    BY <1>4 DEF PollFails, TypeOK, WorkerAssumption
  <2> QED
    BY <1>1, <1>2, <1>4, <2>1, <2>2, ForgetType DEF PollFails, table, TypeOK
<1> QED
  BY <1>3, <1>4

---------------------------------------------------------------------------
(* The strikes. *)

(* A row and the attempt that is made of it are of a page that does not rest;*)
(* what was queried before the page changed has cost nothing since.          *)
RowsInv ==
  /\ job # NoJob => job.url \in Urls \ cooling
  /\ \A row \in rows : row.url \notin cooling /\ row.url # job.url
  /\ \A row, other \in rows : row.url = other.url => row = other
  /\ \A row \in rows : row.hash # hash[row.url] => strikes[row.url] = 0
  /\ job # NoJob /\ job.hash # hash[job.url] => strikes[job.url] = 0

(* The worker's own count lags one strike behind at most, which is the one   *)
(* of a page that rests with other content than the worker believes.         *)
StrikesInv ==
  /\ \A u \in Urls \ cooling : failures[u] < MaxUrlFailures /\ strikes[u] <= failures[u] + 1
  /\ \A u \in cooling : strikes[u] <= IF hash[u] = failedHash[u] THEN MaxUrlFailures + 1 ELSE 1

WorkInv == TypeOK /\ RowsInv /\ StrikesInv

LEMMA AttemptTypes ==
  ASSUME WorkerAssumption, WorkInv, Start \/ Succeed \/ Fail \/ QuotaLimited \/ Restart
  PROVE  TypeOK'
<1> USE DEF WorkInv
<1>1. CASE Start
  <2>1. PICK row \in rows : /\ job' = [url |-> row.url, hash |-> row.hash, read |-> hash[row.url]]
                            /\ rows' = rows \ {row}
    BY <1>1 DEF Start
  <2>2. row.url \in Urls /\ row.hash \in Versions /\ hash[row.url] \in Versions /\ Urls \subseteq 0..NumUrls
    BY DEF TypeOK, Urls
  <2>3. job' \in [url : 0..NumUrls, hash : Versions, read : Versions]
    BY <2>1, <2>2
  <2> QED
    BY <1>1, <2>1, <2>3 DEF Start, table, TypeOK
<1>2. NoJob \in [url : 0..NumUrls, hash : Versions, read : Versions]
  BY DEF NoJob, Versions, WorkerAssumption
<1>3. ASSUME NEW limit \in {AttemptTicks, Cooldown}, \E d \in 0..limit : Elapse(d)
      PROVE  left' \in [Urls -> 0..Cooldown]
  <2>1. PICK d \in Nat : left' = [u \in Urls |-> Elapsed(u, d)]
    BY <1>3 DEF Elapse, WorkerAssumption
  <2> QED
    BY <2>1, ElapseType
<1>4. CASE Succeed
  <2>1. left' \in [Urls -> 0..Cooldown]
    BY <1>3, <1>4 DEF Succeed
  <2>2. extracted' \in [Urls -> Versions] /\ failures' \in [Urls -> 0..MaxUrlFailures]
        /\ strikes' \in [Urls -> Nat]
    <3>1. extracted' \in [Urls -> Versions]
      BY <1>4 DEF Succeed, TypeOK
    <3>2. failures' \in [Urls -> 0..MaxUrlFailures]
      <4>1. 0 \in 0..MaxUrlFailures
        BY DEF WorkerAssumption
      <4> QED
        BY <1>4, <4>1 DEF Succeed, TypeOK
    <3>3. strikes' \in [Urls -> Nat]
      BY <1>4 DEF Succeed, TypeOK
    <3> QED
      BY <3>1, <3>2, <3>3
  <2> QED
    BY <1>2, <1>4, <2>1, <2>2 DEF Succeed, TypeOK
<1>5. CASE QuotaLimited
  <2>1. left' \in [Urls -> 0..Cooldown]
    BY <1>3, <1>5 DEF QuotaLimited, WorkerAssumption
  <2>2. faults' \in 0..MaxFaults
    BY <1>5 DEF QuotaLimited, TypeOK, WorkerAssumption
  <2> QED
    BY <1>2, <1>5, <2>1, <2>2 DEF QuotaLimited, table, TypeOK
<1>6. CASE Fail
  <2>1. job.url \in Urls /\ failures[job.url] + 1 \in 0..MaxUrlFailures
    BY <1>6 DEF Fail, RowsInv, StrikesInv, TypeOK, WorkerAssumption
  <2>2. left' \in [Urls -> 0..Cooldown]
    <3>1. CASE \E d \in 0..AttemptTicks : left' = [w \in Urls |-> IF w = job.url THEN Cooldown ELSE Elapsed(w, d)]
      <4>1. PICK d \in Nat : left' = [w \in Urls |-> IF w = job.url THEN Cooldown ELSE Elapsed(w, d)]
        BY <3>1 DEF WorkerAssumption
      <4> QED
        BY <4>1, ElapseType DEF WorkerAssumption
    <3> QED
      BY <1>3, <1>6, <3>1 DEF Fail
  <2>3. failures' \in [Urls -> 0..MaxUrlFailures] /\ strikes' \in [Urls -> Nat]
    BY <1>6, <2>1 DEF Fail, TypeOK
  <2>4. cooling' \subseteq Urls /\ failedHash' \in [Urls -> Versions]
    BY <1>6, <2>1 DEF Fail, TypeOK
  <2>5. UNCHANGED <<table, rows, changes, faults>> /\ job' = NoJob
    BY <1>6 DEF Fail
  <2> QED
    BY <1>2, <2>2, <2>3, <2>4, <2>5 DEF table, TypeOK
<1>7. CASE Restart
  <2>1. faults' \in 0..MaxFaults
    BY <1>7 DEF Restart, TypeOK, WorkerAssumption
  <2>2. Zero \in [Urls -> 0..MaxUrlFailures] /\ Zero \in [Urls -> 0..Cooldown]
        /\ Zero \in [Urls -> Versions] /\ Zero \in [Urls -> Nat]
    BY DEF Zero, Versions, WorkerAssumption
  <2> QED
    BY <1>2, <1>7, <2>1, <2>2 DEF Restart, table, TypeOK
<1> QED
  BY <1>1, <1>4, <1>5, <1>6, <1>7

(* The fetcher changes what is stored, and then the count starts again.      *)
LEMMA FetcherStrikes ==
  ASSUME WorkerAssumption, WorkInv, NEW u \in Urls,
         PageChanges(u) \/ PageSame(u) \/ FetchTooLarge(u) \/ FetchFails(u) \/ Reactivate(u)
  PROVE  RowsInv' /\ StrikesInv'
<1>0. UNCHANGED memory
  BY DEF PageChanges, PageSame, FetchTooLarge, FetchFails, Reactivate
<1>1. CASE PageChanges(u)
  <2>1. /\ \A w \in Urls : w # u => hash'[w] = hash[w] /\ strikes'[w] = strikes[w]
        /\ strikes'[u] = 0
    BY <1>1 DEF PageChanges, WorkInv, TypeOK
  <2>2. StrikesInv'
    BY <1>0, <2>1 DEF memory, WorkInv, StrikesInv, TypeOK, WorkerAssumption
  <2>3. RowsInv'
    BY <1>0, <2>1 DEF memory, WorkInv, RowsInv, TypeOK
  <2> QED
    BY <2>2, <2>3
<1>2. CASE UNCHANGED <<hash, strikes>>
  BY <1>0, <1>2 DEF memory, WorkInv, RowsInv, StrikesInv, NoJob
<1> QED
  BY <1>1, <1>2 DEF PageSame, FetchTooLarge, FetchFails, Reactivate

(* What the worker forgets has no strikes, or one.                           *)
LEMMA ForgetStrikes ==
  ASSUME WorkerAssumption, WorkInv, NEW pages, Forget(pages), pages \subseteq Expired \cup Changed,
         strikes' = [u \in Urls |-> IF u \in Expired THEN 0 ELSE strikes[u]], UNCHANGED hash
  PROVE  StrikesInv'
<1>1. \A u \in Expired \cup Changed : u \in Urls /\ u \in cooling
  BY DEF Expired, Changed, WorkInv, TypeOK
<1>2. \A u \in Urls : strikes'[u] = IF u \in Expired THEN 0 ELSE strikes[u]
  OBVIOUS
<1>3. \A u \in pages : strikes'[u] <= 1
  BY <1>1, <1>2 DEF Changed, WorkInv, StrikesInv, TypeOK
<1>4. \A u \in Urls : /\ failures'[u] = IF u \in pages THEN 0 ELSE failures[u]
                      /\ failedHash'[u] = IF u \in pages THEN 0 ELSE failedHash[u]
                      /\ u \in cooling' <=> u \in cooling /\ u \notin pages
  BY DEF Forget
<1>5. \A u \in Urls : strikes'[u] \in Nat /\ strikes'[u] <= strikes[u] /\ strikes[u] \in Nat
  BY <1>2 DEF WorkInv, TypeOK
<1>6. \A u \in Urls \ cooling' : failures'[u] < MaxUrlFailures /\ strikes'[u] <= failures'[u] + 1
  <2>1. ASSUME NEW u \in Urls, u \in pages
        PROVE  failures'[u] < MaxUrlFailures /\ strikes'[u] <= failures'[u] + 1
    BY <1>3, <1>4, <2>1 DEF WorkerAssumption
  <2>2. ASSUME NEW u \in Urls, u \notin pages, u \notin cooling
        PROVE  failures'[u] < MaxUrlFailures /\ strikes'[u] <= failures'[u] + 1
    BY <1>4, <1>5, <2>2 DEF WorkInv, StrikesInv, TypeOK
  <2> QED
    BY <1>4, <2>1, <2>2
<1>7. \A u \in cooling' : u \in Urls /\ strikes'[u] <= IF hash[u] = failedHash'[u] THEN MaxUrlFailures + 1 ELSE 1
  <2>1. \A u \in cooling' : u \in cooling /\ u \in Urls
    BY DEF Forget, WorkInv, TypeOK
  <2> QED
    BY <2>1, <1>4, <1>5 DEF WorkInv, StrikesInv, TypeOK, WorkerAssumption
<1> QED
  BY <1>6, <1>7 DEF StrikesInv

LEMMA PollStrikes ==
  ASSUME WorkerAssumption, WorkInv, Poll \/ PollFails
  PROVE  RowsInv' /\ StrikesInv'
<1>0. /\ UNCHANGED <<hash, job>> /\ job = NoJob /\ rows = {}
      /\ strikes' = [u \in Urls |-> IF u \in Expired THEN 0 ELSE strikes[u]]
  BY DEF Poll, PollFails, table
<1>1. StrikesInv'
  BY <1>0, ForgetStrikes DEF Poll, PollFails
<1>2. PICK batch \in SUBSET Urls : rows' = {Row(u) : u \in batch} /\ batch \cap cooling' = {}
  <2>1. CASE Poll
    <3> DEFINE forgotten == Expired \cup Changed
               rest == cooling \ forgotten
               pending == Queue({}) \ rest
               batch == IF pending = {} THEN Queue(rest) ELSE pending
    <3>1. rows' = {Row(u) : u \in batch} /\ cooling' = rest
      BY <2>1 DEF Poll, Forget
    <3>2. batch \subseteq Urls /\ batch \cap rest = {}
      BY QueueType
    <3> QED
      BY <3>1, <3>2
  <2>2. CASE PollFails
    BY <1>0, <2>2 DEF PollFails
  <2> QED
    BY <2>1, <2>2
<1>3. \A row \in rows' : row.url \in batch /\ row.hash = hash[row.url]
  BY <1>2 DEF Row
<1>4. \A row, other \in rows' : row.url = other.url => row = other
  BY <1>2 DEF Row
<1> QED
  BY <1>0, <1>1, <1>2, <1>3, <1>4 DEF RowsInv, NoJob, Urls

(* An attempt that fails costs a strike when the page is as it was read.     *)
LEMMA FailStrikes ==
  ASSUME WorkerAssumption, WorkInv, Fail
  PROVE  RowsInv' /\ StrikesInv'
<1> DEFINE u == job.url
<1>1. u \in Urls /\ u \notin cooling /\ failures[u] < MaxUrlFailures /\ strikes[u] <= failures[u] + 1
      /\ failures[u] \in Nat /\ strikes[u] \in Nat
  BY DEF Fail, WorkInv, RowsInv, StrikesInv, TypeOK, WorkerAssumption
<1>2. /\ UNCHANGED <<hash, rows>> /\ job' = NoJob
      /\ \A w \in Urls : w # u => failures'[w] = failures[w] /\ strikes'[w] = strikes[w]
                                  /\ failedHash'[w] = failedHash[w] /\ (w \in cooling' <=> w \in cooling)
      /\ failures'[u] = failures[u] + 1 /\ strikes'[u] \in {strikes[u], strikes[u] + 1}
      /\ cooling' = IF failures[u] + 1 >= MaxUrlFailures THEN cooling \cup {u} ELSE cooling
      /\ failures[u] + 1 >= MaxUrlFailures => failedHash'[u] = job.hash
  BY <1>1 DEF Fail, table, WorkInv, TypeOK
<1>3. job.hash # hash[u] => strikes[u] = 0
  BY DEF Fail, WorkInv, RowsInv
<1>4. RowsInv'
  <2>1. \A row \in rows : row.url \in Urls /\ row.url # u
    BY DEF WorkInv, RowsInv, TypeOK
  <2> QED
    BY <1>2, <2>1 DEF WorkInv, RowsInv, NoJob, Urls, WorkerAssumption
<1>5. StrikesInv'
  <2> HIDE DEF u
  <2>1. \A w \in Urls \ cooling' : failures'[w] < MaxUrlFailures /\ strikes'[w] <= failures'[w] + 1
    BY <1>1, <1>2 DEF WorkInv, StrikesInv, WorkerAssumption
  <2>2. \A w \in cooling' : strikes'[w] <= IF hash'[w] = failedHash'[w] THEN MaxUrlFailures + 1 ELSE 1
    <3>1. ASSUME NEW w \in cooling', w # u
          PROVE  strikes'[w] <= IF hash'[w] = failedHash'[w] THEN MaxUrlFailures + 1 ELSE 1
      <4>1. w \in Urls /\ w \in cooling
        BY <1>2, <3>1 DEF WorkInv, TypeOK
      <4> QED
        BY <1>2, <3>1, <4>1 DEF WorkInv, StrikesInv
    <3>2. ASSUME u \in cooling'
          PROVE  strikes'[u] <= IF hash'[u] = failedHash'[u] THEN MaxUrlFailures + 1 ELSE 1
      <4>1. failures[u] + 1 >= MaxUrlFailures
        BY <1>1, <1>2, <3>2
      <4>2. strikes'[u] <= MaxUrlFailures + 1
        BY <1>1, <1>2 DEF WorkerAssumption
      <4>3. hash[u] # failedHash'[u] => strikes'[u] <= 1
        BY <1>1, <1>2, <1>3, <4>1
      <4> QED
        BY <1>2, <4>2, <4>3
    <3> QED
      BY <3>1, <3>2
  <2> QED
    BY <2>1, <2>2 DEF StrikesInv
<1> QED
  BY <1>4, <1>5

LEMMA OtherStrikes ==
  ASSUME WorkerAssumption, WorkInv, Start \/ Succeed \/ QuotaLimited \/ Restart
  PROVE  RowsInv' /\ StrikesInv'
<1>1. CASE Start
  <2>1. PICK row \in rows : /\ job' = [url |-> row.url, hash |-> row.hash, read |-> hash[row.url]]
                            /\ rows' = rows \ {row}
    BY <1>1 DEF Start
  <2>2. UNCHANGED <<hash, failures, cooling, failedHash, strikes>>
    BY <1>1 DEF Start, table
  <2>3. StrikesInv'
    BY <2>2 DEF WorkInv, StrikesInv
  <2>4. row.url \in Urls /\ \A other \in rows' : other.url # row.url
    BY <2>1 DEF WorkInv, RowsInv, TypeOK
  <2> QED
    BY <2>1, <2>2, <2>3, <2>4 DEF WorkInv, RowsInv
<1>2. CASE Succeed
  <2>1. /\ UNCHANGED <<hash, rows, cooling, failedHash>> /\ job' = NoJob
        /\ \A w \in Urls : /\ failures'[w] \in {failures[w], 0} /\ strikes'[w] \in {strikes[w], 0}
                           /\ w # job.url => failures'[w] = failures[w]
                           /\ w = job.url => strikes'[w] = 0
    BY <1>2 DEF Succeed, WorkInv, TypeOK
  <2>2. StrikesInv'
    BY <2>1 DEF WorkInv, StrikesInv, TypeOK, WorkerAssumption
  <2>3. RowsInv'
    <3>1. \A row \in rows : row.url \in Urls /\ row.url # NoJob.url
      BY DEF WorkInv, TypeOK, NoJob, Urls
    <3>2. \A row \in rows' : row.hash # hash'[row.url] => strikes'[row.url] = 0
      BY <2>1, <3>1 DEF WorkInv, RowsInv
    <3> QED
      BY <2>1, <3>1, <3>2 DEF WorkInv, RowsInv
  <2> QED
    BY <2>2, <2>3
<1>3. CASE QuotaLimited
  <2>1. UNCHANGED <<hash, rows, failures, cooling, failedHash, strikes>> /\ job' = NoJob
    BY <1>3 DEF QuotaLimited, table
  <2>2. \A row \in rows : row.url # 0
    BY DEF WorkInv, TypeOK, Urls
  <2> QED
    BY <2>1, <2>2 DEF WorkInv, RowsInv, StrikesInv, NoJob
<1>4. CASE Restart
  BY <1>4 DEF Restart, RowsInv, StrikesInv, Zero, NoJob, WorkerAssumption
<1> QED
  BY <1>1, <1>2, <1>3, <1>4

LEMMA WorkInvariant == Spec => []WorkInv
<1>1. Init => WorkInv
  <2> SUFFICES ASSUME Init
               PROVE  WorkInv
    OBVIOUS
  <2>1. NoJob \in [url : 0..NumUrls, hash : Versions, read : Versions]
    BY WorkerAssumption DEF NoJob, Versions, WorkerAssumption
  <2>2. TypeOK
    BY <2>1, WorkerAssumption DEF Init, Zero, TypeOK, Versions, Reasons, WorkerAssumption
  <2>3. RowsInv /\ StrikesInv
    BY WorkerAssumption DEF Init, Zero, RowsInv, StrikesInv, WorkerAssumption
  <2> QED
    BY <2>2, <2>3 DEF WorkInv
<1>2. WorkInv /\ [Next]_vars => WorkInv'
  <2> SUFFICES ASSUME WorkInv, [Next]_vars
               PROVE  WorkInv'
    OBVIOUS
  <2>1. CASE Poll \/ PollFails
    BY <2>1, PollTypes, PollStrikes, WorkerAssumption DEF WorkInv
  <2>2. CASE Fail
    BY <2>2, AttemptTypes, FailStrikes, WorkerAssumption DEF WorkInv
  <2>3. CASE Start \/ Succeed \/ QuotaLimited \/ Restart
    BY <2>3, AttemptTypes, OtherStrikes, WorkerAssumption DEF WorkInv
  <2>4. ASSUME NEW u \in Urls,
               PageChanges(u) \/ PageSame(u) \/ FetchTooLarge(u) \/ FetchFails(u) \/ Reactivate(u)
        PROVE  WorkInv'
    BY <2>4, FetcherTypes, FetcherStrikes, WorkerAssumption DEF WorkInv
  <2>5. CASE UNCHANGED vars
    BY <2>5 DEF vars, table, memory, WorkInv, TypeOK, RowsInv, StrikesInv, Row
  <2> QED
    BY <2>1, <2>2, <2>3, <2>4, <2>5 DEF Next, Worker
<1> QED
  BY <1>1, <1>2, PTL DEF Spec

(* ExtractionWorker's TypeOK: the loop's dictionaries and the columns of     *)
(* researcher_urls, and that a page fails no more than MaxUrlFailures times  *)
(* before _run_extraction_worker_loop forgets it.                            *)
THEOREM WorkerTypeCorrect == Spec => []TypeOK
<1>1. WorkInv => TypeOK
  BY DEF WorkInv
<1> QED
  BY <1>1, WorkInvariant, PTL

(* ExtractionWorker's PoisonBounded, of the cooldown in the worker's loop:   *)
(* whatever its limits, and however pages change while they wait, content    *)
(* that always fails costs at most one attempt more than the code says.      *)
THEOREM PoisonBoundedCorrect == Spec => []PoisonBounded
<1>1. WorkInv => PoisonBounded
  <2> SUFFICES ASSUME WorkInv, NEW u \in Urls
               PROVE  strikes[u] <= MaxUrlFailures + 1
    BY DEF PoisonBounded
  <2>1. CASE u \in cooling
    BY <2>1, WorkerAssumption DEF WorkInv, StrikesInv, TypeOK, WorkerAssumption
  <2>2. CASE u \notin cooling
    BY <2>2, WorkerAssumption DEF WorkInv, StrikesInv, TypeOK, WorkerAssumption
  <2> QED
    BY <2>1, <2>2
<1> QED
  BY <1>1, WorkInvariant, PTL

---------------------------------------------------------------------------
(* The queue. *)

LEMMA FirstOf ==
  ASSUME NEW S \in SUBSET Nat, S # {}
  PROVE  \E x \in S : \A y \in S : x <= y
<1>1. PICK x \in S : \A y \in S : ~(<<y, x>> \in OpToRel(<, Nat))
  BY WFMin, NatLessThanWellFounded
<1>2. \A y \in S : ~(y < x)
  BY <1>1 DEF OpToRel
<1> QED
  BY <1>2

(* A queue without rows has left nothing out but what it was told to.        *)
LEMMA EmptyQueue ==
  ASSUME WorkerAssumption, NEW excluded, Queue(excluded) = {}, NEW u \in Urls, NeedsExtraction(u)
  PROVE  u \in excluded
<1> DEFINE due == {w \in Urls \ excluded : NeedsExtraction(w)}
<1> SUFFICES ASSUME u \notin excluded
             PROVE  FALSE
  OBVIOUS
<1>1. due \in SUBSET Nat /\ due # {}
  BY DEF Urls, WorkerAssumption
<1>2. PICK x \in due : \A y \in due : x <= y
  BY <1>1, FirstOf
<1>3. {w \in due : w < x} = {}
  BY <1>1, <1>2
<1>4. Cardinality({w \in due : w < x}) < QueueLimit
  BY <1>3, FS_EmptySet DEF WorkerAssumption
<1>5. x \in Queue(excluded)
  BY <1>4 DEF Queue
<1> QED
  BY <1>5

(* ExtractionWorker's SleepsOnlyWhenIdle, of the worker's second query: for  *)
(* any limit of the queue and however many pages are at rest before it, a    *)
(* page that may be tried is never slept over.                               *)
THEOREM SleepsOnlyWhenIdleCorrect == Spec => SleepsOnlyWhenIdle
<1>1. ASSUME Poll, rows' = {}, NEW u \in Urls, NeedsExtraction(u)
      PROVE  u \in cooling'
  <2> DEFINE forgotten == Expired \cup Changed
             rest == cooling \ forgotten
  <2>1. cooling' = rest
    BY <1>1 DEF Poll, Forget
  <2>2. Queue(rest) = {}
    BY <1>1 DEF Poll
  <2> HIDE DEF rest
  <2> QED
    BY <1>1, <2>1, <2>2, EmptyQueue, WorkerAssumption
<1>2. [Next]_vars => [Poll /\ rows' = {} => \A u \in Urls : NeedsExtraction(u) => u \in cooling']_vars
  BY <1>1
<1> QED
  BY <1>2, PTL DEF Spec, SleepsOnlyWhenIdle
===========================================================================
