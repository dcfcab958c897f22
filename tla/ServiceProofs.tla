---------------------------- MODULE ServiceProofs ----------------------------
(***************************************************************************)
(* Theorems about Service: any number of processes that boot on one        *)
(* database, and the review jobs of the one with the scheduler.            *)
(***************************************************************************)
EXTENDS Service, WellFoundedInduction, TLAPS

---------------------------------------------------------------------------
(* The order of the steps. *)

LEMMA StepOrder ==
  /\ DOMAIN M!Steps = 1..10 /\ Len(M!Steps) = 10
  /\ M!Steps[1] = "columns" /\ M!Steps[2] = "recorded_at" /\ M!Steps[3] = "drop_key"
  /\ M!Steps[4] = "add_key" /\ M!Steps[5] = "seed" /\ M!Steps[6] = "new_guard"
  /\ M!Steps[7] = "old_guard" /\ M!Steps[8] = "metadata" /\ M!Steps[9] = "feed"
  /\ M!Steps[10] = "reviews"
  BY DEF M!Steps

LEMMA AllSteps ==
  M!StepSet = {"columns", "recorded_at", "drop_key", "add_key", "seed", "new_guard", "old_guard",
               "metadata", "feed", "reviews"}
<1>1. \A i \in 1..10 : \/ i = 1 \/ i = 2 \/ i = 3 \/ i = 4 \/ i = 5
                       \/ i = 6 \/ i = 7 \/ i = 8 \/ i = 9 \/ i = 10
  OBVIOUS
<1> QED
  BY <1>1, StepOrder DEF M!StepSet

LEMMA NthAfter ==
  ASSUME NEW i \in 1..10
  PROVE  /\ M!Steps[i] # "lock"
         /\ i < 10 => M!After(M!Steps[i]) = M!Steps[i + 1]
         /\ i = 10 => M!After(M!Steps[i]) = "release"
<1>1. \A j \in 1..10 : M!Steps[j] = M!Steps[i] => j = i
  BY StepOrder
<1>2. (CHOOSE j \in DOMAIN M!Steps : M!Steps[j] = M!Steps[i]) = i
  BY <1>1, StepOrder
<1>3. M!Steps[i] # "lock"
  BY StepOrder
<1> QED
  BY <1>2, <1>3, StepOrder DEF M!After

LEMMA Successors ==
  /\ M!After("lock") = "columns" /\ M!After("columns") = "recorded_at"
  /\ M!After("recorded_at") = "drop_key" /\ M!After("drop_key") = "add_key"
  /\ M!After("add_key") = "seed" /\ M!After("seed") = "new_guard"
  /\ M!After("new_guard") = "old_guard" /\ M!After("old_guard") = "metadata"
  /\ M!After("metadata") = "feed" /\ M!After("feed") = "reviews" /\ M!After("reviews") = "release"
<1>1. M!After("lock") = "columns"
  BY StepOrder DEF M!After
<1> QED
  BY <1>1, StepOrder, NthAfter
---------------------------------------------------------------------------
(* The boots. *)

Late == {"seed", "new_guard", "old_guard", "metadata", "feed", "reviews"}
Guarded == {"old_guard", "metadata", "feed", "reviews"}

(* Nothing failed: who is at a step holds the lock, and who has passed the   *)
(* key has left it as it should be.                                          *)
Orderly ==
  /\ ~orphans
  /\ \A p \in Procs : pc[p] \in M!StepSet \cup {"release"} => holder = p
  /\ \A p \in Procs : pc[p] \in Late \cup {"verify", "up"} \/ (pc[p] = "release" /\ p \notin failed)
                        => cascade = "cascade"

BootInv ==
  /\ guarded => guards # {}
  /\ \A p \in Procs : pc[p] \in Guarded => "new" \in guards
  /\ \A p \in Procs : pc[p] = "up" => M!Complete
  /\ faults = 0 => Orderly

(* A process goes somewhere that promises nothing, and the database stays.   *)
LEMMA QuietBoot ==
  ASSUME M!TypeOK, BootInv, NEW p \in Procs, NEW to, pc' = [pc EXCEPT ![p] = to],
         to \in {"down", "tables", "lock"}, schema \subseteq schema',
         UNCHANGED <<guards, guarded, cascade, orphans>>,
         faults' = 0 => faults = 0 /\ holder' \in {holder} \cup (IF holder = p THEN {Nobody} ELSE {})
                        /\ failed \subseteq failed' \cup {p}
  PROVE  BootInv'
<1>1. \A q \in Procs : pc'[q] = IF q = p THEN to ELSE pc[q]
  BY DEF M!TypeOK
<1>2. \A q \in Procs : pc'[q] = "up" => M!Complete'
  BY <1>1 DEF BootInv, M!Complete
<1>3. faults' = 0 => Orderly'
  BY <1>1, AllSteps DEF BootInv, Orderly, Late
<1> QED
  BY <1>1, <1>2, <1>3 DEF BootInv, Guarded

(* A step that succeeds leads on, and what it does to the database stays.     *)
LEMMA MigrateStep ==
  ASSUME ServiceAssumption, M!TypeOK, BootInv, NEW p \in Procs, M!Migrate(p)
  PROVE  BootInv'
<1> DEFINE to == M!After(pc[p])
<1>0. /\ pc' = [pc EXCEPT ![p] = to] /\ pc[p] \in M!StepSet /\ holder = p
      /\ UNCHANGED <<orphans, holder, failed, faults>>
  BY DEF M!Migrate, M!Goto
<1>1. \A q \in Procs : pc'[q] = IF q = p THEN to ELSE pc[q]
  BY <1>0 DEF M!TypeOK
<1>2. to \notin {"up", "verify"} /\ (to \in Guarded => pc[p] \in {"new_guard"} \cup Guarded)
        /\ (to \in Late \cup {"release"} => pc[p] \in {"add_key"} \cup Late)
  BY <1>0, AllSteps, Successors DEF Guarded, Late
<1> HIDE DEF to
<1>3. "new" \in guards => "new" \in guards'
  BY DEF M!Migrate
<1>4. pc[p] = "new_guard" => "new" \in guards'
  BY DEF M!Migrate
<1>5. guarded' => guards' # {}
  <2>1. CASE pc[p] = "old_guard"
    BY <2>1, <1>3 DEF BootInv, Guarded
  <2>2. CASE pc[p] # "old_guard"
    BY <2>2 DEF M!Migrate, BootInv
  <2> QED
    BY <2>1, <2>2
<1>6. \A q \in Procs : pc'[q] \in Guarded => "new" \in guards'
  BY <1>1, <1>2, <1>3, <1>4 DEF BootInv
<1>7. \A q \in Procs : pc'[q] = "up" => M!Complete'
  <2>1. schema \subseteq schema'
    BY DEF M!Migrate
  <2> QED
    BY <1>1, <1>2, <1>3, <2>1 DEF BootInv, M!Complete
<1>8. faults' = 0 => Orderly'
  <2>1. cascade = "cascade" => cascade' = "cascade"
    BY DEF M!Migrate
  <2>2. pc[p] = "add_key" => cascade' = "cascade"
    BY DEF M!Migrate
  <2> QED
    BY <1>0, <1>1, <1>2, <2>1, <2>2 DEF BootInv, Orderly
<1> QED
  BY <1>5, <1>6, <1>7, <1>8 DEF BootInv

(* A step that fails leads to the release, or on when it only warns.         *)
LEMMA StepFailsStep ==
  ASSUME ServiceAssumption, M!TypeOK, BootInv, NEW p \in Procs, M!StepFails(p)
  PROVE  BootInv'
<1>0. /\ pc[p] \in M!StepSet /\ UNCHANGED <<schema, guards, guarded, cascade, orphans, holder>>
      /\ faults \in Nat /\ (faults' = faults \/ faults' = faults + 1)
  BY DEF M!StepFails, M!Fault, M!database, M!TypeOK
<1>1. PICK to : /\ pc' = [pc EXCEPT ![p] = to]
                /\ \/ to = "release" /\ failed' = failed \cup {p} /\ pc[p] \in M!Mandatory
                   \/ /\ UNCHANGED failed /\ pc[p] \notin M!Mandatory
                      /\ to = M!After(IF pc[p] = "drop_key" THEN "add_key" ELSE pc[p])
  BY DEF M!StepFails, M!Goto
<1>2. \A q \in Procs : pc'[q] = IF q = p THEN to ELSE pc[q]
  BY <1>1 DEF M!TypeOK
<1>3. to \notin {"up", "verify"} /\ (to \in Guarded => pc[p] \in Guarded)
        /\ (to \in Late => pc[p] \in {"drop_key", "add_key"} \cup Late)
        /\ (to = "release" => p \in failed' \/ pc[p] \in Late)
        /\ to \in M!StepSet \cup {"release"}
  BY <1>0, <1>1, AllSteps, Successors DEF Guarded, Late, M!Mandatory
<1>4. faults' = 0 => faults = 0 /\ holder = p /\ pc[p] \in {"recorded_at", "add_key"}
                     /\ (pc[p] = "add_key" => orphans)
  <2>1. faults' = 0 => faults = 0 /\ UNCHANGED faults
    BY <1>0
  <2>2. faults = 0 => holder = p
    BY <1>0 DEF BootInv, Orderly
  <2> QED
    BY <2>1, <2>2, <1>0 DEF M!StepFails, M!Fault
<1>5. faults' = 0 => pc[p] = "recorded_at" /\ to = "release" /\ p \in failed'
  BY <1>1, <1>4 DEF BootInv, Orderly, M!Mandatory
<1>6. faults' = 0 => Orderly'
  BY <1>0, <1>1, <1>2, <1>3, <1>4, <1>5 DEF BootInv, Orderly, Late
<1>7. \A q \in Procs : pc'[q] = "up" => M!Complete'
  BY <1>0, <1>2, <1>3 DEF BootInv, M!Complete
<1> QED
  BY <1>0, <1>2, <1>3, <1>6, <1>7 DEF BootInv

LEMMA RetryGoes ==
  ASSUME NEW p \in Procs, M!Retry(p)
  PROVE  \E to \in {"down", "tables"} : pc' = [pc EXCEPT ![p] = to]
  BY DEF M!Retry, M!Goto

(* Every other step of a boot.                                               *)
LEMMA AdvanceStep ==
  ASSUME ServiceAssumption, M!TypeOK, BootInv, NEW p \in Procs, M!Advance(p)
  PROVE  BootInv'
<1>1. CASE M!Boot(p)
  BY <1>1, QuietBoot DEF M!Boot, M!Goto, M!database
<1>2. CASE M!CreateTables(p)
  BY <1>2, QuietBoot DEF M!CreateTables, M!Goto
<1>3. CASE M!GetLock(p)
  <2>1. /\ pc' = [pc EXCEPT ![p] = "columns"] /\ holder = Nobody /\ holder' = p
        /\ UNCHANGED <<schema, guards, guarded, cascade, orphans, failed, faults>>
    BY <1>3, Successors DEF M!GetLock, M!Goto, M!database
  <2>2. \A q \in Procs : pc'[q] = IF q = p THEN "columns" ELSE pc[q]
    BY <2>1 DEF M!TypeOK
  <2>3. \A q \in Procs : pc'[q] = "up" => M!Complete'
    BY <2>1, <2>2 DEF BootInv, M!Complete
  <2>4. faults' = 0 => Orderly'
    <3>1. faults' = 0 => \A q \in Procs : pc[q] \notin M!StepSet \cup {"release"}
      BY <2>1 DEF BootInv, Orderly, ServiceAssumption
    <3> QED
      BY <2>1, <2>2, <3>1 DEF BootInv, Orderly, Late
  <2> QED
    BY <2>1, <2>2, <2>3, <2>4 DEF BootInv, Guarded
<1>4. CASE M!Migrate(p)
  BY <1>4, MigrateStep
<1>5. CASE M!StepFails(p)
  BY <1>5, StepFailsStep
<1>6. CASE M!Release(p)
  <2>1. /\ holder' = (IF holder = p THEN Nobody ELSE holder) /\ failed' = failed \ {p}
        /\ pc[p] = "release" /\ UNCHANGED <<schema, guards, guarded, cascade, orphans, faults>>
    BY <1>6 DEF M!Release, M!database
  <2>2. CASE p \in failed \/ holder # p
    BY <1>6, <2>1, <2>2, RetryGoes, QuietBoot DEF M!Release
  <2>3. CASE ~(p \in failed \/ holder # p)
    <3>1. \A q \in Procs : pc'[q] = IF q = p THEN "verify" ELSE pc[q]
      BY <1>6, <2>3 DEF M!Release, M!Goto, M!TypeOK
    <3>2. \A q \in Procs : pc'[q] = "up" => M!Complete'
      BY <2>1, <3>1 DEF BootInv, M!Complete
    <3>3. faults' = 0 => Orderly'
      BY <2>1, <2>3, <3>1, AllSteps DEF BootInv, Orderly, Late
    <3> QED
      BY <2>1, <3>1, <3>2, <3>3 DEF BootInv, Guarded
  <2> QED
    BY <2>2, <2>3
<1>7. CASE M!Verify(p)
  <2>1. pc[p] = "verify" /\ UNCHANGED <<schema, guards, guarded, cascade, orphans, holder, failed, faults>>
    BY <1>7 DEF M!Verify, M!database
  <2>2. CASE M!Complete
    <3>1. \A q \in Procs : pc'[q] = IF q = p THEN "up" ELSE pc[q]
      BY <1>7, <2>2 DEF M!Verify, M!Goto, M!TypeOK
    <3>2. M!Complete'
      BY <2>1, <2>2 DEF M!Complete
    <3>3. faults' = 0 => Orderly'
      BY <2>1, <3>1, AllSteps DEF BootInv, Orderly, Late
    <3> QED
      BY <2>1, <3>1, <3>2, <3>3 DEF BootInv, Guarded
  <2>3. CASE ~M!Complete
    BY <1>7, <2>1, <2>3, RetryGoes, QuietBoot DEF M!Verify
  <2> QED
    BY <2>2, <2>3
<1> QED
  BY <1>1, <1>2, <1>3, <1>4, <1>5, <1>6, <1>7 DEF M!Advance

(* What fails around the steps counts as a fault.                            *)
LEMMA BreakStep ==
  ASSUME ServiceAssumption, M!TypeOK, BootInv, NEW p \in Procs,
         M!AttemptFails(p) \/ M!SessionDies(p) \/ M!Crash(p)
  PROVE  BootInv'
<1>0. faults' # 0 /\ UNCHANGED <<schema, guards, guarded, cascade, orphans>>
  BY DEF M!AttemptFails, M!SessionDies, M!Crash, M!Fault, M!TypeOK, M!database
<1>1. CASE UNCHANGED pc
  BY <1>0, <1>1 DEF BootInv, M!Complete
<1>2. CASE \E to \in {"down", "tables"} : pc' = [pc EXCEPT ![p] = to]
  BY <1>0, <1>2, QuietBoot
<1> QED
  BY <1>1, <1>2, RetryGoes DEF M!AttemptFails, M!SessionDies, M!Crash, M!Goto

(* The types of what the boots keep.                                         *)
LEMMA AfterType ==
  ASSUME NEW step \in M!StepSet \cup {"lock"}
  PROVE  M!After(step) \in M!StepSet \cup {"release"}
  BY AllSteps, Successors

LEMMA BootTypes ==
  ASSUME ServiceAssumption, M!TypeOK, NEW p \in Procs,
         M!Advance(p) \/ M!AttemptFails(p) \/ M!SessionDies(p) \/ M!Crash(p)
  PROVE  M!TypeOK'
<1> DEFINE Places == {"down", "tables", "lock", "release", "verify", "up"} \cup M!StepSet
<1>1. CASE M!Boot(p)
  BY <1>1, AllSteps DEF M!Boot, M!Goto, M!database, M!TypeOK, ServiceAssumption
<1>2. CASE M!CreateTables(p)
  BY <1>2, AllSteps DEF M!CreateTables, M!Goto, M!TypeOK, M!Parts
<1>3. CASE M!GetLock(p)
  BY <1>3, AllSteps, Successors DEF M!GetLock, M!Goto, M!database, M!TypeOK
<1>4. CASE M!Migrate(p)
  <2>1. M!After(pc[p]) \in M!StepSet \cup {"release"}
    BY <1>4, AfterType DEF M!Migrate
  <2>2. pc' \in [Procs -> Places] /\ pc'[p] \in M!StepSet \cup {"release"}
    BY <1>4, <2>1 DEF M!Migrate, M!Goto, M!TypeOK
  <2>3. schema' \subseteq M!Parts /\ guards' \subseteq {"old", "new"} /\ events' \subseteq Events
    BY <1>4 DEF M!Migrate, M!TypeOK
  <2>4. cascade' \in {"restrict", "cascade", "none"} /\ {guarded', orphans'} \subseteq BOOLEAN
    <3>1. cascade' \in {"restrict", "cascade", "none"}
      BY <1>4 DEF M!Migrate, M!TypeOK
    <3>2. guarded' \in BOOLEAN
      BY <1>4 DEF M!Migrate, M!TypeOK
    <3>3. orphans' \in BOOLEAN
      BY <1>4 DEF M!Migrate, M!TypeOK
    <3> QED
      BY <3>1, <3>2, <3>3
  <2>5. UNCHANGED <<holder, failed, attempt, faults>> /\ holder = p
    BY <1>4 DEF M!Migrate
  <2> QED
    BY <2>2, <2>3, <2>4, <2>5 DEF M!TypeOK
<1>5. CASE M!StepFails(p)
  <2>1. PICK to : /\ pc' = [pc EXCEPT ![p] = to] /\ failed' \in {failed, failed \cup {p}}
                  /\ to \in {"release", M!After(IF pc[p] = "drop_key" THEN "add_key" ELSE pc[p])}
    BY <1>5 DEF M!StepFails, M!Goto
  <2>2. to \in M!StepSet \cup {"release"}
    BY <1>5, <2>1, AfterType, AllSteps DEF M!StepFails
  <2>3. faults' \in 0..MaxFaults
    BY <1>5 DEF M!StepFails, M!Fault, M!TypeOK, ServiceAssumption
  <2>4. UNCHANGED <<schema, guards, guarded, cascade, orphans, events, holder, attempt>>
    BY <1>5 DEF M!StepFails, M!database
  <2> QED
    BY <2>1, <2>2, <2>3, <2>4 DEF M!TypeOK
<1>6. ASSUME M!Retry(p), pc[p] \in Places \ M!StepSet, holder' = (IF holder = p THEN Nobody ELSE holder),
             failed' \subseteq failed, faults' \in 0..MaxFaults, UNCHANGED M!database
      PROVE  M!TypeOK'
  <2>1. attempt' \in [Procs -> 0..MaxAttempts]
    BY <1>6 DEF M!Retry, M!TypeOK, ServiceAssumption
  <2> QED
    BY <1>6, <2>1, RetryGoes DEF M!TypeOK, M!database
<1>7. CASE M!Release(p)
  <2>1. CASE p \in failed \/ holder # p
    BY <1>7, <2>1, <1>6, AllSteps DEF M!Release, M!TypeOK
  <2>2. CASE ~(p \in failed \/ holder # p)
    BY <1>7, <2>2 DEF M!Release, M!Goto, M!TypeOK, M!database
  <2> QED
    BY <2>1, <2>2
<1>8. CASE M!Verify(p)
  <2>0. holder # p
    BY <1>8, AllSteps DEF M!Verify, M!TypeOK, ServiceAssumption
  <2>1. CASE M!Complete
    BY <1>8, <2>0, <2>1 DEF M!Verify, M!Goto, M!TypeOK, M!database
  <2>2. CASE ~M!Complete
    BY <1>8, <2>0, <2>2, <1>6, AllSteps DEF M!Verify, M!TypeOK
  <2> QED
    BY <2>1, <2>2
<1>9. CASE M!AttemptFails(p)
  <2>1. faults' \in 0..MaxFaults
    BY <1>9 DEF M!AttemptFails, M!Fault, M!TypeOK, ServiceAssumption
  <2>2. holder # p
    BY <1>9, AllSteps DEF M!AttemptFails, M!TypeOK, ServiceAssumption
  <2> QED
    BY <1>9, <2>1, <2>2, <1>6, AllSteps DEF M!AttemptFails
<1>10. CASE M!SessionDies(p)
  BY <1>10 DEF M!SessionDies, M!Fault, M!TypeOK, M!database, ServiceAssumption
<1>11. CASE M!Crash(p)
  BY <1>11 DEF M!Crash, M!Fault, M!Goto, M!TypeOK, M!database, ServiceAssumption
<1> QED
  BY <1>1, <1>2, <1>3, <1>4, <1>5, <1>7, <1>8, <1>9, <1>10, <1>11 DEF M!Advance
---------------------------------------------------------------------------
(* The service. *)

(* What does not boot leaves the boots as they are, and never takes back a   *)
(* fault.                                                                    *)
LEMMA ServeStep ==
  ASSUME ServiceAssumption, M!TypeOK, BootInv,
         \/ \E p \in Procs : StartScheduler(p)
         \/ Serve \/ Check \/ Submit \/ Elsewhere \/ UNCHANGED vars
  PROVE  (M!TypeOK /\ BootInv)'
<1>1. CASE Serve
  <2>1. /\ orphans' = TRUE /\ \E p \in Procs : pc[p] = "up" /\ cascade = "none"
        /\ UNCHANGED <<schema, guards, guarded, cascade, events, holder, pc, failed, attempt, faults>>
    BY <1>1 DEF Serve, M!DeleteReferred
  <2>2. faults # 0
    BY <2>1 DEF BootInv, Orderly
  <2> QED
    BY <2>1, <2>2 DEF M!TypeOK, BootInv, M!Complete
<1>2. ASSUME UNCHANGED <<boot, events>>, faults' \in {faults} \cup (IF faults < MaxFaults THEN {faults + 1} ELSE {})
      PROVE  (M!TypeOK /\ BootInv)'
  <2>1. /\ UNCHANGED <<schema, guards, guarded, cascade, orphans, holder, pc, failed, attempt, events>>
        /\ faults' \in 0..MaxFaults /\ (faults' = 0 => faults = 0)
    BY <1>2 DEF boot, M!TypeOK, ServiceAssumption
  <2> QED
    BY <2>1 DEF M!TypeOK, BootInv, Orderly, M!Complete
<1>3. CASE \E p \in Procs : StartScheduler(p)
  BY <1>2, <1>3 DEF StartScheduler
<1>4. CASE Check
  BY <1>2, <1>4 DEF Check, R!Check, R!StartCheck, R!Poll, R!SaveFinding, R!CompleteJob, R!EndCheck, R!Fails
<1>5. CASE Submit
  BY <1>2, <1>5 DEF Submit, R!Submit, R!RecordJob, R!CheckDies, R!Fails
<1>6. CASE Elsewhere
  BY <1>2, <1>6 DEF Elsewhere, R!EndBatch, R!ReviewNow
<1>7. CASE UNCHANGED vars
  BY <1>2, <1>7 DEF vars
<1> QED
  BY <1>1, <1>3, <1>4, <1>5, <1>6, <1>7

LEMMA InitBoots ==
  ASSUME ServiceAssumption, Init
  PROVE  M!TypeOK /\ BootInv
<1>1. \A p \in Procs : pc[p] = "down"
  BY DEF Init, M!Init
<1>2. BootInv
  BY <1>1, AllSteps DEF Init, M!Init, BootInv, Orderly, Guarded, Late
<1>3. M!TypeOK
  <2>1. /\ schema \subseteq M!Parts /\ guards \subseteq {"old", "new"} /\ events \subseteq Events
        /\ cascade \in {"restrict", "cascade", "none"}
    BY DEF Init, M!Init, M!Parts
  <2>2. guarded \in BOOLEAN /\ orphans \in BOOLEAN
    BY DEF Init, M!Init
  <2>3. /\ pc = [p \in Procs |-> "down"] /\ attempt = [p \in Procs |-> 0]
        /\ holder = Nobody /\ failed = {} /\ faults = 0
    BY DEF Init, M!Init
  <2>4. 0 \in 0..MaxAttempts /\ 0 \in 0..MaxFaults
    BY DEF ServiceAssumption
  <2> QED
    BY <2>1, <2>2, <2>3, <2>4 DEF M!TypeOK
<1> QED
  BY <1>2, <1>3

(* Service's GuardHolds, of create_tables and its readiness check under the  *)
(* advisory lock: for any number of processes, of retries and of faults, the *)
(* feed is never without its guard, and who serves has a complete schema.    *)
THEOREM GuardHoldsCorrect == Spec => []GuardHolds
<1>1. Init => M!TypeOK /\ BootInv
  BY InitBoots, ServiceAssumption
<1>2. M!TypeOK /\ BootInv /\ [Next]_vars => (M!TypeOK /\ BootInv)'
  <2> SUFFICES ASSUME M!TypeOK, BootInv, [Next]_vars
               PROVE  (M!TypeOK /\ BootInv)'
    OBVIOUS
  <2>1. ASSUME NEW p \in Procs, Boot(p) \/ Crash(p)
        PROVE  (M!TypeOK /\ BootInv)'
    <3>1. M!Advance(p) \/ M!AttemptFails(p) \/ M!SessionDies(p) \/ M!Crash(p)
      BY <2>1 DEF Boot, Crash
    <3> QED
      BY <3>1, AdvanceStep, BreakStep, BootTypes, ServiceAssumption
  <2> QED
    BY <2>1, ServeStep, ServiceAssumption DEF Next
<1>3. M!TypeOK /\ BootInv => GuardHolds
  <2>1. M!TypeOK /\ BootInv => \A p \in Procs : pc[p] = "up" /\ faults = 0 => cascade = "cascade"
    BY DEF BootInv, Orderly
  <2> QED
    BY <2>1 DEF BootInv, GuardHolds, M!GuardHolds
<1> QED
  BY <1>1, <1>2, <1>3, PTL DEF Spec
---------------------------------------------------------------------------
(* The types of the reviews and of the lease.                                *)

LEMMA LeastExists ==
  ASSUME NEW S \in SUBSET Nat, S # {}
  PROVE  R!Oldest(S) \in S
<1>1. PICK x \in S : \A y \in S : ~(<<y, x>> \in OpToRel(<, Nat))
  BY WFMin, NatLessThanWellFounded
<1>2. \A y \in S : ~(y < x)
  BY <1>1 DEF OpToRel
<1>3. \E z \in S : \A y \in S : z <= y
  BY <1>2
<1> QED
  BY <1>3 DEF R!Oldest

BatchRecord == [status : {"none", "running", "completed", "failed"}, items : SUBSET Events,
                good : SUBSET Events, bad : SUBSET Events]
CheckRecord == [on : BOOLEAN, todo : SUBSET Batches, batch : {0} \cup Batches,
                items : SUBSET Events, known : SUBSET Events]

LEMMA SubmitTypes ==
  ASSUME ServiceAssumption, R!TypeOK, R!Submit \/ R!RecordJob \/ R!CheckDies
  PROVE  R!TypeOK'
<1>1. CASE R!Submit
  <2> DEFINE free == {b \in Batches : batches[b] = R!NoBatch}
             new == [R!NoBatch EXCEPT !.status = "running", !.items = R!Unreviewed \ TooLarge]
  <2>1. R!Oldest(free) \in Batches
    BY <1>1, LeastExists, free \in SUBSET Nat DEF R!Submit, ServiceAssumption
  <2>2. new \in BatchRecord
    BY DEF BatchRecord, R!NoBatch, R!Unreviewed, R!TypeOK
  <2>3. batches' = [batches EXCEPT ![R!Oldest(free)] = new] /\ submitting' = R!Oldest(free)
        /\ UNCHANGED <<events, reviewed, jobs, checking, faults>>
    BY <1>1 DEF R!Submit
  <2>4. batches' \in [Batches -> BatchRecord]
    <3> HIDE DEF free, new
    <3> QED
      BY <2>1, <2>2, <2>3 DEF R!TypeOK, BatchRecord
  <2> QED
    BY <2>1, <2>3, <2>4 DEF R!TypeOK, BatchRecord
<1>2. CASE R!RecordJob
  BY <1>2 DEF R!RecordJob, R!Fails, R!TypeOK, ServiceAssumption
<1>3. CASE R!CheckDies
  <2>1. checking' \in CheckRecord
    BY <1>3 DEF R!CheckDies, R!NotChecking, CheckRecord
  <2> QED
    BY <1>3, <2>1 DEF R!CheckDies, R!Fails, R!TypeOK, CheckRecord, ServiceAssumption
<1> QED
  BY <1>1, <1>2, <1>3

LEMMA CheckTypes ==
  ASSUME ServiceAssumption, R!TypeOK, R!Check
  PROVE  R!TypeOK'
<1>0. R!NotChecking \in CheckRecord
  BY DEF R!NotChecking, CheckRecord
<1>1. CASE R!StartCheck
  <2>1. checking' \in CheckRecord
    BY <1>0, <1>1 DEF R!StartCheck, R!Pending, CheckRecord
  <2> QED
    BY <1>1, <2>1 DEF R!StartCheck, R!TypeOK, CheckRecord
<1>2. CASE R!Poll
  <2> DEFINE b == R!Oldest(checking.todo)
             next == [checking EXCEPT !.todo = @ \ {b}]
             loaded == [next EXCEPT !.batch = b, !.items = R!Answers(b), !.known = events]
  <2>1. b \in Batches
    BY <1>2, LeastExists, checking.todo \in SUBSET Nat DEF R!Poll, R!TypeOK, ServiceAssumption
  <2>2. next \in CheckRecord
    BY DEF R!TypeOK, CheckRecord
  <2>3. R!Answers(b) \in SUBSET Events /\ events \in SUBSET Events
        /\ batches[b].status \in {"none", "running", "completed", "failed"}
    BY <2>1 DEF R!TypeOK, R!Answers
  <2>4. loaded \in CheckRecord
    BY <2>1, <2>2, <2>3 DEF CheckRecord
  <2>5. /\ \/ batches[b].status # "completed" /\ jobs' = [jobs EXCEPT ![b] = batches[b].status]
           \/ jobs' = [jobs EXCEPT ![b] = "failed"]
           \/ UNCHANGED jobs
        /\ checking' \in {next, loaded} /\ UNCHANGED <<events, reviewed, batches, submitting>>
        /\ UNCHANGED faults \/ R!Fails
    BY <1>2 DEF R!Poll
  <2> HIDE DEF b, next, loaded
  <2>6. jobs' \in [Batches -> {"none", "submitted", "running", "completed", "failed"}]
    BY <2>1, <2>3, <2>5 DEF R!TypeOK
  <2>7. checking' \in CheckRecord
    BY <2>2, <2>4, <2>5
  <2>8. faults' \in 0..MaxFaults
    BY <2>5 DEF R!Fails, R!TypeOK, ServiceAssumption
  <2> QED
    BY <2>5, <2>6, <2>7, <2>8 DEF R!TypeOK, CheckRecord
<1>3. CASE R!SaveFinding
  <2>1. PICK e \in checking.items :
          \/ checking' = R!NotChecking /\ UNCHANGED reviewed
          \/ /\ e \in checking.known => e \in events
             /\ checking' = [checking EXCEPT !.items = @ \ {e}]
             /\ reviewed' = reviewed \cup ({e} \cap checking.known)
    BY <1>3 DEF R!SaveFinding, R!MayRaise, R!MayPass
  <2>2. checking' \in CheckRecord
    BY <1>0, <2>1 DEF R!TypeOK, CheckRecord
  <2>3. reviewed' \subseteq events
    BY <2>1 DEF R!TypeOK
  <2> QED
    BY <1>3, <2>2, <2>3 DEF R!SaveFinding, R!TypeOK, CheckRecord
<1>4. CASE R!CompleteJob
  <2>1. checking' \in CheckRecord
    BY <1>4 DEF R!CompleteJob, R!TypeOK, CheckRecord
  <2> QED
    BY <1>4, <2>1 DEF R!CompleteJob, R!TypeOK, CheckRecord
<1>5. CASE R!EndCheck
  BY <1>0, <1>5 DEF R!EndCheck, R!TypeOK, CheckRecord
<1> QED
  BY <1>1, <1>2, <1>3, <1>4, <1>5 DEF R!Check

LEMMA OtherReviewTypes ==
  ASSUME ServiceAssumption, R!TypeOK
  PROVE  /\ Elsewhere => R!TypeOK'
         /\ UNCHANGED review /\ UNCHANGED events /\ faults' \in 0..MaxFaults => R!TypeOK'
         /\ R!Die /\ UNCHANGED events /\ faults' \in 0..MaxFaults => R!TypeOK'
<1>1. ASSUME NEW b \in Batches, R!EndBatch(b)
      PROVE  R!TypeOK'
  <2>1. PICK end \in BatchRecord : batches' = [batches EXCEPT ![b] = end]
    <3>1. batches[b] \in BatchRecord
      BY DEF R!TypeOK, BatchRecord
    <3>2. ASSUME NEW good \in SUBSET batches[b].items, NEW bad \in SUBSET batches[b].items,
                 batches' = [batches EXCEPT ![b].status = "completed", ![b].good = good, ![b].bad = bad]
          PROVE  \E end \in BatchRecord : batches' = [batches EXCEPT ![b] = end]
      <4> DEFINE done == [[[batches[b] EXCEPT !.status = "completed"] EXCEPT !.good = good] EXCEPT !.bad = bad]
      <4>1. done \in BatchRecord
        BY <3>1, <3>2 DEF BatchRecord
      <4>2. batches' = [batches EXCEPT ![b] = done]
        BY <3>2 DEF R!TypeOK
      <4> HIDE DEF done
      <4> QED
        BY <4>1, <4>2
    <3>3. CASE batches' = [batches EXCEPT ![b].status = "failed"]
      <4>1. [batches[b] EXCEPT !.status = "failed"] \in BatchRecord
        BY <3>1 DEF BatchRecord
      <4> QED
        BY <3>3, <4>1
    <3> QED
      BY <1>1, <3>2, <3>3 DEF R!EndBatch
  <2> QED
    BY <1>1, <2>1 DEF R!EndBatch, R!TypeOK, BatchRecord
<1>2. ASSUME NEW e \in Events, R!ReviewNow(e)
      PROVE  R!TypeOK'
  BY <1>2 DEF R!ReviewNow, R!TypeOK
<1>3. ASSUME UNCHANGED review, UNCHANGED events, faults' \in 0..MaxFaults
      PROVE  R!TypeOK'
  BY <1>3 DEF review, R!TypeOK
<1>4. ASSUME R!Die, UNCHANGED events, faults' \in 0..MaxFaults
      PROVE  R!TypeOK'
  <2>1. checking' \in CheckRecord
    BY <1>4 DEF R!Die, R!NotChecking, CheckRecord
  <2> QED
    BY <1>4, <2>1 DEF R!Die, R!TypeOK, CheckRecord
<1> QED
  BY <1>1, <1>2, <1>3, <1>4 DEF Elsewhere

(* The lease is with a process that is up, and what only the one with the    *)
(* lease does rests without one.                                             *)
LeaseInv ==
  /\ leader \in Procs \cup {Nobody}
  /\ leader # Nobody => pc[leader] = "up" /\ leader \in asked
  /\ leader = Nobody => ~checking.on /\ submitting = 0

(* A boot does not touch a process that is up.                               *)
LEMMA UpStays ==
  ASSUME M!TypeOK, NEW p \in Procs, NEW q \in Procs, pc[q] = "up",
         \/ M!Advance(p) \/ M!AttemptFails(p) \/ M!SessionDies(p)
         \/ M!Crash(p) /\ p # q
  PROVE  pc'[q] = "up"
<1>1. UNCHANGED pc \/ \E to : pc' = [pc EXCEPT ![p] = to]
  BY DEF M!Advance, M!Boot, M!CreateTables, M!GetLock, M!Migrate, M!StepFails, M!Release, M!Verify,
         M!AttemptFails, M!SessionDies, M!Crash, M!Retry, M!Goto
<1>2. pc[p] = "up" => ~M!Advance(p) /\ ~M!AttemptFails(p)
  BY AllSteps DEF M!Advance, M!Boot, M!CreateTables, M!GetLock, M!Migrate, M!StepFails, M!Release,
         M!Verify, M!AttemptFails
<1>3. p = q => UNCHANGED pc
  BY <1>2 DEF M!SessionDies
<1> QED
  BY <1>1, <1>3 DEF M!TypeOK

LEMMA BootKeepsLease ==
  ASSUME ServiceAssumption, M!TypeOK, M!TypeOK', R!TypeOK, LeaseInv, NEW p \in Procs, Boot(p)
  PROVE  R!TypeOK' /\ LeaseInv'
<1>1. /\ reviewed' = reviewed \cap events' /\ UNCHANGED <<batches, jobs, submitting, checking, leader, asked>>
      /\ M!Advance(p) \/ M!AttemptFails(p) \/ M!SessionDies(p)
  BY DEF Boot
<1>2. R!TypeOK'
  BY <1>1 DEF M!TypeOK, R!TypeOK
<1> QED
  BY <1>1, <1>2, UpStays DEF LeaseInv

LEMMA CrashKeepsLease ==
  ASSUME ServiceAssumption, M!TypeOK, M!TypeOK', R!TypeOK, LeaseInv, NEW p \in Procs, Crash(p)
  PROVE  R!TypeOK' /\ LeaseInv'
<1>1. UNCHANGED events /\ faults' \in 0..MaxFaults /\ M!Crash(p) /\ asked' = asked \ {p}
  BY DEF Crash, M!Crash, M!database, M!TypeOK
<1>2. CASE leader = p
  <2>1. R!Die /\ leader' = Nobody
    BY <1>2 DEF Crash
  <2>2. ~checking'.on /\ submitting' = 0
    BY <2>1 DEF R!Die, R!NotChecking
  <2> QED
    BY <1>1, <2>1, <2>2, OtherReviewTypes DEF LeaseInv
<1>3. CASE leader # p
  <2>1. UNCHANGED <<review, leader>>
    BY <1>3 DEF Crash
  <2>2. leader # Nobody => pc'[leader] = "up"
    BY <1>1, <1>3, UpStays DEF LeaseInv
  <2> QED
    BY <1>1, <1>3, <2>1, <2>2, OtherReviewTypes DEF LeaseInv, review
<1> QED
  BY <1>2, <1>3

LEMMA ServeKeepsLease ==
  ASSUME ServiceAssumption, M!TypeOK, M!TypeOK', R!TypeOK, LeaseInv,
         \/ \E p \in Procs : StartScheduler(p)
         \/ Serve \/ Check \/ Submit \/ Elsewhere \/ UNCHANGED vars
  PROVE  R!TypeOK' /\ LeaseInv'
<1>0. faults' \in 0..MaxFaults
  BY DEF M!TypeOK
<1>1. CASE \E p \in Procs : StartScheduler(p)
  BY <1>0, <1>1, OtherReviewTypes DEF StartScheduler, boot, LeaseInv, review
<1>2. CASE Serve
  BY <1>0, <1>2, OtherReviewTypes DEF Serve, M!DeleteReferred, LeaseInv, review
<1>3. CASE Check
  BY <1>3, CheckTypes DEF Check, boot, LeaseInv
<1>4. CASE Submit
  BY <1>4, SubmitTypes DEF Submit, boot, LeaseInv
<1>5. CASE Elsewhere
  <2>1. UNCHANGED <<submitting, checking>>
    BY <1>5 DEF Elsewhere, R!EndBatch, R!ReviewNow
  <2> QED
    BY <1>5, <2>1, OtherReviewTypes DEF Elsewhere, boot, LeaseInv
<1>6. CASE UNCHANGED vars
  BY <1>0, <1>6, OtherReviewTypes DEF vars, boot, review, LeaseInv
<1> QED
  BY <1>1, <1>2, <1>3, <1>4, <1>5, <1>6

(* Service's TypeOK, of the boots, the review jobs and the lease: its last   *)
(* part is the invariant that the review jobs run only in the process that   *)
(* start_scheduler gave the lease to.                                        *)
THEOREM ServiceTypeCorrect == Spec => []TypeOK
<1> DEFINE Inv == M!TypeOK /\ BootInv /\ R!TypeOK /\ LeaseInv
<1>1. Init => Inv
  <2> SUFFICES ASSUME Init
               PROVE  Inv
    OBVIOUS
  <2>1. M!TypeOK /\ BootInv
    BY InitBoots, ServiceAssumption
  <2>2. R!TypeOK
    <3>1. R!NoBatch \in BatchRecord /\ R!NotChecking \in CheckRecord
      BY DEF R!NoBatch, R!NotChecking, BatchRecord, CheckRecord
    <3> QED
      BY <2>1, <3>1 DEF Init, R!Init, R!TypeOK, M!TypeOK, BatchRecord, CheckRecord
  <2>3. LeaseInv
    BY DEF Init, R!Init, R!NotChecking, LeaseInv
  <2> QED
    BY <2>1, <2>2, <2>3
<1>2. Inv /\ [Next]_vars => Inv'
  <2> SUFFICES ASSUME M!TypeOK, BootInv, R!TypeOK, LeaseInv, [Next]_vars
               PROVE  M!TypeOK' /\ BootInv' /\ R!TypeOK' /\ LeaseInv'
    OBVIOUS
  <2>1. ASSUME NEW p \in Procs, Boot(p) \/ Crash(p)
        PROVE  M!TypeOK' /\ BootInv' /\ R!TypeOK' /\ LeaseInv'
    <3>1. M!Advance(p) \/ M!AttemptFails(p) \/ M!SessionDies(p) \/ M!Crash(p)
      BY <2>1 DEF Boot, Crash
    <3>2. M!TypeOK' /\ BootInv'
      BY <3>1, AdvanceStep, BreakStep, BootTypes, ServiceAssumption
    <3> QED
      BY <2>1, <3>2, BootKeepsLease, CrashKeepsLease, ServiceAssumption
  <2>2. ASSUME \/ \E p \in Procs : StartScheduler(p)
               \/ Serve \/ Check \/ Submit \/ Elsewhere \/ UNCHANGED vars
        PROVE  M!TypeOK' /\ BootInv' /\ R!TypeOK' /\ LeaseInv'
    BY <2>2, ServeStep, ServeKeepsLease, ServiceAssumption
  <2> QED
    BY <2>1, <2>2 DEF Next
<1>3. Inv => TypeOK
  BY DEF TypeOK, LeaseInv
<1> QED
  BY <1>1, <1>2, <1>3, PTL DEF Spec

---------------------------------------------------------------------------
(* The findings. *)

Found(b) == batches[b].good \cap events

(* Only a batch that the service completed has results.  What a check has in *)
(* hand are the findings of a completed batch that are not saved yet, and    *)
(* nothing exists that it did not load.                                      *)
FindingsInv ==
  /\ \A b \in Batches : batches[b].status # "completed" => batches[b].good = {}
  /\ \A b \in Batches : jobs[b] \in {"completed", "failed"} =>
       batches[b].status \in {"completed", "failed"} /\ Found(b) \subseteq reviewed
  /\ checking.batch # 0 =>
       /\ batches[checking.batch].status = "completed" /\ events \subseteq checking.known
       /\ Found(checking.batch) \subseteq reviewed \cup checking.items

LEMMA SubmitKeepsFindings ==
  ASSUME ServiceAssumption, R!TypeOK, FindingsInv, R!Submit
  PROVE  FindingsInv'
<1> DEFINE free == {b \in Batches : batches[b] = R!NoBatch}
           new == [R!NoBatch EXCEPT !.status = "running", !.items = R!Unreviewed \ TooLarge]
<1>1. R!Oldest(free) \in free
  BY LeastExists, free \in SUBSET Nat DEF R!Submit, ServiceAssumption
<1>2. PICK b \in free : batches' = [batches EXCEPT ![b] = new]
  BY <1>1 DEF R!Submit
<1>3. batches[b].status = "none" /\ batches'[b] = new /\ \A c \in Batches \ {b} : batches'[c] = batches[c]
  BY <1>2 DEF R!NoBatch, R!TypeOK
<1>4. UNCHANGED <<events, reviewed, jobs, checking>>
  BY DEF R!Submit
<1>5. new.status = "running" /\ new.good = {}
  BY DEF R!NoBatch
<1> HIDE DEF new, free
<1>6. jobs[b] \notin {"completed", "failed"} /\ checking.batch # b
  BY <1>2, <1>3 DEF FindingsInv, free, ServiceAssumption
<1>7. checking.batch # 0 => checking.batch \in Batches
  BY DEF R!TypeOK
<1> QED
  BY <1>3, <1>4, <1>5, <1>6, <1>7 DEF FindingsInv, Found

LEMMA EndKeepsFindings ==
  ASSUME ServiceAssumption, R!TypeOK, FindingsInv, NEW b \in Batches, R!EndBatch(b)
  PROVE  FindingsInv'
<1>1. /\ batches[b].status = "running" /\ UNCHANGED <<events, reviewed, jobs, checking>>
      /\ \A c \in Batches \ {b} : batches'[c] = batches[c]
  BY DEF R!EndBatch, R!TypeOK
<1>2. \/ batches'[b].status = "completed"
      \/ batches'[b].status = "failed" /\ batches'[b].good = batches[b].good
  <2>1. CASE batches' = [batches EXCEPT ![b].status = "failed"]
    BY <2>1 DEF R!TypeOK
  <2>2. ASSUME NEW good, NEW bad,
               batches' = [batches EXCEPT ![b].status = "completed", ![b].good = good, ![b].bad = bad]
        PROVE  batches'[b].status = "completed"
    BY <2>2 DEF R!TypeOK
  <2> QED
    BY <2>1, <2>2 DEF R!EndBatch
<1>3. jobs[b] \notin {"completed", "failed"} /\ checking.batch # b
  BY <1>1 DEF FindingsInv, ServiceAssumption
<1>4. checking.batch # 0 => checking.batch \in Batches
  BY DEF R!TypeOK
<1> QED
  BY <1>1, <1>2, <1>3, <1>4 DEF FindingsInv, Found

LEMMA PollKeepsFindings ==
  ASSUME ServiceAssumption, R!TypeOK, FindingsInv, R!Poll
  PROVE  FindingsInv'
<1> DEFINE b == R!Oldest(checking.todo)
           next == [checking EXCEPT !.todo = @ \ {b}]
           loaded == [next EXCEPT !.batch = b, !.items = R!Answers(b), !.known = events]
<1>1. b \in Batches
  BY LeastExists, checking.todo \in SUBSET Nat DEF R!Poll, R!TypeOK, ServiceAssumption
<1>2. checking.batch = 0 /\ next.batch = 0
  BY DEF R!Poll, R!TypeOK
<1>3. UNCHANGED <<events, reviewed, batches>>
  BY DEF R!Poll
<1>4. loaded.batch = b /\ batches[b].good \subseteq loaded.items /\ loaded.known = events
  BY DEF R!TypeOK, R!Answers
<1>5. \/ batches[b].status # "completed" /\ jobs' = [jobs EXCEPT ![b] = batches[b].status] /\ checking' = next
      \/ batches[b].status = "completed" /\ R!Answers(b) = {}
           /\ jobs' = [jobs EXCEPT ![b] = "failed"] /\ checking' = next
      \/ batches[b].status = "completed" /\ checking' = loaded /\ UNCHANGED jobs
      \/ checking' = next /\ UNCHANGED jobs
  BY DEF R!Poll
<1> HIDE DEF b, next, loaded
<1>6. \A c \in Batches \ {b} : jobs'[c] = jobs[c]
  BY <1>5 DEF R!TypeOK
<1>7. jobs'[b] \in {"completed", "failed"} =>
        batches[b].status \in {"completed", "failed"} /\ Found(b) \subseteq reviewed
  BY <1>1, <1>5 DEF R!TypeOK, FindingsInv, Found, R!Answers
<1>8. checking'.batch # 0 => checking' = loaded /\ batches[b].status = "completed"
  BY <1>2, <1>5
<1> QED
  BY <1>1, <1>3, <1>4, <1>6, <1>7, <1>8 DEF FindingsInv, Found

LEMMA SaveKeepsFindings ==
  ASSUME R!TypeOK, FindingsInv, R!SaveFinding
  PROVE  FindingsInv'
<1>1. PICK e \in checking.items :
        \/ checking' = R!NotChecking /\ UNCHANGED reviewed
        \/ /\ checking' = [checking EXCEPT !.items = @ \ {e}]
           /\ reviewed' = reviewed \cup ({e} \cap checking.known)
  BY DEF R!SaveFinding
<1>2. UNCHANGED <<events, batches, jobs>> /\ checking.batch # 0
  BY DEF R!SaveFinding
<1>3. reviewed \subseteq reviewed'
  BY <1>1
<1>4. CASE checking' = R!NotChecking
  BY <1>2, <1>3, <1>4 DEF FindingsInv, Found, R!NotChecking
<1>5. CASE checking' # R!NotChecking
  <2>1. /\ checking'.batch = checking.batch /\ checking'.known = checking.known
        /\ checking'.items = checking.items \ {e}
        /\ reviewed' = reviewed \cup ({e} \cap checking.known)
    BY <1>1, <1>5 DEF R!TypeOK
  <2>2. Found(checking.batch)' \subseteq reviewed' \cup checking'.items
    BY <1>2, <2>1 DEF FindingsInv, Found
  <2> QED
    BY <1>2, <1>3, <2>1, <2>2 DEF FindingsInv, Found
<1> QED
  BY <1>4, <1>5

LEMMA FindingsStep ==
  ASSUME ServiceAssumption, M!TypeOK, R!TypeOK, FindingsInv, [Next]_vars
  PROVE  FindingsInv'
<1>1. ASSUME UNCHANGED <<batches, jobs>>, events' \subseteq events, reviewed \cap events' \subseteq reviewed',
             checking'.batch = 0 \/ UNCHANGED checking
      PROVE  FindingsInv'
  BY <1>1 DEF FindingsInv, Found
<1>2. ASSUME NEW p \in Procs, Boot(p) \/ Crash(p) \/ StartScheduler(p)
      PROVE  FindingsInv'
  <2>1. CASE Boot(p)
    <3>1. events' \subseteq events
      BY <2>1 DEF Boot, M!Advance, M!Boot, M!CreateTables, M!GetLock, M!Migrate, M!StepFails, M!Release,
                  M!Verify, M!AttemptFails, M!SessionDies, M!database
    <3> QED
      BY <1>1, <2>1, <3>1 DEF Boot
  <2>2. CASE Crash(p)
    BY <1>1, <2>2 DEF Crash, M!Crash, M!database, R!Die, R!NotChecking, review
  <2>3. CASE StartScheduler(p)
    BY <1>1, <2>3 DEF StartScheduler, review
  <2> QED
    BY <1>2, <2>1, <2>2, <2>3
<1>3. CASE Serve \/ UNCHANGED vars
  BY <1>1, <1>3 DEF Serve, M!DeleteReferred, review, vars
<1>4. CASE Check
  <2>1. CASE R!StartCheck
    BY <1>1, <2>1 DEF R!StartCheck, R!NotChecking
  <2>2. CASE R!CompleteJob
    <3>1. checking.batch \in Batches /\ checking'.batch = 0
      BY <2>2 DEF R!CompleteJob, R!TypeOK
    <3>2. UNCHANGED <<events, reviewed, batches>> /\ jobs' = [jobs EXCEPT ![checking.batch] = "completed"]
      BY <2>2 DEF R!CompleteJob
    <3>3. Found(checking.batch) \subseteq reviewed /\ batches[checking.batch].status = "completed"
      BY <2>2 DEF R!CompleteJob, FindingsInv
    <3> QED
      BY <3>1, <3>2, <3>3 DEF FindingsInv, Found, R!TypeOK
  <2>3. CASE R!EndCheck
    BY <1>1, <2>3 DEF R!EndCheck, R!NotChecking
  <2> QED
    BY <1>4, <2>1, <2>2, <2>3, PollKeepsFindings, SaveKeepsFindings DEF Check, R!Check
<1>5. CASE Submit
  <2>1. CASE R!RecordJob
    <3>1. UNCHANGED <<events, reviewed, batches, checking>>
      BY <2>1 DEF R!RecordJob
    <3>2. \A b \in Batches : jobs'[b] \in {"completed", "failed"} => jobs'[b] = jobs[b]
      BY <2>1 DEF R!RecordJob, R!TypeOK
    <3> QED
      BY <3>1, <3>2 DEF FindingsInv, Found
  <2>2. CASE R!CheckDies
    BY <1>1, <2>2 DEF R!CheckDies, R!NotChecking
  <2> QED
    BY <1>5, <2>1, <2>2, SubmitKeepsFindings DEF Submit
<1>6. CASE Elsewhere
  <2>1. ASSUME NEW e \in Events, R!ReviewNow(e)
        PROVE  FindingsInv'
    BY <2>1 DEF R!ReviewNow, FindingsInv, Found
  <2> QED
    BY <1>6, <2>1, EndKeepsFindings DEF Elsewhere
<1> QED
  BY <1>2, <1>3, <1>4, <1>5, <1>6 DEF Next

(* Service's DoneIsSaved, of process_batch_results and its check: a job that *)
(* is done has saved what its batch found, for any number of batches and     *)
(* wherever checks, processes and boots came in between.                     *)
THEOREM DoneIsSavedCorrect == Spec => []DoneIsSaved
<1>1. Init => FindingsInv
  BY DEF Init, R!Init, R!NoBatch, R!NotChecking, FindingsInv
<1>2. M!TypeOK /\ R!TypeOK /\ FindingsInv /\ [Next]_vars => FindingsInv'
  BY FindingsStep, ServiceAssumption
<1>3. FindingsInv => DoneIsSaved
  BY DEF FindingsInv, DoneIsSaved, Found
<1>4. TypeOK => M!TypeOK /\ R!TypeOK
  BY DEF TypeOK
<1> QED
  BY <1>1, <1>2, <1>3, <1>4, ServiceTypeCorrect, PTL DEF Spec
===========================================================================
