----------------------------- MODULE PaperFeedProofs -----------------------------
(***************************************************************************)
(* Theorems of PaperFeed, for every choice of pages, extractors, readings   *)
(* and bounds.                                                             *)
(***************************************************************************)
EXTENDS PaperFeed, TLAPS, SequenceTheorems, WellFoundedInduction

(* The status never falls, and reaches what was read when that is a climb.  *)
LEMMA EffectiveClimbs ==
  ASSUME NEW old \in Status, NEW new \in Status
  PROVE  /\ Effective(old, new) \in Status
         /\ Effective(old, new) >= old
         /\ Progression(old, new) => Effective(old, new) = new /\ new > old
  BY DEF Effective, Progression, Status, NoStatus, Published

(* An interesting transition is a climb between two known statuses.         *)
LEMMA InterestingClimbs ==
  ASSUME NEW c \in Interesting
  PROVE  c \in Status \X Status /\ c[1] < c[2]
  BY DEF Interesting, Status, NoStatus, WorkInProgress, WorkingPaper, ReviseResubmit,
         Accepted, Published

-------------------------------------------------------------------------------
(* Type correctness.                                                       *)

(* What the types alone do not say: a paper without a row has no status, and *)
(* what a run is about to write may be written.                            *)
Facts ==
  /\ listed = {} => status = NoStatus
  /\ \A e \in Extractors : ~At(e, "idle") => job[e].url \in Urls
  /\ \A e \in Extractors : Announcing(e) => listed # {}
  /\ \A e \in Extractors : At(e, "emitting") => job[e].reading \in WorkInProgress..Accepted
  /\ \A e \in Extractors : At(e, "telling") => job[e].climb \in Interesting

FeedInv == TypeOK /\ Facts

(* The types hold initially.                                               *)
LEMMA InitFeedInv == Init => FeedInv
<1> SUFFICES ASSUME Init PROVE FeedInv
  OBVIOUS
<1>1. JobIdle \in Job
  BY DEF JobIdle, Job, Steps, NoClimb, Status, NoStatus, Published
<1>2. job \in [Extractors -> Job] /\ \A e \in Extractors : job[e] = JobIdle
  BY <1>1 DEF Init
<1>3. \A e \in Extractors : At(e, "idle")
  BY <1>2 DEF At, JobIdle
<1>4. Facts
  BY <1>3 DEF Facts, At, Announcing, Init
<1>5. /\ news \in Seq(WorkInProgress..Accepted) /\ changes \in Seq(Interesting)
      /\ dates \in Seq(Dates) /\ Len(dates) = Len(changes) /\ gone = {}
  BY DEF Init
<1>6. status \in Status /\ raw \in Status /\ first \in Status
  BY DEF Init, Status, NoStatus, Published
<1>7. runs \in 0..MaxRuns /\ faults \in 0..MaxFaults
  BY FeedAssumption DEF Init
<1> QED
  BY <1>2, <1>4, <1>5, <1>6, <1>7 DEF FeedInv, TypeOK, Init

(* A step of e that leaves the other runs alone and the shared tables        *)
(* well-typed preserves the facts if it leaves e's run in order.           *)
LEMMA JobStep ==
  ASSUME FeedInv, NEW e \in Extractors, NEW x \in Job,
         job' = [job EXCEPT ![e] = x],
         listed \subseteq listed',
         listed' = {} => status' = NoStatus,
         x.pc # "idle" => x.url \in Urls,
         x.pc \in {"saved", "emitting"} => listed' # {},
         x.pc = "emitting" => x.reading \in WorkInProgress..Accepted,
         x.pc = "telling" => x.climb \in Interesting
  PROVE  job' \in [Extractors -> Job] /\ Facts'
<1>1. job \in [Extractors -> Job]
  BY DEF FeedInv, TypeOK
<1>2. job' \in [Extractors -> Job] /\ job'[e] = x
  BY <1>1
<1>3. \A f \in Extractors \ {e} : job'[f] = job[f]
  BY <1>1
<1>4. ASSUME NEW f \in Extractors, f # e
      PROVE  /\ job'[f].pc # "idle" => job'[f].url \in Urls
             /\ job'[f].pc \in {"saved", "emitting"} => listed' # {}
             /\ job'[f].pc = "emitting" => job'[f].reading \in WorkInProgress..Accepted
             /\ job'[f].pc = "telling" => job'[f].climb \in Interesting
  BY <1>3, <1>4 DEF FeedInv, Facts, Announcing, At
<1> QED
  BY <1>2, <1>4 DEF Facts, Announcing, At

(* Only the step of e's run changes.                                       *)
Moves(e, to) ==
  /\ job' = [job EXCEPT ![e].pc = to]
  /\ job[e].pc # "idle"

(* A run that goes to a step with nothing to write.                        *)
LEMMA MoveStep ==
  ASSUME FeedInv, NEW e \in Extractors, NEW to \in {"append", "marking"}, Moves(e, to),
         listed' = listed, listed' = {} => status' = NoStatus
  PROVE  job' \in [Extractors -> Job] /\ Facts'
<1> DEFINE x == [job[e] EXCEPT !.pc = to]
<1>1. job[e] \in Job
  BY DEF FeedInv, TypeOK
<1>2. x \in Job /\ x.pc = to /\ x.url = job[e].url
  BY <1>1 DEF Job, Steps
<1>3. job' = [job EXCEPT ![e] = x]
  BY DEF Moves, FeedInv, TypeOK
<1>4. job[e].url \in Urls
  BY DEF Moves, FeedInv, Facts, At
<1> HIDE DEF x
<1> QED
  BY <1>2, <1>3, <1>4, JobStep

(* A run that is past its announcement.                                    *)
LEMMA AnnouncedStep ==
  ASSUME FeedInv, NEW e \in Extractors, job[e].pc # "idle",
         job' = [job EXCEPT ![e] = Announced(e)], listed' = listed, status' = status
  PROVE  job' \in [Extractors -> Job] /\ Facts'
<1>1. job[e] \in Job
  BY DEF FeedInv, TypeOK
<1>2. Announced(e) \in Job /\ Announced(e).pc = "append" /\ Announced(e).url = job[e].url
  BY <1>1 DEF Announced, Job, Steps
<1>3. job[e].url \in Urls
  BY DEF FeedInv, Facts, At
<1> QED
  BY <1>2, <1>3, JobStep DEF FeedInv, Facts

(* What a snapshot does to the run: it tells an interesting climb from the   *)
(* status that was to the one it read, or it has nothing to tell.          *)
LEMMA SnapshotRun ==
  ASSUME FeedInv, NEW e \in Extractors, NEW stale \in BOOLEAN, Snapshot(e, stale)
  PROVE  \E x \in Job :
           /\ x.pc \in {"telling", "marking"} /\ x.url = job[e].url
           /\ x.pc = "telling" => /\ x.climb \in Interesting
                                  /\ x.climb = <<status, job[e].reading>>
                                  /\ Progression(status, job[e].reading)
           /\ job' = [job EXCEPT ![e] = x]
<1> DEFINE told == ~job[e].seed /\ Progression(status, job[e].reading)
                     /\ <<status, job[e].reading>> \in Interesting /\ ~stale
           climb == IF told THEN <<status, job[e].reading>> ELSE NoClimb
           x == [job[e] EXCEPT !.pc = IF told THEN "telling" ELSE "marking", !.climb = climb]
<1>1. job[e] \in Job /\ status \in Status
  BY DEF FeedInv, TypeOK
<1>2. climb \in Status \X Status
  BY <1>1 DEF Job, NoClimb, Status, NoStatus, Published
<1>3. x \in Job
  <2> HIDE DEF climb, told
  <2> QED
    BY <1>1, <1>2 DEF Job, Steps
<1>4. /\ x.pc = IF told THEN "telling" ELSE "marking"
      /\ x.url = job[e].url /\ x.climb = climb
  <2> HIDE DEF climb, told
  <2> QED
    BY <1>1 DEF Job
<1>5. job' = [job EXCEPT ![e] = x]
  BY DEF Snapshot, FeedInv, TypeOK
<1>6. x.pc = "telling" => told /\ x.climb = <<status, job[e].reading>>
  <2> HIDE DEF x
  <2> QED
    BY <1>4
<1>7. x.pc \in {"telling", "marking"} /\ x.url = job[e].url
  <2> HIDE DEF x, told
  <2> QED
    BY <1>4
<1> HIDE DEF x
<1> QED
  BY <1>3, <1>5, <1>6, <1>7

(* Every step preserves the types and the facts.                           *)
LEMMA StepFeedInv == FeedInv /\ [Next]_vars => FeedInv'
<1> SUFFICES ASSUME FeedInv, [Next]_vars PROVE FeedInv'
  OBVIOUS
<1> USE FeedAssumption DEF ascent, dating
<1>0. \A e \in Extractors : job[e] \in Job
  BY DEF FeedInv, TypeOK
<1>idle. JobIdle \in Job
  BY DEF JobIdle, Job, Steps, NoClimb, Status, NoStatus, Published
<1>1. ASSUME NEW e \in Extractors, NEW u \in Urls, NEW r \in Readings,
             NEW pc \in {"listing", "append", "rename"}, Start(e, u, pc, r)
      PROVE  FeedInv'
  <2> DEFINE x == [JobIdle EXCEPT !.pc = pc, !.url = u, !.reading = r,
                                  !.seed = u \notin extracted]
  <2>1. x \in Job /\ x.pc = pc /\ x.url = u
    BY <1>idle DEF Job, Steps, JobIdle
  <2>2. job' = [job EXCEPT ![e] = x]
    BY <1>1 DEF Start
  <2>3. x.pc \notin {"saved", "emitting", "telling"}
    BY <2>1
  <2> HIDE DEF x
  <2>4. job' \in [Extractors -> Job] /\ Facts'
    BY <1>1, <2>1, <2>2, <2>3, JobStep DEF Start, FeedInv, Facts
  <2> QED
    BY <1>1, <2>4 DEF Start, FeedInv, TypeOK
<1>2. ASSUME NEW e \in Extractors, Save(e) PROVE FeedInv'
  <2> DEFINE x == [job[e] EXCEPT !.pc = "saved", !.isNew = (listed = {}),
                                 !.newHere = job[e].url \notin listed]
  <2>1. x \in Job /\ x.pc = "saved" /\ x.url = job[e].url
    BY <1>0 DEF Job, Steps
  <2>2. job' = [job EXCEPT ![e] = x]
    BY <1>2 DEF Save, FeedInv, TypeOK
  <2>3. job[e].url \in Urls /\ job[e].reading \in Status
    BY <1>0, <1>2 DEF Job, Save, At, FeedInv, Facts
  <2> HIDE DEF x
  <2>4. listed' = listed \cup {job[e].url} /\ listed' # {}
    BY <1>2 DEF Save
  <2>5. job' \in [Extractors -> Job] /\ Facts'
    BY <2>1, <2>2, <2>3, <2>4, JobStep
  <2> QED
    BY <1>2, <2>3, <2>4, <2>5 DEF Save, FeedInv, TypeOK
<1>3. ASSUME NEW e \in Extractors, SaveFails(e) PROVE FeedInv'
  <2>1. Moves(e, "append")
    BY <1>3 DEF SaveFails, Moves, At, FeedInv, TypeOK
  <2>2. job' \in [Extractors -> Job] /\ Facts'
    BY <1>3, <2>1, MoveStep DEF SaveFails, FeedInv, Facts
  <2> QED
    BY <1>3, <2>2 DEF SaveFails, Fault, FeedInv, TypeOK
<1>4. ASSUME NEW e \in Extractors, OpenEmit(e) PROVE FeedInv'
  <2> DEFINE x == [job[e] EXCEPT !.pc = "emitting", !.seen = (news # <<>>)]
  <2>1. x \in Job /\ x.pc = "emitting" /\ x.url = job[e].url /\ x.reading = job[e].reading
    BY <1>0 DEF Job, Steps
  <2>2. job' = [job EXCEPT ![e] = x]
    BY <1>4 DEF OpenEmit, FeedInv, TypeOK
  <2>3. job[e].reading \in WorkInProgress..Accepted
    BY <1>0, <1>4 DEF Job, OpenEmit, Status, NoStatus, Published, WorkInProgress, Accepted
  <2>4. job[e].url \in Urls /\ listed # {}
    BY <1>4 DEF OpenEmit, At, FeedInv, Facts, Announcing
  <2> HIDE DEF x
  <2>5. job' \in [Extractors -> Job] /\ Facts'
    BY <1>4, <2>1, <2>2, <2>3, <2>4, JobStep DEF OpenEmit, FeedInv, Facts
  <2>6. raced' \in BOOLEAN
    BY <1>4 DEF OpenEmit
  <2> QED
    BY <1>4, <2>5, <2>6 DEF OpenEmit, FeedInv, TypeOK
<1>5. ASSUME NEW e \in Extractors, SkipEmit(e) PROVE FeedInv'
  <2>1. job' \in [Extractors -> Job] /\ Facts'
    BY <1>5, AnnouncedStep DEF SkipEmit, At
  <2> QED
    BY <1>5, <2>1 DEF SkipEmit, FeedInv, TypeOK
<1>6. ASSUME NEW e \in Extractors, Emit(e) PROVE FeedInv'
  <2>1. job' \in [Extractors -> Job] /\ Facts'
    BY <1>6, AnnouncedStep DEF Emit, At
  <2>2. job[e].reading \in WorkInProgress..Accepted
    BY <1>6 DEF Emit, FeedInv, Facts
  <2>3. Append(news, job[e].reading) \in Seq(WorkInProgress..Accepted)
    BY <2>2, AppendProperties DEF FeedInv, TypeOK
  <2>4. news' \in Seq(WorkInProgress..Accepted)
    BY <1>6, <2>3 DEF Emit, FeedInv, TypeOK
  <2> QED
    BY <1>6, <2>1, <2>4 DEF Emit, FeedInv, TypeOK
<1>7. ASSUME NEW e \in Extractors, NEW stale \in BOOLEAN, Snapshot(e, stale) PROVE FeedInv'
  <2>1. PICK x \in Job : /\ x.pc \in {"telling", "marking"} /\ x.url = job[e].url
                         /\ x.pc = "telling" => x.climb \in Interesting
                         /\ job' = [job EXCEPT ![e] = x]
    BY <1>7, SnapshotRun
  <2>2. job[e].url \in Urls /\ job[e].reading \in Status
    BY <1>0, <1>7 DEF Job, Snapshot, At, FeedInv, Facts
  <2>3. status' \in Status
    BY <1>7, <2>2, EffectiveClimbs DEF Snapshot, FeedInv, TypeOK
  <2>4. job' \in [Extractors -> Job] /\ Facts'
    BY <1>7, <2>1, <2>2, JobStep DEF Snapshot
  <2> QED
    BY <1>7, <2>2, <2>3, <2>4 DEF Snapshot, Climb, FeedInv, TypeOK
<1>8. ASSUME NEW e \in Extractors, NoSnapshot(e) PROVE FeedInv'
  <2>1. Moves(e, "marking")
    BY <1>8 DEF NoSnapshot, Moves, At, FeedInv, TypeOK
  <2>2. job' \in [Extractors -> Job] /\ Facts'
    BY <1>8, <2>1, MoveStep DEF NoSnapshot, FeedInv, Facts
  <2> QED
    BY <1>8, <2>2 DEF NoSnapshot, FeedInv, TypeOK
<1>9. ASSUME NEW e \in Extractors, Rename(e) PROVE FeedInv'
  <2>1. Moves(e, "marking")
    BY <1>9 DEF Rename, Moves, At, FeedInv, TypeOK
  <2>2. job[e].reading \in Status
    BY <1>0 DEF Job
  <2>3. status' \in Status
    BY <1>9, <2>2, EffectiveClimbs DEF Rename, FeedInv, TypeOK
  <2>4. job' \in [Extractors -> Job] /\ Facts'
    BY <1>9, <2>1, MoveStep DEF Rename
  <2> QED
    BY <1>9, <2>2, <2>3, <2>4 DEF Rename, Climb, FeedInv, TypeOK
<1>10. ASSUME NEW e \in Extractors, NEW date \in Dates, Tell(e, date) PROVE FeedInv'
  <2>1. Moves(e, "marking")
    BY <1>10 DEF Tell, Moves, At, FeedInv, TypeOK
  <2>2. job' \in [Extractors -> Job] /\ Facts'
    BY <1>10, <2>1, MoveStep DEF Tell, FeedInv, Facts
  <2>3. changes' \in Seq(Interesting) /\ dates' \in Seq(Dates)
    BY <1>10 DEF Tell, FeedInv, Facts, TypeOK
  <2>4. job[e].climb \in Interesting
    BY <1>10 DEF Tell, FeedInv, Facts
  <2>5. /\ Len(changes') = Len(changes) + 1 /\ Len(dates') = Len(dates) + 1
        /\ Len(changes) \in Nat
    BY <1>10, <2>4, AppendProperties, LenProperties DEF Tell, FeedInv, TypeOK
  <2>6. Len(dates') = Len(changes') /\ gone' \subseteq 1..Len(changes')
    BY <1>10, <2>5 DEF Tell, FeedInv, TypeOK
  <2> QED
    BY <1>10, <2>2, <2>3, <2>6 DEF Tell, FeedInv, TypeOK
<1>11. ASSUME NEW e \in Extractors, Mark(e) PROVE FeedInv'
  <2>1. job' \in [Extractors -> Job] /\ Facts'
    BY <1>11, <1>idle, JobStep DEF Mark, JobIdle, FeedInv, Facts
  <2>2. job[e].url \in Urls
    BY <1>11 DEF Mark, At, FeedInv, Facts
  <2> QED
    BY <1>11, <2>1, <2>2 DEF Mark, FeedInv, TypeOK
<1>12. ASSUME NEW e \in Extractors, Dies(e) PROVE FeedInv'
  <2>1. job' \in [Extractors -> Job] /\ Facts'
    BY <1>12, <1>idle, JobStep DEF Dies, JobIdle, FeedInv, Facts
  <2>2. quiet' \subseteq Interesting
    BY <1>12 DEF Dies, FeedInv, TypeOK, Facts
  <2> QED
    BY <1>12, <2>1, <2>2 DEF Dies, Fault, FeedInv, TypeOK
<1>13. CASE UNCHANGED vars
  BY <1>13 DEF vars, FeedInv, TypeOK, Facts, Announcing, At
<1>14. CASE BootCleans
  BY <1>14 DEF BootCleans, Present, FeedInv, TypeOK, Facts, Announcing, At
<1> QED
  BY <1>1, <1>2, <1>3, <1>4, <1>5, <1>6, <1>7, <1>8, <1>9, <1>10, <1>11, <1>12, <1>13,
     <1>14 DEF Next, Run

(* The types and the facts hold throughout.                                *)
THEOREM FeedTypeInvariant == Spec => []FeedInv
  BY InitFeedInv, StepFeedInv, PTL DEF Spec

(* Every behaviour is well-typed, and no event ever carries a status it may *)
(* not: TypeOK, for every choice of the constants.                         *)
THEOREM FeedTypeCorrect == Spec => []TypeOK
<1>1. FeedInv => TypeOK
  BY DEF FeedInv
<1> QED
  BY <1>1, FeedTypeInvariant, PTL

-------------------------------------------------------------------------------
(* The status and its climbs.                                              *)

(* What a step of e may do to the status and the events of its climbs: move  *)
(* the status up, and then have that climb to tell; tell the climb it has; *)
(* or lose it.                                                             *)
Climbs(e) ==
  /\ ~At(e, "telling")
  /\ changes' = changes
  /\ status' \in Status /\ status' >= status
  /\ job'[e].pc = "telling" => job'[e].climb = <<status, status'>> /\ status' > status

Tells(e) ==
  /\ At(e, "telling") /\ job'[e].pc # "telling"
  /\ changes' = Append(changes, job[e].climb)
  /\ status' = status

Forgets(e) ==
  /\ At(e, "telling") /\ job'[e].pc # "telling"
  /\ changes' = changes /\ status' = status

StatusStep(e) ==
  /\ \A f \in Extractors \ {e} : job'[f] = job[f]
  /\ Climbs(e) \/ Tells(e) \/ Forgets(e)

(* A run that moves on with nothing to tell, the status as it was or higher. *)
LEMMA QuietStep ==
  ASSUME FeedInv, NEW e \in Extractors, NEW x, job' = [job EXCEPT ![e] = x],
         x.pc # "telling", ~At(e, "telling"), changes' = changes,
         status' \in Status, status' >= status
  PROVE  StatusStep(e)
<1>1. job'[e] = x /\ \A f \in Extractors \ {e} : job'[f] = job[f]
  BY DEF FeedInv, TypeOK
<1> QED
  BY <1>1 DEF StatusStep, Climbs

(* Every step of a run is one of these.                                    *)
LEMMA RunStatusStep == \A e \in Extractors : FeedInv /\ Run(e) => StatusStep(e)
<1> SUFFICES ASSUME NEW e \in Extractors, FeedInv, Run(e) PROVE StatusStep(e)
  OBVIOUS
<1>0. job \in [Extractors -> Job] /\ job[e] \in Job /\ status \in Status
  BY DEF FeedInv, TypeOK
<1>same. status \in Int /\ status >= status
  BY <1>0 DEF Status, NoStatus, Published
<1>1. ASSUME NEW u \in Urls, NEW r \in Readings, NEW pc \in {"listing", "append", "rename"},
             Start(e, u, pc, r)
      PROVE  StatusStep(e)
  <2> DEFINE x == [JobIdle EXCEPT !.pc = pc, !.url = u, !.reading = r,
                                  !.seed = u \notin extracted]
  <2>1. x.pc = pc
    BY DEF JobIdle
  <2>2. job' = [job EXCEPT ![e] = x]
    BY <1>1 DEF Start
  <2> HIDE DEF x
  <2> QED
    BY <1>0, <1>same, <1>1, <2>1, <2>2, QuietStep DEF Start, At
<1>2. ASSUME Save(e) PROVE StatusStep(e)
  <2> DEFINE x == [job[e] EXCEPT !.pc = "saved", !.isNew = (listed = {}),
                                 !.newHere = job[e].url \notin listed]
  <2>1. x.pc = "saved"
    BY <1>0 DEF Job
  <2>2. job' = [job EXCEPT ![e] = x]
    BY <1>0, <1>2 DEF Save
  <2>3. job[e].reading \in Status
    BY <1>0 DEF Job
  <2>4. status' \in Status /\ status' >= status
    <3>1. CASE listed = {}
      <4>1. status' = job[e].reading /\ status = NoStatus
        BY <1>2, <3>1 DEF Save, FeedInv, Facts
      <4> QED
        BY <4>1, <2>3 DEF Status, NoStatus, Published
    <3>2. CASE listed # {}
      BY <1>0, <1>same, <1>2, <3>2 DEF Save
    <3> QED
      BY <3>1, <3>2
  <2> HIDE DEF x
  <2> QED
    BY <1>2, <2>1, <2>2, <2>4, QuietStep DEF Save, At
<1>3. ASSUME OpenEmit(e) PROVE StatusStep(e)
  <2> DEFINE x == [job[e] EXCEPT !.pc = "emitting", !.seen = (news # <<>>)]
  <2>1. x.pc = "emitting"
    BY <1>0 DEF Job
  <2>2. job' = [job EXCEPT ![e] = x]
    BY <1>0, <1>3 DEF OpenEmit
  <2> HIDE DEF x
  <2> QED
    BY <1>0, <1>same, <1>3, <2>1, <2>2, QuietStep DEF OpenEmit, At
<1>4. ASSUME SkipEmit(e) \/ Emit(e) PROVE StatusStep(e)
  <2>1. Announced(e).pc = "append"
    BY <1>0 DEF Announced, Job
  <2> QED
    BY <1>0, <1>same, <1>4, <2>1, QuietStep DEF SkipEmit, Emit, At
<1>5. ASSUME NEW to \in {"append", "marking"}, job' = [job EXCEPT ![e].pc = to],
             ~At(e, "telling"), changes' = changes, status' \in Status, status' >= status
      PROVE  StatusStep(e)
  <2> DEFINE x == [job[e] EXCEPT !.pc = to]
  <2>1. x.pc = to /\ to # "telling"
    BY <1>0 DEF Job
  <2>2. job' = [job EXCEPT ![e] = x]
    BY <1>0, <1>5
  <2> HIDE DEF x
  <2> QED
    BY <1>5, <2>1, <2>2, QuietStep
<1>6. ASSUME SaveFails(e) \/ NoSnapshot(e) PROVE StatusStep(e)
  BY <1>0, <1>same, <1>5, <1>6 DEF SaveFails, NoSnapshot, At
<1>7. ASSUME Rename(e) PROVE StatusStep(e)
  <2>1. job[e].reading \in Status
    BY <1>0 DEF Job
  <2>2. status' \in Status /\ status' >= status
    BY <1>0, <1>7, <2>1, EffectiveClimbs DEF Rename
  <2> QED
    BY <1>5, <1>7, <2>2 DEF Rename, At
<1>8. ASSUME NEW stale \in BOOLEAN, Snapshot(e, stale) PROVE StatusStep(e)
  <2>1. PICK x \in Job :
          /\ x.pc = "telling" => /\ x.climb = <<status, job[e].reading>>
                                 /\ Progression(status, job[e].reading)
          /\ job' = [job EXCEPT ![e] = x]
    BY <1>8, SnapshotRun
  <2>2. job'[e] = x /\ \A f \in Extractors \ {e} : job'[f] = job[f]
    BY <1>0, <2>1
  <2>3. job[e].reading \in Status
    BY <1>0 DEF Job
  <2>4. /\ status' \in Status /\ status' >= status
        /\ Progression(status, job[e].reading)
             => status' = job[e].reading /\ status' > status
    BY <1>0, <1>8, <2>3, EffectiveClimbs DEF Snapshot
  <2>5. ~At(e, "telling") /\ changes' = changes
    BY <1>8 DEF Snapshot, At
  <2> QED
    BY <2>1, <2>2, <2>4, <2>5 DEF StatusStep, Climbs
<1>9. ASSUME NEW date \in Dates, Tell(e, date) PROVE StatusStep(e)
  <2>1. job'[e].pc = "marking" /\ \A f \in Extractors \ {e} : job'[f] = job[f]
    BY <1>0, <1>9 DEF Tell, Job
  <2> QED
    BY <1>9, <2>1 DEF Tell, StatusStep, Tells
<1>10. ASSUME Mark(e) \/ Dies(e) PROVE StatusStep(e)
  <2>1. job'[e].pc = "idle" /\ \A f \in Extractors \ {e} : job'[f] = job[f]
    BY <1>0, <1>10 DEF Mark, Dies, JobIdle
  <2>2. changes' = changes /\ status' = status
    BY <1>10 DEF Mark, Dies
  <2> QED
    BY <1>0, <1>same, <2>1, <2>2 DEF StatusStep, Climbs, Forgets
<1> QED
  BY <1>1, <1>2, <1>3, <1>4, <1>6, <1>7, <1>8, <1>9, <1>10 DEF Run

(* No step of any run lowers the status of the paper: StatusClimbs, for      *)
(* every choice of the constants.                                          *)
THEOREM StatusClimbsCorrect == Spec => StatusClimbs
<1>1. FeedInv /\ [Next]_vars => [status' >= status]_vars
  <2> SUFFICES ASSUME FeedInv, Next PROVE status' >= status
    OBVIOUS
  <2>1. status \in Int
    BY DEF FeedInv, TypeOK, Status, NoStatus, Published
  <2>2. CASE BootCleans
    BY <2>1, <2>2 DEF BootCleans
  <2>3. ASSUME NEW e \in Extractors, StatusStep(e) PROVE status' >= status
    BY <2>1, <2>3 DEF StatusStep, Climbs, Tells, Forgets
  <2> QED
    BY <2>2, <2>3, RunStatusStep DEF Next
<1> QED
  BY <1>1, FeedTypeInvariant, PTL DEF Spec, StatusClimbs

(* Inductive: the climbs in the feed and those some run is about to tell are *)
(* pairwise apart, and none ends above the status.                         *)
ClimbInv ==
  /\ \A i \in 1..Len(changes) : changes[i][2] <= status
  /\ \A i, j \in 1..Len(changes) : i # j => Apart(changes[i], changes[j])
  /\ \A e \in Extractors : At(e, "telling") =>
       /\ job[e].climb[2] <= status
       /\ \A i \in 1..Len(changes) : Apart(job[e].climb, changes[i])
       /\ \A f \in Extractors \ {e} : At(f, "telling") => Apart(job[e].climb, job[f].climb)

(* Climbs are pairs of ranks.                                              *)
LEMMA ClimbTypes ==
  ASSUME FeedInv
  PROVE  /\ status \in Int
         /\ Len(changes) \in Nat
         /\ \A i \in 1..Len(changes) : changes[i][1] \in Int /\ changes[i][2] \in Int
         /\ \A e \in Extractors : At(e, "telling") =>
              /\ job[e].climb[1] \in Int /\ job[e].climb[2] \in Int
              /\ job[e].climb[1] < job[e].climb[2]
<1>1. \A c \in Interesting : c[1] \in Int /\ c[2] \in Int /\ c[1] < c[2]
  BY InterestingClimbs DEF Status, NoStatus, Published
<1>2. changes \in Seq(Interesting)
  BY DEF FeedInv, TypeOK
<1>3. Len(changes) \in Nat /\ \A i \in 1..Len(changes) : changes[i] \in Interesting
  BY <1>2, LenProperties, ElementOfSeq
<1>4. \A e \in Extractors : At(e, "telling") => job[e].climb \in Interesting
  BY DEF FeedInv, Facts
<1>5. status \in Int
  BY DEF FeedInv, TypeOK, Status, NoStatus, Published
<1> HIDE DEF Interesting
<1> QED
  BY <1>1, <1>3, <1>4, <1>5

(* Every step preserves it: a new climb starts at the status, above all that *)
(* were made before.                                                       *)
LEMMA StepClimbInv == FeedInv /\ ClimbInv /\ [Next]_vars => ClimbInv'
<1> SUFFICES ASSUME FeedInv, ClimbInv, [Next]_vars PROVE ClimbInv'
  OBVIOUS
<1>1. CASE UNCHANGED vars \/ BootCleans
  BY <1>1 DEF vars, BootCleans, ClimbInv, At
<1>2. CASE \E e \in Extractors : Run(e)
  <2>1. PICK e \in Extractors : StatusStep(e)
    BY <1>2, RunStatusStep
  <2>2. \A f \in Extractors \ {e} : job'[f] = job[f]
    BY <2>1 DEF StatusStep
  <2>3. CASE Climbs(e)
    <3>1. status' \in Int /\ status' >= status /\ changes' = changes
      BY <2>3 DEF Climbs, Status, NoStatus, Published
    <3>2. \A i \in 1..Len(changes) : changes[i][2] <= status'
      BY <3>1, ClimbTypes DEF ClimbInv
    <3>3. ASSUME NEW f \in Extractors \ {e}, At(f, "telling")
          PROVE  job[f].climb[2] <= status' /\ job[f].climb[2] <= status
      BY <3>1, <3>3, ClimbTypes DEF ClimbInv
    <3>4. ASSUME job'[e].pc = "telling"
          PROVE  /\ job'[e].climb[1] = status /\ job'[e].climb[2] = status'
                 /\ \A i \in 1..Len(changes) : Apart(job'[e].climb, changes[i])
                 /\ \A f \in Extractors \ {e} : At(f, "telling") =>
                      Apart(job'[e].climb, job[f].climb) /\ Apart(job[f].climb, job'[e].climb)
      BY <2>3, <3>3, <3>4 DEF Climbs, Apart, ClimbInv
    <3> QED
      BY <2>2, <3>1, <3>2, <3>3, <3>4 DEF ClimbInv, At
  <2>4. CASE Tells(e)
    <3> DEFINE n == Len(changes)
    <3>1. /\ changes' = Append(changes, job[e].climb) /\ status' = status
          /\ At(e, "telling") /\ job'[e].pc # "telling"
      BY <2>4 DEF Tells
    <3>2. /\ n \in Nat /\ Len(changes') = n + 1 /\ changes'[n + 1] = job[e].climb
          /\ \A i \in 1..n : changes'[i] = changes[i]
      BY <3>1 DEF FeedInv, TypeOK
    <3>3. \A i \in 1..Len(changes') : i = n + 1 \/ i \in 1..n
      BY <3>2
    <3>4. /\ job[e].climb[2] <= status
          /\ \A i \in 1..n : Apart(job[e].climb, changes[i]) /\ Apart(changes[i], job[e].climb)
          /\ \A f \in Extractors \ {e} : At(f, "telling") => Apart(job[f].climb, job[e].climb)
      BY <3>1 DEF ClimbInv, Apart
    <3>5. \A i \in 1..Len(changes') : changes'[i][2] <= status'
      BY <3>1, <3>2, <3>3, <3>4 DEF ClimbInv
    <3>6. \A i, j \in 1..Len(changes') : i # j => Apart(changes'[i], changes'[j])
      <4> SUFFICES ASSUME NEW i \in 1..Len(changes'), NEW j \in 1..Len(changes'), i # j
                   PROVE  Apart(changes'[i], changes'[j])
        OBVIOUS
      <4> HIDE DEF n
      <4>1. CASE i = n + 1
        <5>1. j \in 1..n /\ changes'[j] = changes[j]
          BY <4>1, <3>2, <3>3
        <5> QED
          BY <4>1, <5>1, <3>2, <3>4
      <4>2. CASE j = n + 1
        <5>1. i \in 1..n /\ changes'[i] = changes[i]
          BY <4>2, <3>2, <3>3
        <5> QED
          BY <4>2, <5>1, <3>2, <3>4
      <4>3. CASE i \in 1..n /\ j \in 1..n
        <5>1. Apart(changes[i], changes[j])
          BY <4>3 DEF ClimbInv, n
        <5> QED
          BY <4>3, <5>1, <3>2
      <4> QED
        BY <4>1, <4>2, <4>3, <3>3
    <3>7. ASSUME NEW f \in Extractors, job'[f].pc = "telling"
          PROVE  /\ f # e /\ At(f, "telling") /\ job'[f] = job[f]
      BY <2>2, <3>1, <3>7 DEF At
    <3>8. \A f \in Extractors \ {e} : At(f, "telling") =>
            \A i \in 1..Len(changes') : Apart(job[f].climb, changes'[i])
      BY <3>2, <3>3, <3>4 DEF ClimbInv
    <3> QED
      BY <3>1, <3>5, <3>6, <3>7, <3>8 DEF ClimbInv, At
  <2>5. CASE Forgets(e)
    <3>1. changes' = changes /\ status' = status /\ job'[e].pc # "telling"
      BY <2>5 DEF Forgets
    <3> QED
      BY <2>2, <3>1 DEF ClimbInv, At
  <2> QED
    BY <2>1, <2>3, <2>4, <2>5 DEF StatusStep
<1> QED
  BY <1>1, <1>2 DEF Next

(* The types and the climbs together, for the theorems below.              *)
LEMMA ClimbInvariant == Spec => [](FeedInv /\ ClimbInv)
<1>1. Init => ClimbInv
  <2> SUFFICES ASSUME Init PROVE ClimbInv
    OBVIOUS
  <2>1. Len(changes) = 0 /\ \A e \in Extractors : ~At(e, "telling")
    BY DEF Init, At, JobIdle
  <2> QED
    BY <2>1 DEF ClimbInv
<1> QED
  BY <1>1, StepClimbInv, FeedTypeInvariant, PTL DEF Spec

(* The status_change events of a paper are disjoint climbs of its status:    *)
(* ClimbsToldOnce, for every choice of the constants.                      *)
THEOREM ClimbsToldOnceCorrect == Spec => []ClimbsToldOnce
<1>1. ClimbInv => ClimbsToldOnce
  BY DEF ClimbInv, ClimbsToldOnce
<1> QED
  BY <1>1, ClimbInvariant, PTL

-------------------------------------------------------------------------------
(* The climbs of the status are a ledger.                                  *)

(* Every step is a step of the ledger, or leaves it alone.                  *)
(* What the feed is owed is the climb of e's run, if it tells one, and those of *)
(* the others.                                                             *)
LEMMA OwedParts ==
  ASSUME NEW e \in Extractors, \A f \in Extractors \ {e} : job'[f] = job[f]
  PROVE  \E rest : /\ Owed = rest \cup (IF At(e, "telling") THEN {job[e].climb} ELSE {})
                  /\ Owed' = rest \cup (IF job'[e].pc = "telling" THEN {job'[e].climb} ELSE {})
                  /\ \A c \in rest : \E f \in Extractors \ {e} :
                       At(f, "telling") /\ c = job[f].climb
<1> DEFINE rest == {job[f].climb : f \in {g \in Extractors \ {e} : At(g, "telling")}}
<1>1. Owed = rest \cup (IF At(e, "telling") THEN {job[e].climb} ELSE {})
  BY DEF Owed, At
<1>2. Owed' = rest \cup (IF job'[e].pc = "telling" THEN {job'[e].climb} ELSE {})
  BY DEF Owed, At
<1>3. \A c \in rest : \E f \in Extractors \ {e} : At(f, "telling") /\ c = job[f].climb
  OBVIOUS
<1> HIDE DEF rest
<1> QED
  BY <1>1, <1>2, <1>3

THEOREM LedgerRefined == Spec => ImplementsLedger
<1>1. Init => Ledger!Init
  <2> SUFFICES ASSUME Init PROVE Ledger!Init
    OBVIOUS
  <2>1. \A e \in Extractors : ~At(e, "telling")
    BY DEF Init, At, JobIdle
  <2>2. Owed = {}
    BY <2>1 DEF Owed
  <2>3. status \in Status /\ changes = <<>>
    BY DEF Init, Status, NoStatus, Published
  <2> QED
    BY <2>2, <2>3 DEF Ledger!Init
<1>2. FeedInv /\ ClimbInv /\ [Next]_vars => [Ledger!Next]_Ledger!vars
  <2> SUFFICES ASSUME FeedInv, ClimbInv, [Next]_vars PROVE [Ledger!Next]_Ledger!vars
    OBVIOUS
  <2>1. CASE UNCHANGED vars \/ BootCleans
    BY <2>1 DEF vars, BootCleans, Ledger!vars, Owed, At
  <2>2. CASE \E e \in Extractors : Run(e)
    <3>1. PICK e \in Extractors : StatusStep(e)
      BY <2>2, RunStatusStep
    <3>2. \A f \in Extractors \ {e} : job'[f] = job[f]
      BY <3>1 DEF StatusStep
    <3>3. PICK rest : /\ Owed = rest \cup (IF At(e, "telling") THEN {job[e].climb} ELSE {})
                      /\ Owed' = rest \cup (IF job'[e].pc = "telling" THEN {job'[e].climb} ELSE {})
                      /\ \A c \in rest : \E f \in Extractors \ {e} :
                           At(f, "telling") /\ c = job[f].climb
      BY <3>2, OwedParts
    <3>5. At(e, "telling") => job[e].climb \notin rest
      <4> SUFFICES ASSUME At(e, "telling"), NEW f \in Extractors \ {e}, At(f, "telling")
                   PROVE  job[e].climb # job[f].climb
        BY <3>3
      <4>1. Apart(job[e].climb, job[f].climb)
        BY DEF ClimbInv
      <4> QED
        BY <4>1, ClimbTypes DEF Apart
    <3>6. CASE Climbs(e)
      <4>1. status \in Int /\ status' \in Status /\ status' >= status /\ changes' = changes
        BY <3>6, ClimbTypes DEF Climbs
      <4>2. Owed = rest
        BY <3>3, <3>6 DEF Climbs
      <4>3. CASE status' = status
        <5>1. Owed' = Owed
          BY <3>3, <3>6, <4>2, <4>3, <4>1 DEF Climbs
        <5> QED
          BY <4>1, <4>3, <5>1 DEF Ledger!vars
      <4>4. CASE status' # status
        <5>1. status' > status
          BY <4>1, <4>4 DEF Status, NoStatus, Published
        <5>2. Owed' \in {Owed, Owed \cup {<<status, status'>>}}
          BY <3>3, <3>6, <4>2 DEF Climbs
        <5>3. Ledger!Climb
          BY <4>1, <5>1, <5>2 DEF Ledger!Climb
        <5> QED
          BY <5>3 DEF Ledger!Next
      <4> QED
        BY <4>3, <4>4
    <3>7. ASSUME At(e, "telling"), job'[e].pc # "telling"
          PROVE  job[e].climb \in Owed /\ Owed' = Owed \ {job[e].climb}
      BY <3>3, <3>5, <3>7
    <3>8. CASE Tells(e)
      <4>1. job[e].climb \in Owed /\ Owed' = Owed \ {job[e].climb}
        BY <3>7, <3>8 DEF Tells
      <4>2. Ledger!Tell
        BY <3>8, <4>1 DEF Tells, Ledger!Tell
      <4> QED
        BY <4>2 DEF Ledger!Next
    <3>9. CASE Forgets(e)
      <4>1. job[e].climb \in Owed /\ Owed' = Owed \ {job[e].climb}
        BY <3>7, <3>9 DEF Forgets
      <4>2. Ledger!Forget
        BY <3>9, <4>1 DEF Forgets, Ledger!Forget
      <4> QED
        BY <4>2 DEF Ledger!Next
    <3> QED
      BY <3>1, <3>6, <3>8, <3>9 DEF StatusStep
  <2> QED
    BY <2>1, <2>2 DEF Next
<1> QED
  BY <1>1, <1>2, ClimbInvariant, PTL DEF Spec, ImplementsLedger, Ledger!Spec

-------------------------------------------------------------------------------
(* The feed tells the whole ascent.                                        *)

(* Inductive: every climb lies below the status and is told, owed or not for *)
(* the feed, and none of the last is one of the others.                      *)
AscentInv ==
  /\ \A c \in climbed : c[2] <= status
  /\ climbed = Told \cup Owed \cup quiet
  /\ quiet \cap (Told \cup Owed) = {}

(* What a run at "telling" does: it tells its climb, or loses it.            *)
Speaks(e) ==
  /\ job'[e].pc # "telling" /\ climbed' = climbed /\ status' = status
  /\ \/ changes' = Append(changes, job[e].climb) /\ quiet' = quiet
     \/ changes' = changes /\ quiet' = quiet \cup {job[e].climb}

(* What another run does: it makes no climb, or one up to the new status that *)
(* it will tell or that is not for the feed.                                  *)
Makes(e) ==
  /\ changes' = changes
  /\ \/ job'[e].pc # "telling" /\ UNCHANGED ascent
     \/ \E c \in Interesting :
          /\ c = <<status, status'>> /\ climbed' = climbed \cup {c}
          /\ \/ job'[e].pc = "telling" /\ job'[e].climb = c /\ quiet' = quiet
             \/ job'[e].pc # "telling" /\ quiet' = quiet \cup {c}

AscentStep(e) == IF At(e, "telling") THEN Speaks(e) ELSE Makes(e)

(* Every step of a run is one of these.                                    *)
LEMMA RunAscentStep == \A e \in Extractors : FeedInv /\ Run(e) => AscentStep(e)
<1> SUFFICES ASSUME NEW e \in Extractors, FeedInv, Run(e) PROVE AscentStep(e)
  OBVIOUS
<1>0. job \in [Extractors -> Job] /\ job[e] \in Job
  BY DEF FeedInv, TypeOK
<1>1. ASSUME ~At(e, "telling"), job'[e].pc # "telling", changes' = changes, UNCHANGED ascent
      PROVE  AscentStep(e)
  BY <1>1 DEF AscentStep, Makes
<1>2. ASSUME NEW u \in Urls, NEW r \in Readings, NEW pc \in {"listing", "append", "rename"},
             Start(e, u, pc, r)
      PROVE  AscentStep(e)
  <2>1. job'[e].pc = pc
    BY <1>0, <1>2 DEF Start, JobIdle
  <2> QED
    BY <1>1, <1>2, <2>1 DEF Start, At
<1>3. CASE Save(e) \/ OpenEmit(e)
  <2>1. job'[e].pc \in {"saved", "emitting"}
    <3>1. CASE Save(e)
      BY <1>0, <3>1 DEF Save, Job
    <3>2. CASE OpenEmit(e)
      BY <1>0, <3>2 DEF OpenEmit, Job
    <3> QED
      BY <1>3, <3>1, <3>2
  <2> QED
    BY <1>1, <1>3, <2>1 DEF Save, OpenEmit, At
<1>4. CASE SkipEmit(e) \/ Emit(e)
  <2>1. job'[e].pc = "append"
    BY <1>0, <1>4 DEF SkipEmit, Emit, Announced, Job
  <2> QED
    BY <1>1, <1>4, <2>1 DEF SkipEmit, Emit, At
<1>5. CASE SaveFails(e) \/ NoSnapshot(e)
  <2>1. job'[e].pc \in {"append", "marking"}
    BY <1>0, <1>5 DEF SaveFails, NoSnapshot, Job
  <2> QED
    BY <1>1, <1>5, <2>1 DEF SaveFails, NoSnapshot, At
<1>6. CASE Mark(e)
  <2>1. job'[e].pc = "idle"
    BY <1>0, <1>6 DEF Mark, JobIdle
  <2> QED
    BY <1>1, <1>6, <2>1 DEF Mark, At
<1>7. ASSUME NEW date \in Dates, Tell(e, date) PROVE AscentStep(e)
  <2>1. job'[e].pc = "marking"
    BY <1>0, <1>7 DEF Tell, Job
  <2> QED
    BY <1>7, <2>1 DEF Tell, AscentStep, Speaks, ascent
<1>8. CASE Dies(e)
  <2>1. job'[e].pc = "idle" /\ UNCHANGED <<changes, status, climbed>>
    BY <1>0, <1>8 DEF Dies, JobIdle
  <2>2. quiet' = quiet \cup (IF At(e, "telling") THEN {job[e].climb} ELSE {})
    BY <1>8 DEF Dies
  <2>3. CASE At(e, "telling")
    BY <2>1, <2>2, <2>3 DEF AscentStep, Speaks
  <2>4. CASE ~At(e, "telling")
    BY <1>1, <2>1, <2>2, <2>4 DEF ascent
  <2> QED
    BY <2>3, <2>4
<1>9. ASSUME ~At(e, "telling"), changes' = changes, NEW told \in BOOLEAN,
             told => <<status, job[e].reading>> \in Interesting,
             Climb(job[e].reading, told), status' = Effective(status, job[e].reading),
             job'[e].pc = IF told THEN "telling" ELSE "marking",
             told => job'[e].climb = <<status, job[e].reading>>
      PROVE  AscentStep(e)
  <2> DEFINE c == <<status, job[e].reading>>
  <2>1. CASE c \in Interesting
    <3>1. status' = job[e].reading
      <4>1. status \in Status /\ job[e].reading \in Status
        BY <1>0 DEF FeedInv, TypeOK, Job
      <4>2. status # NoStatus /\ job[e].reading # NoStatus /\ job[e].reading > status
        BY <2>1 DEF Interesting, NoStatus, WorkInProgress, WorkingPaper, ReviseResubmit,
                    Accepted, Published
      <4> QED
        BY <1>9, <4>2 DEF Effective, Progression
    <3>2. c = <<status, status'>> /\ climbed' = climbed \cup {c}
      BY <1>9, <2>1, <3>1 DEF Climb
    <3>3. quiet' = IF told THEN quiet ELSE quiet \cup {c}
      BY <1>9, <2>1 DEF Climb
    <3> HIDE DEF c
    <3>4. told => job'[e].climb = c
      BY <1>9 DEF c
    <3> QED
      BY <1>9, <2>1, <3>2, <3>3, <3>4 DEF AscentStep, Makes
  <2>2. CASE c \notin Interesting
    <3>1. ~told /\ climbed' = climbed /\ quiet' = quiet
      BY <1>9, <2>2 DEF Climb
    <3> QED
      BY <1>1, <1>9, <3>1 DEF ascent
  <2> QED
    BY <2>1, <2>2
<1>10. CASE Rename(e)
  <2>1. job'[e].pc = "marking"
    BY <1>0, <1>10 DEF Rename, Job
  <2>2. ~At(e, "telling") /\ changes' = changes
    BY <1>10 DEF Rename, At
  <2>3. status' = Effective(status, job[e].reading) /\ Climb(job[e].reading, FALSE)
    BY <1>10 DEF Rename
  <2> QED
    BY <1>9, <2>1, <2>2, <2>3
<1>11. ASSUME NEW stale \in BOOLEAN, Snapshot(e, stale) PROVE AscentStep(e)
  <2> DEFINE told == ~job[e].seed /\ Progression(status, job[e].reading)
                       /\ <<status, job[e].reading>> \in Interesting /\ ~stale
  <2>1. /\ job'[e].pc = IF told THEN "telling" ELSE "marking"
        /\ job'[e].climb = IF told THEN <<status, job[e].reading>> ELSE NoClimb
    BY <1>0, <1>11 DEF Snapshot, Job
  <2>2. Climb(job[e].reading, told) /\ status' = Effective(status, job[e].reading)
    BY <1>11 DEF Snapshot
  <2>3. (told => <<status, job[e].reading>> \in Interesting) /\ told \in BOOLEAN
    OBVIOUS
  <2>4. ~At(e, "telling") /\ changes' = changes
    BY <1>11 DEF Snapshot, At
  <2> HIDE DEF told
  <2> QED
    BY <1>9, <2>1, <2>2, <2>3, <2>4
<1> QED
  BY <1>2, <1>3, <1>4, <1>5, <1>6, <1>7, <1>8, <1>10, <1>11 DEF Run

(* Every step preserves it.                                                *)
LEMMA StepAscentInv == FeedInv /\ ClimbInv /\ AscentInv /\ [Next]_vars => AscentInv'
<1> SUFFICES ASSUME FeedInv, ClimbInv, AscentInv, [Next]_vars PROVE AscentInv'
  OBVIOUS
<1>1. CASE UNCHANGED vars \/ BootCleans
  BY <1>1 DEF vars, BootCleans, ascent, AscentInv, Told, Owed, At
<1>2. CASE \E e \in Extractors : Run(e)
  <2>1. PICK e \in Extractors : StatusStep(e) /\ AscentStep(e)
    BY <1>2, RunStatusStep, RunAscentStep
  <2>2. PICK rest : /\ Owed = rest \cup (IF At(e, "telling") THEN {job[e].climb} ELSE {})
                    /\ Owed' = rest \cup (IF job'[e].pc = "telling" THEN {job'[e].climb} ELSE {})
                    /\ \A c \in rest : \E f \in Extractors \ {e} :
                         At(f, "telling") /\ c = job[f].climb
    BY <2>1, OwedParts DEF StatusStep
  <2>3. changes' = changes => Told' = Told
    BY DEF Told
  <2>4. ASSUME NEW c, c \in Interesting, changes' = Append(changes, c)
        PROVE  Told' = Told \cup {c}
    <3>1. changes \in Seq(Interesting) /\ Len(changes) \in Nat
      BY DEF FeedInv, TypeOK
    <3>2. /\ Len(changes') = Len(changes) + 1
          /\ \A i \in 1..Len(changes) : changes'[i] = changes[i]
          /\ changes'[Len(changes) + 1] = c
      BY <3>1, <2>4, AppendProperties
    <3>3. 1..Len(changes') = 1..Len(changes) \cup {Len(changes) + 1}
      BY <3>1, <3>2
    <3> QED
      BY <3>2, <3>3 DEF Told
  <2>5. CASE At(e, "telling")
    <3>1. job[e].climb \in Interesting
      BY <2>5 DEF FeedInv, Facts
    <3>2. Owed = rest \cup {job[e].climb} /\ Owed' = rest /\ UNCHANGED <<climbed, status>>
      BY <2>1, <2>2, <2>5 DEF AscentStep, Speaks
    <3>3. CASE changes' = Append(changes, job[e].climb) /\ quiet' = quiet
      <4>1. Told' \cup Owed' = Told \cup Owed
        BY <2>4, <3>1, <3>2, <3>3
      <4> QED
        BY <3>2, <3>3, <4>1 DEF AscentInv
    <3>4. CASE changes' = changes /\ quiet' = quiet \cup {job[e].climb}
      <4>1. job[e].climb \notin rest
        <5> SUFFICES ASSUME NEW f \in Extractors \ {e}, At(f, "telling")
                     PROVE  job[e].climb # job[f].climb
          BY <2>2
        <5>1. Apart(job[e].climb, job[f].climb)
          BY <2>5 DEF ClimbInv
        <5> QED
          BY <2>5, <5>1, ClimbTypes DEF Apart
      <4>2. job[e].climb \notin Told
        <5> SUFFICES ASSUME NEW i \in 1..Len(changes) PROVE job[e].climb # changes[i]
          BY DEF Told
        <5>1. Apart(job[e].climb, changes[i])
          BY <2>5 DEF ClimbInv
        <5> QED
          BY <2>5, <5>1, ClimbTypes DEF Apart
      <4> QED
        BY <2>3, <3>2, <3>4, <4>1, <4>2 DEF AscentInv
    <3> QED
      BY <2>1, <2>5, <3>3, <3>4 DEF AscentStep, Speaks
  <2>6. CASE ~At(e, "telling")
    <3>1. Owed = rest /\ changes' = changes /\ Told' = Told /\ Makes(e)
      BY <2>1, <2>2, <2>3, <2>6 DEF AscentStep, Makes
    <3>2. status \in Int /\ status' \in Int /\ status' >= status
      BY <2>1, <2>6, ClimbTypes DEF StatusStep, Climbs, Tells, Forgets, Status, NoStatus, Published
    <3>3. \A c \in climbed : c[2] \in Int
      BY DEF FeedInv, TypeOK, Interesting, WorkInProgress, WorkingPaper, ReviseResubmit,
             Accepted, Published
    <3>4. CASE job'[e].pc # "telling" /\ UNCHANGED ascent
      <4>1. Owed' = Owed /\ climbed' = climbed /\ quiet' = quiet
        BY <2>2, <3>1, <3>4 DEF ascent
      <4>2. \A c \in climbed' : c[2] <= status'
        BY <3>2, <3>3, <4>1 DEF AscentInv
      <4> QED
        BY <3>1, <4>1, <4>2 DEF AscentInv
    <3>5. ASSUME NEW c \in Interesting, c = <<status, status'>>, climbed' = climbed \cup {c},
                 \/ job'[e].pc = "telling" /\ job'[e].climb = c /\ quiet' = quiet
                 \/ job'[e].pc # "telling" /\ quiet' = quiet \cup {c}
          PROVE  AscentInv'
      <4>1. c[2] = status' /\ status' > status
        BY <3>5 DEF Interesting, WorkInProgress, WorkingPaper, ReviseResubmit, Accepted,
                    Published
      <4>2. c \notin climbed
        BY <3>2, <4>1 DEF AscentInv
      <4>3. \A d \in climbed' : d[2] <= status'
        BY <3>2, <3>3, <3>5, <4>1 DEF AscentInv
      <4>4. Owed' = IF job'[e].pc = "telling" THEN Owed \cup {c} ELSE Owed
        BY <2>2, <3>1, <3>5
      <4> HIDE DEF Told, Owed
      <4> QED
        BY <3>1, <3>5, <4>2, <4>3, <4>4 DEF AscentInv
    <3> QED
      BY <3>1, <3>4, <3>5 DEF Makes
  <2> QED
    BY <2>5, <2>6
<1> QED
  BY <1>1, <1>2 DEF Next

(* Inductive: a deleted event was overtaken by one that is in the table.      *)
GoneInv == \A i \in gone : \E j \in Present : Overtakes(j, i)

(* A set of numbers has a least element.                                      *)
LEMMA FirstOf ==
  ASSUME NEW S \in SUBSET Nat, S # {}
  PROVE  \E x \in S : \A y \in S : x <= y
<1>1. PICK x \in S : \A y \in S : ~(<<y, x>> \in OpToRel(<, Nat))
  BY WFMin, NatLessThanWellFounded
<1>2. \A y \in S : ~(y < x)
  BY <1>1 DEF OpToRel
<1> QED
  BY <1>2

(* Ids, dates and ranks are numbers.                                          *)
LEMMA DatingTypes ==
  ASSUME FeedInv
  PROVE  /\ Present \subseteq Nat /\ gone \subseteq 1..Len(changes) /\ Len(changes) \in Nat
         /\ \A i \in 1..Len(changes) : dates[i] \in Nat /\ changes[i][2] \in Int
<1>1. changes \in Seq(Interesting) /\ dates \in Seq(Dates) /\ Len(dates) = Len(changes)
  BY DEF FeedInv, TypeOK
<1>2. Len(changes) \in Nat /\ \A i \in 1..Len(changes) : dates[i] \in Dates
  BY <1>1, LenProperties, ElementOfSeq
<1>3. \A i \in 1..Len(changes) : changes[i][2] \in Int
  BY ClimbTypes
<1>4. gone \subseteq 1..Len(changes)
  BY DEF FeedInv, TypeOK
<1>5. Present \subseteq Nat
  BY <1>2 DEF Present
<1> QED
  BY <1>1, <1>2, <1>3, <1>4, <1>5, FeedAssumption

(* A boot deletes for the sake of events that stay: of those that overtake an *)
(* event the first in feed order is overtaken by none.                        *)
LEMMA Survivor ==
  ASSUME FeedInv, BootCleans, NEW i \in 1..Len(changes),
         \E j \in Present : Overtakes(j, i)
  PROVE  \E j \in Present' : Overtakes(j, i)
<1> DEFINE rivals == {j \in Present : Overtakes(j, i)}
           first_date == {dates[j] : j \in rivals}
<1>0. rivals \subseteq 1..Len(changes) /\ rivals \in SUBSET Nat
  BY DatingTypes DEF Present
<1>1. first_date \in SUBSET Nat /\ first_date # {}
  BY <1>0, DatingTypes
<1>2. PICK d \in first_date : \A x \in first_date : d <= x
  <2> HIDE DEF first_date
  <2> QED
    BY <1>1, FirstOf
<1> DEFINE earliest == {j \in rivals : dates[j] = d}
<1>3. earliest \in SUBSET Nat /\ earliest # {}
  BY <1>0, <1>2
<1>4. PICK j \in earliest : \A k \in earliest : j <= k
  <2> HIDE DEF earliest
  <2> QED
    BY <1>3, FirstOf
<1>5. \A k \in rivals : dates[j] <= dates[k] /\ (dates[k] = dates[j] => j <= k)
  BY <1>2, <1>4
<1>6. j \in Present /\ Overtakes(j, i) /\ j \in 1..Len(changes)
  BY <1>0, <1>4
<1> HIDE DEF first_date, earliest
<1>7. ASSUME NEW k \in Present, Overtakes(k, j) PROVE FALSE
  <2>1. /\ k \in 1..Len(changes) /\ k \in Nat /\ j \in Nat /\ i \in Nat
        /\ dates[i] \in Nat /\ dates[j] \in Nat /\ dates[k] \in Nat
        /\ changes[i][2] \in Int /\ changes[j][2] \in Int /\ changes[k][2] \in Int
    BY <1>6, DatingTypes DEF Present
  <2>2. Overtakes(k, i)
    <3>1. changes[k][2] >= changes[j][2] /\ changes[j][2] >= changes[i][2]
      BY <1>6, <1>7 DEF Overtakes
    <3>2. dates[k] < dates[j] \/ (dates[k] = dates[j] /\ k < j)
      BY <1>7 DEF Overtakes, Before
    <3>3. dates[j] < dates[i] \/ (dates[j] = dates[i] /\ j < i)
      BY <1>6 DEF Overtakes, Before
    <3>4. changes[k][2] >= changes[i][2]
      BY <2>1, <3>1
    <3>5. Before(k, i)
      BY <2>1, <3>2, <3>3 DEF Before
    <3> QED
      BY <3>4, <3>5 DEF Overtakes
  <2>3. k \in rivals
    BY <2>2
  <2>4. dates[j] <= dates[k] /\ (dates[k] = dates[j] => j <= k)
    BY <1>5, <2>3
  <2> QED
    BY <1>7, <2>1, <2>4 DEF Overtakes, Before
<1>8. j \in Present' /\ Overtakes(j, i)
  BY <1>6, <1>7 DEF BootCleans, Present
<1> QED
  BY <1>8

(* What a step of a run does to the events of the table: it adds one, or none. *)
LEMMA RunDating ==
  ASSUME FeedInv, NEW e \in Extractors, Run(e)
  PROVE  \/ UNCHANGED <<changes, dates, gone>>
         \/ \E c \in Interesting, date \in Dates :
              /\ changes' = Append(changes, c) /\ dates' = Append(dates, date)
              /\ gone' = gone
<1>1. ASSUME NEW date \in Dates, Tell(e, date) PROVE job[e].climb \in Interesting
  BY <1>1 DEF Tell, FeedInv, Facts
<1> HIDE DEF Interesting
<1> QED
  BY <1>1 DEF Run, Start, Save, SaveFails, OpenEmit, SkipEmit, Emit, Snapshot, NoSnapshot,
              Rename, Tell, Mark, Dies, dating

(* Every step preserves it.                                                *)
LEMMA StepGoneInv == FeedInv /\ GoneInv /\ [Next]_vars => GoneInv'
<1> SUFFICES ASSUME FeedInv, GoneInv, [Next]_vars PROVE GoneInv'
  OBVIOUS
<1>1. CASE UNCHANGED <<changes, dates, gone>>
  BY <1>1 DEF GoneInv, Present, Overtakes, Before
<1>2. ASSUME NEW c \in Interesting, NEW date \in Dates, changes' = Append(changes, c),
             dates' = Append(dates, date), gone' = gone
      PROVE  GoneInv'
  <2>1. /\ Len(changes') = Len(changes) + 1 /\ Len(dates) = Len(changes)
        /\ \A i \in 1..Len(changes) : changes'[i] = changes[i]
        /\ \A i \in 1..Len(dates) : dates'[i] = dates[i]
    BY <1>2, AppendProperties DEF FeedInv, TypeOK
  <2>2. Len(changes) \in Nat /\ gone \subseteq 1..Len(changes)
    BY DatingTypes
  <2>3. Present \subseteq 1..Len(changes) /\ Present \subseteq Present'
    BY <1>2, <2>1, <2>2 DEF Present
  <2>4. \A i, j \in 1..Len(changes) : Overtakes(j, i) => Overtakes(j, i)'
    BY <2>1 DEF Overtakes, Before
  <2> QED
    BY <1>2, <2>2, <2>3, <2>4 DEF GoneInv
<1>3. CASE BootCleans
  <2>1. \A i, j : Overtakes(j, i)' <=> Overtakes(j, i)
    BY <1>3 DEF BootCleans, Overtakes, Before
  <2>2. \A i \in gone' : i \in 1..Len(changes) /\ \E j \in Present : Overtakes(j, i)
    BY <1>3, DatingTypes DEF BootCleans, GoneInv, Present
  <2> QED
    BY <1>3, <2>1, <2>2, Survivor DEF GoneInv
<1> QED
  BY <1>1, <1>2, <1>3, RunDating DEF Next, vars, dating

(* The climbs of the status are those that the feed tells, each once, and     *)
(* those that the code leaves out or a dying run takes with it, and boots     *)
(* delete only what an event that stays has overtaken: AscentTold, for every  *)
(* choice of the constants.                                                   *)
THEOREM AscentToldCorrect == Spec => []AscentTold
<1>1. Init => AscentInv
  <2> SUFFICES ASSUME Init PROVE AscentInv
    OBVIOUS
  <2>1. Len(changes) = 0 /\ \A e \in Extractors : ~At(e, "telling")
    BY DEF Init, At, JobIdle
  <2>2. Told = {} /\ Owed = {} /\ climbed = {} /\ quiet = {}
    BY <2>1 DEF Init, Told, Owed
  <2> QED
    BY <2>2 DEF AscentInv
<1>2. Init => GoneInv
  BY DEF Init, GoneInv
<1>3. AscentInv /\ GoneInv /\ ClimbsToldOnce => AscentTold
  BY DEF AscentInv, GoneInv, AscentTold
<1> QED
  BY <1>1, <1>2, <1>3, StepAscentInv, StepGoneInv, FeedTypeInvariant, ClimbInvariant,
     ClimbsToldOnceCorrect, PTL DEF Spec

-------------------------------------------------------------------------------
(* New papers.                                                             *)

(* Inductive: while no announcements raced, nothing was announced before the *)
(* run that discovered the paper had its turn; one announcement is open at *)
(* a time, what it saw still holds, and the discoverer is not beside it.   *)
Unraced ==
  /\ Len(news) <= 1
  /\ \A e \in Extractors : Announcing(e) /\ job[e].isNew => news = <<>>
  /\ \A e \in Extractors : At(e, "emitting") /\ ~job[e].seen => news = <<>>
  /\ \A e \in Extractors : At(e, "emitting") =>
       \A f \in Extractors \ {e} : /\ ~At(f, "emitting")
                                   /\ Announcing(f) => ~job[f].isNew

NewsInv ==
  /\ listed = {} => news = <<>>
  /\ raced \/ Unraced

(* Every step preserves it.                                                *)
LEMMA StepNewsInv == FeedInv /\ NewsInv /\ [Next]_vars => NewsInv'
<1> SUFFICES ASSUME FeedInv, NewsInv, [Next]_vars PROVE NewsInv'
  OBVIOUS
<1>0. job \in [Extractors -> Job] /\ news \in Seq(WorkInProgress..Accepted)
  BY DEF FeedInv, TypeOK
<1>1. ASSUME NEW e \in Extractors, job'[e].pc \notin {"saved", "emitting"}, news' = news,
             raced' = raced, listed' = {} => listed = {},
             \A f \in Extractors \ {e} : job'[f] = job[f]
      PROVE  NewsInv'
  BY <1>1 DEF NewsInv, Unraced, Announcing, At
<1>2. ASSUME NEW e \in Extractors, Save(e) PROVE NewsInv'
  <2>1. /\ job'[e].pc = "saved" /\ job'[e].isNew = (listed = {})
        /\ \A f \in Extractors \ {e} : job'[f] = job[f]
    BY <1>0, <1>2 DEF Save, Job
  <2>2. news' = news /\ raced' = raced /\ listed' # {}
    BY <1>2 DEF Save
  <2>3. listed = {} => news = <<>> /\ \A f \in Extractors : ~Announcing(f)
    BY DEF FeedInv, Facts, NewsInv
  <2>4. ASSUME Unraced PROVE Unraced'
    <3>1. \A f \in Extractors : Announcing(f)' /\ job'[f].isNew => news' = <<>>
      BY <2>1, <2>2, <2>3, <2>4 DEF Unraced, Announcing, At
    <3>2. \A f \in Extractors : At(f, "emitting")' => f # e /\ At(f, "emitting") /\ job'[f] = job[f]
      BY <2>1 DEF At
    <3>3. \A f \in Extractors : At(f, "emitting")' =>
            \A g \in Extractors \ {f} : /\ ~At(g, "emitting")'
                                        /\ Announcing(g)' => ~job'[g].isNew
      BY <2>1, <2>3, <2>4, <3>2 DEF Unraced, Announcing, At
    <3> QED
      BY <2>2, <2>4, <3>1, <3>2, <3>3 DEF Unraced
  <2> QED
    BY <2>2, <2>4 DEF NewsInv
<1>3. ASSUME NEW e \in Extractors, OpenEmit(e) PROVE NewsInv'
  <2>1. /\ job'[e].pc = "emitting" /\ job'[e].isNew = job[e].isNew
        /\ job'[e].seen = (news # <<>>)
        /\ \A f \in Extractors \ {e} : job'[f] = job[f]
    BY <1>0, <1>3 DEF OpenEmit, Job
  <2>2. news' = news /\ listed' = listed /\ At(e, "saved")
    BY <1>3 DEF OpenEmit
  <2>3. raced' = (raced \/ \E f \in Extractors \ {e} : Announcing(f))
    BY <1>3 DEF OpenEmit
  <2>4. ASSUME Unraced, \A f \in Extractors \ {e} : ~Announcing(f) PROVE Unraced'
    <3>1. \A f \in Extractors \ {e} : ~Announcing(f)'
      BY <2>1, <2>4 DEF Announcing, At
    <3> QED
      BY <2>1, <2>2, <2>4, <3>1 DEF Unraced, Announcing, At
  <2> QED
    BY <2>2, <2>3, <2>4 DEF NewsInv
<1>4. ASSUME NEW e \in Extractors, Emit(e) PROVE NewsInv'
  <2>1. /\ job'[e].pc = "append" /\ \A f \in Extractors \ {e} : job'[f] = job[f]
    BY <1>0, <1>4 DEF Emit, Announced, Job
  <2>2. /\ news' = IF job[e].isNew \/ ~job[e].seen THEN Append(news, job[e].reading) ELSE news
        /\ raced' = raced /\ listed' = listed /\ At(e, "emitting")
    BY <1>4 DEF Emit
  <2>3. listed # {}
    BY <2>2 DEF FeedInv, Facts, Announcing, At
  <2>4. ASSUME Unraced PROVE Unraced'
    <3>1. \A f \in Extractors : ~At(f, "emitting")'
      BY <2>1, <2>2, <2>4 DEF Unraced, At
    <3>2. \A f \in Extractors : Announcing(f)' => ~job'[f].isNew
      BY <2>1, <2>2, <2>4 DEF Unraced, Announcing, At
    <3>3. Len(news') <= 1
      <4>1. CASE job[e].isNew \/ ~job[e].seen
        <5>1. news = <<>>
          BY <2>2, <2>4, <4>1 DEF Unraced, Announcing, At
        <5>2. job[e].reading \in WorkInProgress..Accepted
          BY <2>2 DEF FeedInv, Facts
        <5>3. Len(Append(news, job[e].reading)) = Len(news) + 1 /\ Len(news) = 0
          BY <1>0, <5>1, <5>2, AppendProperties
        <5> QED
          BY <2>2, <4>1, <5>3
      <4>2. CASE ~(job[e].isNew \/ ~job[e].seen)
        BY <2>2, <2>4, <4>2 DEF Unraced
      <4> QED
        BY <4>1, <4>2
    <3> QED
      BY <3>1, <3>2, <3>3 DEF Unraced
  <2> QED
    BY <2>2, <2>3, <2>4 DEF NewsInv
<1>5. ASSUME NEW e \in Extractors,
             \/ \E u \in Urls, pc \in {"listing", "append", "rename"}, r \in Readings :
                  Start(e, u, pc, r)
             \/ Mark(e) \/ Dies(e)
      PROVE  NewsInv'
  <2>1. job'[e].pc \notin {"saved", "emitting"} /\ \A f \in Extractors \ {e} : job'[f] = job[f]
    <3>1. CASE Mark(e) \/ Dies(e)
      BY <1>0, <3>1 DEF Mark, Dies, JobIdle
    <3>2. ASSUME NEW u \in Urls, NEW pc \in {"listing", "append", "rename"},
                 NEW r \in Readings, Start(e, u, pc, r)
          PROVE  job'[e].pc = pc /\ \A f \in Extractors \ {e} : job'[f] = job[f]
      BY <1>0, <3>2 DEF Start, JobIdle
    <3> QED
      BY <1>5, <3>1, <3>2
  <2>2. news' = news /\ raced' = raced /\ listed' = listed
    BY <1>5 DEF Start, Mark, Dies
  <2> QED
    BY <1>1, <2>1, <2>2
<1>6. ASSUME NEW e \in Extractors,
             \/ SaveFails(e) \/ SkipEmit(e) \/ NoSnapshot(e) \/ Rename(e)
             \/ \E date \in Dates : Tell(e, date)
      PROVE  NewsInv'
  <2>1. job'[e].pc \in {"append", "marking"} /\ \A f \in Extractors \ {e} : job'[f] = job[f]
    <3>1. CASE SkipEmit(e)
      BY <1>0, <3>1 DEF SkipEmit, Announced, Job
    <3>2. CASE SaveFails(e)
      BY <1>0, <3>2 DEF SaveFails, Job
    <3>3. CASE NoSnapshot(e) \/ Rename(e) \/ \E date \in Dates : Tell(e, date)
      BY <1>0, <3>3 DEF NoSnapshot, Rename, Tell, Job
    <3> QED
      BY <1>6, <3>1, <3>2, <3>3
  <2>2. news' = news /\ raced' = raced /\ listed' = listed
    BY <1>6 DEF SaveFails, SkipEmit, NoSnapshot, Rename, Tell
  <2> QED
    BY <1>1, <2>1, <2>2
<1>7. ASSUME NEW e \in Extractors, NEW stale \in BOOLEAN, Snapshot(e, stale) PROVE NewsInv'
  <2>1. PICK x \in Job : x.pc \in {"telling", "marking"} /\ job' = [job EXCEPT ![e] = x]
    BY <1>7, SnapshotRun
  <2>2. job'[e].pc \in {"telling", "marking"} /\ \A f \in Extractors \ {e} : job'[f] = job[f]
    BY <1>0, <2>1
  <2>3. news' = news /\ raced' = raced /\ listed' = listed
    BY <1>7 DEF Snapshot
  <2> QED
    BY <1>1, <2>2, <2>3
<1>8. CASE UNCHANGED vars \/ BootCleans
  BY <1>8 DEF vars, BootCleans, NewsInv, Unraced, Announcing, At
<1> QED
  BY <1>2, <1>3, <1>4, <1>5, <1>6, <1>7, <1>8 DEF Next, Run

(* A paper is announced as new at most once, but for raced announcements:    *)
(* NewsOnceUnlessRaced, for every choice of the constants.                 *)
THEOREM NewsOnceCorrect == Spec => []NewsOnceUnlessRaced
<1>1. Init => NewsInv
  <2> SUFFICES ASSUME Init PROVE NewsInv
    OBVIOUS
  <2>1. news = <<>> /\ \A e \in Extractors : ~Announcing(e) /\ ~At(e, "emitting")
    BY DEF Init, Announcing, At, JobIdle
  <2> QED
    BY <2>1 DEF NewsInv, Unraced
<1>2. NewsInv => NewsOnceUnlessRaced
  BY DEF NewsInv, Unraced, NewsOnceUnlessRaced
<1> QED
  BY <1>1, <1>2, StepNewsInv, FeedTypeInvariant, PTL DEF Spec
===============================================================================
