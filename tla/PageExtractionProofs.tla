------------------------- MODULE PageExtractionProofs -------------------------
(***************************************************************************)
(* Theorems of PageExtraction, for every choice of pages, papers,           *)
(* extractors and bounds.                                                  *)
(***************************************************************************)
EXTENDS PageExtraction, TLAPS, SequenceTheorems

(* A hash of the deployed cleaner is a hash.                               *)
LEMMA HashOfType ==
  ASSUME cleaner \in 0..MaxCleaner, NEW g \in Pages
  PROVE  HashOf(g) \in Hash
  BY DEF HashOf, Hash

(* The newest snapshot is one of the pages.                                *)
LEMMA LastSnapType ==
  ASSUME snaps \in Seq(Hash), snaps # <<>>
  PROVE  /\ Len(snaps) \in 1..Len(snaps)
         /\ snaps[Len(snaps)] \in Hash
         /\ LastSnap \in Pages
<1>1. Len(snaps) \in Nat /\ snaps \in [1..Len(snaps) -> Hash]
  BY LenProperties
<1>2. Len(snaps) # 0
  BY EmptySeq
<1>3. Len(snaps) \in 1..Len(snaps)
  BY <1>1, <1>2
<1>4. snaps[Len(snaps)] \in Hash
  BY <1>1, <1>3
<1> QED
  BY <1>3, <1>4 DEF LastSnap, Hash

-------------------------------------------------------------------------------
(* Type correctness.                                                       *)

(* The types hold initially.                                               *)
LEMMA InitTypeOK == Init => TypeOK
<1> SUFFICES ASSUME Init PROVE TypeOK
  OBVIOUS
<1> USE PageAssumption, HashAssumption
<1>1. cleaner \in 0..MaxCleaner /\ live \in Pages
  BY DEF Init
<1>2. HashOf(live) \in Hash
  BY <1>1, HashOfType
<1>3. row \in [hash : Hash \cup {NoHash}, body : Bodies, marked : Hash \cup {NoHash}]
  BY <1>2 DEF Init, Bodies
<1>4. PapersOn[live] \subseteq Papers
  BY <1>1
<1>5. JobIdle \in Job
  BY DEF JobIdle, Job, Steps
<1>6. job \in [Extractors -> Job]
  BY <1>5 DEF Init
<1>7. snaps \in Seq(Hash)
  BY DEF Init
<1>8. fetch \in [pc : {"idle", "archive", "upsert"}, page : Pages \cup {NoPage}]
  BY DEF Init, FetchIdle
<1>9. saved \subseteq Papers
  BY <1>4 DEF Init
<1>10. read \subseteq Hash
  BY <1>3 DEF Init
<1> QED
  BY <1>1, <1>3, <1>4, <1>6, <1>7, <1>8, <1>9, <1>10 DEF Init, TypeOK

(* What the types alone do not say: a fetch under way has a page, a run      *)
(* under way was started on a stored page, and has read the hash it holds.  *)
Started ==
  /\ fetch.pc # "idle" => fetch.page \in Pages
  /\ \A e \in Extractors : job[e].pc # "idle" => row.hash # NoHash
  /\ \A e \in Extractors : job[e].pc \notin {"idle", "picked"} => job[e].hash \in read

ReadInv == TypeOK /\ Started /\ MarkedWasRead

(* Every step preserves the types, what a started run knows, and            *)
(* MarkedWasRead.                                                          *)
LEMMA StepReadInv == ReadInv /\ [Next]_vars => ReadInv'
<1> SUFFICES ASSUME ReadInv, [Next]_vars PROVE ReadInv'
  OBVIOUS
<1> USE PageAssumption, HashAssumption DEF ReadInv, Started, MarkedWasRead, finds
<1>1. ASSUME NEW g \in Pages, PageChanges(g) PROVE ReadInv'
  BY <1>1 DEF TypeOK, PageChanges, history, Mishaps
<1>2. ASSUME Deploy PROVE ReadInv'
  BY <1>2 DEF TypeOK, Deploy, history, Mishaps
<1>3. ASSUME FetchChanged PROVE ReadInv'
  BY <1>3 DEF TypeOK, FetchChanged, history
<1>4. ASSUME FetchTouch PROVE ReadInv'
  <2>1. row' \in [hash : Hash \cup {NoHash}, body : Bodies, marked : Hash \cup {NoHash}]
    BY <1>4 DEF TypeOK, FetchTouch, Bodies
  <2>2. kept' \subseteq Hash
    BY <1>4, HashOfType DEF TypeOK, FetchTouch
  <2>3. row'.hash = row.hash /\ row'.marked = row.marked
    BY <1>4 DEF TypeOK, FetchTouch
  <2> QED
    BY <1>4, <2>1, <2>2, <2>3 DEF TypeOK, FetchTouch
<1>5. ASSUME FetchArchive PROVE ReadInv'
  <2>1. snaps' \in Seq(Hash)
    BY <1>5 DEF TypeOK, FetchArchive
  <2>2. fetch' \in [pc : {"idle", "archive", "upsert"}, page : Pages \cup {NoPage}]
    BY <1>5 DEF TypeOK, FetchArchive
  <2>3. fetch'.page \in Pages
    BY <1>5 DEF TypeOK, FetchArchive
  <2> QED
    BY <1>5, <2>1, <2>2, <2>3 DEF TypeOK, FetchArchive, history
<1>6. ASSUME FetchArchiveFails PROVE ReadInv'
  <2>1. fetch' \in [pc : {"idle", "archive", "upsert"}, page : Pages \cup {NoPage}]
    BY <1>6 DEF TypeOK, FetchArchiveFails
  <2>2. fetch'.page \in Pages
    BY <1>6 DEF TypeOK, FetchArchiveFails
  <2>3. faults' \in 0..MaxFaults /\ mishaps' \subseteq Mishaps
    BY <1>6 DEF TypeOK, FetchArchiveFails, Fault, Note, Mishaps
  <2> QED
    BY <1>6, <2>1, <2>2, <2>3 DEF TypeOK, FetchArchiveFails, Fault, Note
<1>7. ASSUME FetchUpsert PROVE ReadInv'
  <2>1. HashOf(fetch.page) \in Hash
    BY <1>7, HashOfType DEF TypeOK, FetchUpsert
  <2>2. row' \in [hash : Hash \cup {NoHash}, body : Bodies, marked : Hash \cup {NoHash}]
    BY <1>7, <2>1 DEF TypeOK, FetchUpsert, Bodies
  <2>3. row'.hash = HashOf(fetch.page) /\ row'.marked = row.marked
    BY <1>7 DEF TypeOK, FetchUpsert
  <2>4. kept' \subseteq Hash /\ mishaps' \subseteq Mishaps
    BY <1>7, <2>1 DEF TypeOK, FetchUpsert, Note, Mishaps
  <2>5. fetch' \in [pc : {"idle", "archive", "upsert"}, page : Pages \cup {NoPage}]
    BY <1>7 DEF FetchUpsert, FetchIdle
  <2> QED
    BY <1>7, <2>1, <2>2, <2>3, <2>4, <2>5 DEF TypeOK, FetchUpsert, FetchIdle
<1>8. ASSUME FetchDies PROVE ReadInv'
  BY <1>8 DEF TypeOK, FetchDies, Fault, Note, Mishaps, FetchIdle
<1>9. ASSUME NEW e \in Extractors, Pick(e) PROVE ReadInv'
  <2>1. job' \in [Extractors -> Job]
    <3>1. job'[e] = [job[e] EXCEPT !.pc = "picked"]
      BY <1>9 DEF TypeOK, Pick
    <3>2. job[e] \in Job
      BY DEF TypeOK
    <3>3. job'[e] \in Job
      BY <1>9, <3>1, <3>2 DEF Job, Steps
    <3> QED
      BY <1>9, <3>3 DEF TypeOK, Pick
  <2>2. \A f \in Extractors : f # e => job'[f] = job[f]
    BY <1>9 DEF TypeOK, Pick
  <2>3. job'[e].pc = "picked" /\ row.hash # NoHash
    BY <1>9 DEF TypeOK, Pick, InQueue, Job
  <2> QED
    BY <1>9, <2>1, <2>2, <2>3 DEF TypeOK, Pick, history
<1>10. ASSUME NEW e \in Extractors, ReadPayload(e) PROVE ReadInv'
  <2>1. job' \in [Extractors -> Job]
    BY <1>10 DEF TypeOK, ReadPayload, Job, Steps, JobIdle
  <2>2. \A f \in Extractors : f # e => job'[f] = job[f]
    BY <1>10 DEF TypeOK, ReadPayload
  <2>3. job'[e].hash = row.hash /\ row.hash # NoHash
    BY <1>10 DEF TypeOK, ReadPayload, JobIdle
  <2>4. read' \subseteq Hash
    BY <1>10, <2>3 DEF TypeOK, ReadPayload
  <2> QED
    BY <1>10, <2>1, <2>2, <2>3, <2>4 DEF TypeOK, ReadPayload
<1>11. ASSUME NEW e \in Extractors, ReadBaseline(e) PROVE ReadInv'
  <2> DEFINE base == IF job[e].seed \/ snaps = <<>> THEN NoPage ELSE LastSnap
  <2>1. base \in Pages \cup {NoPage}
    BY LastSnapType DEF TypeOK
  <2>2. job' = [job EXCEPT ![e].base = base,
                           ![e].pc = IF base = job[e].hash.page THEN "marking" ELSE "asked"]
    BY <1>11 DEF ReadBaseline
  <2> HIDE DEF base
  <2>3. job' \in [Extractors -> Job]
    <3>1. job'[e] = [job[e] EXCEPT
                      !.base = base,
                      !.pc = IF base = job[e].hash.page THEN "marking" ELSE "asked"]
      BY <2>2 DEF TypeOK
    <3>2. job[e] \in Job
      BY DEF TypeOK
    <3>3. job'[e] \in Job
      BY <2>1, <3>1, <3>2 DEF Job, Steps
    <3> QED
      BY <2>2, <3>3 DEF TypeOK
  <2>4. \A f \in Extractors : f # e => job'[f] = job[f]
    BY <2>2 DEF TypeOK
  <2>5. job'[e].hash = job[e].hash /\ job[e].pc = "read"
    BY <2>2, <1>11 DEF TypeOK, ReadBaseline, Job
  <2>6. mishaps' \subseteq Mishaps
    BY <1>11 DEF TypeOK, ReadBaseline, Note, Mishaps
  <2> QED
    BY <1>11, <2>3, <2>4, <2>5, <2>6 DEF TypeOK, ReadBaseline
<1>12. ASSUME NEW e \in Extractors, NEW pubs \in SUBSET Papers, Answer(e, pubs) PROVE ReadInv'
  <2>1. job' \in [Extractors -> Job]
    <3>1. job'[e] = [job[e] EXCEPT
                      !.pc = IF pubs = {} THEN "marking" ELSE "saving", !.todo = pubs]
      BY <1>12 DEF TypeOK, Answer
    <3>2. job[e] \in Job
      BY DEF TypeOK
    <3>3. job'[e] \in Job
      BY <1>12, <3>1, <3>2 DEF Job, Steps
    <3> QED
      BY <1>12, <3>3 DEF TypeOK, Answer
  <2>2. \A f \in Extractors : f # e => job'[f] = job[f]
    BY <1>12 DEF TypeOK, Answer
  <2>3. job'[e].hash = job[e].hash /\ job[e].pc = "asked"
    BY <1>12 DEF TypeOK, Answer, Job
  <2>4. Offer(e) \subseteq Papers
    BY <2>3, <1>12 DEF TypeOK, Offer, Job, Hash
  <2>5. offered' \subseteq Papers
    BY <1>12, <2>4 DEF TypeOK, Answer
  <2>6. found' \subseteq Papers
    BY <1>12 DEF TypeOK, Answer
  <2> QED
    BY <1>12, <2>1, <2>2, <2>3, <2>5, <2>6 DEF TypeOK, Answer
<1>13. ASSUME NEW e \in Extractors, NEW p \in Papers, SavePaper(e, p) PROVE ReadInv'
  <2>1. job' \in [Extractors -> Job]
    <3> DEFINE fresh == IF p \in saved THEN job[e].fresh ELSE job[e].fresh \cup {p}
    <3>1. job'[e] = [job[e] EXCEPT !.todo = @ \ {p}, !.fresh = fresh]
      BY <1>13 DEF TypeOK, SavePaper
    <3>2. job[e] \in Job
      BY DEF TypeOK
    <3>3. fresh \subseteq Papers
      BY <3>2 DEF Job
    <3> HIDE DEF fresh
    <3>4. job'[e] \in Job
      BY <3>1, <3>2, <3>3 DEF Job, Steps
    <3> QED
      BY <1>13, <3>4 DEF TypeOK, SavePaper
  <2>2. \A f \in Extractors : f # e => job'[f] = job[f]
    BY <1>13 DEF TypeOK, SavePaper
  <2>3. job'[e].hash = job[e].hash /\ job'[e].pc = "saving" /\ job[e].pc = "saving"
    BY <1>13 DEF TypeOK, SavePaper, Job
  <2> QED
    BY <1>13, <2>1, <2>2, <2>3 DEF TypeOK, SavePaper
<1>14. ASSUME NEW e \in Extractors, NEW p \in Papers, SaveFails(e, p) PROVE ReadInv'
  <2>1. job' \in [Extractors -> Job]
    <3>1. job'[e] = [job[e] EXCEPT !.todo = @ \ {p}]
      BY <1>14 DEF TypeOK, SaveFails
    <3>2. job[e] \in Job
      BY DEF TypeOK
    <3>3. job'[e] \in Job
      BY <1>14, <3>1, <3>2 DEF Job, Steps
    <3> QED
      BY <1>14, <3>3 DEF TypeOK, SaveFails
  <2>2. \A f \in Extractors : f # e => job'[f] = job[f]
    BY <1>14 DEF TypeOK, SaveFails
  <2>3. job'[e].hash = job[e].hash /\ job'[e].pc = "saving" /\ job[e].pc = "saving"
    BY <1>14 DEF TypeOK, SaveFails, Job
  <2>4. faults' \in 0..MaxFaults
    BY <1>14 DEF TypeOK, SaveFails, Fault
  <2>5. hushed' \subseteq Papers
    BY <1>14 DEF TypeOK, SaveFails
  <2> QED
    BY <1>14, <2>1, <2>2, <2>3, <2>4, <2>5 DEF TypeOK, SaveFails
<1>15. ASSUME NEW e \in Extractors, Emit(e) PROVE ReadInv'
  <2>1. job' \in [Extractors -> Job]
    <3>1. job'[e] = [job[e] EXCEPT !.pc = "marking"]
      BY <1>15 DEF TypeOK, Emit
    <3>2. job[e] \in Job
      BY DEF TypeOK
    <3>3. job'[e] \in Job
      BY <1>15, <3>1, <3>2 DEF Job, Steps
    <3> QED
      BY <1>15, <3>3 DEF TypeOK, Emit
  <2>2. \A f \in Extractors : f # e => job'[f] = job[f]
    BY <1>15 DEF TypeOK, Emit
  <2>3. job'[e].hash = job[e].hash /\ job[e].pc = "saving"
    BY <1>15 DEF TypeOK, Emit, Job
  <2>4. announced' \subseteq Papers
    BY <1>15 DEF TypeOK, Emit, Job
  <2>5. hushed' \subseteq Papers
    BY <1>15 DEF TypeOK, Emit, Hush, Job
  <2> QED
    BY <1>15, <2>1, <2>2, <2>3, <2>4, <2>5 DEF TypeOK, Emit
<1>16. ASSUME NEW e \in Extractors, Mark(e) PROVE ReadInv'
  <2>1. job' \in [Extractors -> Job]
    BY <1>16 DEF TypeOK, Mark, Job, Steps, JobIdle
  <2>2. \A f \in Extractors : f # e => job'[f] = job[f]
    BY <1>16 DEF TypeOK, Mark
  <2>3. job[e].hash \in read /\ job[e].pc = "marking"
    BY <1>16 DEF Mark
  <2>4. row'.hash = row.hash /\ row'.marked = job[e].hash /\ row'.body = row.body
    BY <1>16 DEF TypeOK, Mark
  <2>5. row' \in [hash : Hash \cup {NoHash}, body : Bodies, marked : Hash \cup {NoHash}]
    BY <1>16, <2>3 DEF TypeOK, Mark
  <2>6. job'[e].pc = "idle"
    BY <1>16 DEF TypeOK, Mark, JobIdle
  <2> QED
    BY <1>16, <2>1, <2>2, <2>3, <2>4, <2>5, <2>6 DEF TypeOK, Mark
<1>17. ASSUME NEW e \in Extractors, JobDies(e) PROVE ReadInv'
  <2>1. job' \in [Extractors -> Job]
    BY <1>17 DEF TypeOK, JobDies, Job, Steps, JobIdle
  <2>2. \A f \in Extractors : f # e => job'[f] = job[f]
    BY <1>17 DEF TypeOK, JobDies
  <2>3. job'[e].pc = "idle"
    BY <1>17 DEF TypeOK, JobDies, JobIdle
  <2>4. faults' \in 0..MaxFaults
    BY <1>17 DEF TypeOK, JobDies, Fault
  <2>5. hushed' \subseteq Papers
    BY <1>17 DEF TypeOK, JobDies, Held, Job
  <2> QED
    BY <1>17, <2>1, <2>2, <2>3, <2>4, <2>5 DEF TypeOK, JobDies
<1>18. CASE UNCHANGED vars
  BY <1>18 DEF TypeOK, vars, system, history, Mishaps
<1> QED
  BY <1>1, <1>2, <1>3, <1>4, <1>5, <1>6, <1>7, <1>8, <1>9, <1>10, <1>11, <1>12,
     <1>13, <1>14, <1>15, <1>16, <1>17, <1>18
     DEF Next, Fetcher, Extract, Faulty

(* They hold initially.                                                    *)
LEMMA InitReadInv == Init => ReadInv
<1> SUFFICES ASSUME Init PROVE ReadInv
  OBVIOUS
<1>1. TypeOK
  BY InitTypeOK
<1>2. row.marked # NoHash => row.marked \in read
  BY DEF Init
<1>3. fetch.pc = "idle" /\ \A e \in Extractors : job[e].pc = "idle"
  BY DEF Init, FetchIdle, JobIdle
<1> QED
  BY <1>1, <1>2, <1>3 DEF ReadInv, Started, MarkedWasRead

(* The types, what a started run knows, and MarkedWasRead hold throughout.   *)
THEOREM ReadInvariant == Spec => []ReadInv
  BY InitReadInv, StepReadInv, PTL DEF Spec

(* Every reachable state is well typed.                                    *)
THEOREM TypeCorrect == Spec => []TypeOK
<1>1. ReadInv => TypeOK
  BY DEF ReadInv
<1> QED
  BY <1>1, ReadInvariant, PTL

(* A page is only ever marked extracted with a hash some run has read        *)
(* (mark_extracted takes the hash of get_extraction_payload).              *)
THEOREM MarkedReadCorrect == Spec => []MarkedWasRead
<1>1. ReadInv => MarkedWasRead
  BY DEF ReadInv
<1> QED
  BY <1>1, ReadInvariant, PTL

-------------------------------------------------------------------------------
(* Announcements.                                                          *)

(* A paper that a seed run saved first is in no other run's list of new     *)
(* papers, because is_new is true once.                                    *)
SeedInv ==
  /\ seedSaved \subseteq saved
  /\ announced \subseteq saved
  /\ \A e \in Extractors : job[e].fresh \subseteq saved
  /\ \A e \in Extractors : ~job[e].seed => job[e].fresh \cap seedSaved = {}
  /\ SeedIsSilent

(* Every step preserves the invariant of the seed runs.                     *)
LEMMA StepSeedInv == TypeOK /\ SeedInv /\ [Next]_vars => SeedInv'
<1> SUFFICES ASSUME TypeOK, SeedInv, [Next]_vars PROVE SeedInv'
  OBVIOUS
<1> USE DEF SeedInv, SeedIsSilent
<1>1. ASSUME UNCHANGED <<job, saved, announced, seedSaved>> PROVE SeedInv'
  BY <1>1
<1>2. ASSUME NEW e \in Extractors, NEW j,
             job' = [job EXCEPT ![e] = j], j.fresh = {} \/ j.fresh = job[e].fresh,
             j.fresh = {} \/ j.seed = job[e].seed,
             UNCHANGED <<saved, announced, seedSaved>>
      PROVE  SeedInv'
  BY <1>2 DEF TypeOK
<1>3. ASSUME NEW e \in Extractors, Pick(e) PROVE SeedInv'
  <2>1. job' = [job EXCEPT ![e] = [job[e] EXCEPT !.pc = "picked"]]
    BY <1>3 DEF TypeOK, Pick
  <2> QED
    BY <1>3, <2>1, <1>2 DEF TypeOK, Pick, Job, history
<1>4. ASSUME NEW e \in Extractors, ReadPayload(e) PROVE SeedInv'
  BY <1>4, <1>2 DEF ReadPayload, JobIdle
<1>5. ASSUME NEW e \in Extractors, ReadBaseline(e) PROVE SeedInv'
  <2>1. PICK b, c : job' = [job EXCEPT ![e].base = b, ![e].pc = c]
    BY <1>5 DEF ReadBaseline
  <2>2. job' = [job EXCEPT ![e] = [job[e] EXCEPT !.base = b, !.pc = c]]
    BY <2>1 DEF TypeOK
  <2> QED
    BY <1>5, <2>2, <1>2 DEF TypeOK, ReadBaseline, Job
<1>6. ASSUME NEW e \in Extractors, NEW pubs \in SUBSET Papers, Answer(e, pubs) PROVE SeedInv'
  <2>1. PICK c : job' = [job EXCEPT ![e].pc = c, ![e].todo = pubs]
    BY <1>6 DEF Answer
  <2>2. job' = [job EXCEPT ![e] = [job[e] EXCEPT !.pc = c, !.todo = pubs]]
    BY <2>1 DEF TypeOK
  <2>3. /\ [job[e] EXCEPT !.pc = c, !.todo = pubs].fresh = job[e].fresh
        /\ [job[e] EXCEPT !.pc = c, !.todo = pubs].seed = job[e].seed
    BY DEF TypeOK, Job
  <2>4. UNCHANGED <<saved, announced, seedSaved>>
    BY <1>6 DEF Answer
  <2> QED
    BY <2>2, <2>3, <2>4, <1>2
<1>7. ASSUME NEW e \in Extractors, NEW p \in Papers, SavePaper(e, p) PROVE SeedInv'
  <2>1. \A f \in Extractors : f # e => job'[f] = job[f]
    BY <1>7 DEF TypeOK, SavePaper
  <2>2. job'[e].seed = job[e].seed
        /\ job'[e].fresh = IF p \in saved THEN job[e].fresh ELSE job[e].fresh \cup {p}
    BY <1>7 DEF TypeOK, SavePaper, Job
  <2>3. saved' = saved \cup {p} /\ announced' = announced
    BY <1>7 DEF SavePaper
  <2>4. seedSaved' = IF job[e].seed /\ p \notin saved THEN seedSaved \cup {p} ELSE seedSaved
    BY <1>7 DEF SavePaper
  <2> QED
    BY <2>1, <2>2, <2>3, <2>4
<1>8. ASSUME NEW e \in Extractors, NEW p \in Papers, SaveFails(e, p) PROVE SeedInv'
  <2>1. PICK t : job' = [job EXCEPT ![e] = [job[e] EXCEPT !.todo = t]]
    BY <1>8 DEF TypeOK, SaveFails
  <2>2. /\ [job[e] EXCEPT !.todo = t].fresh = job[e].fresh
        /\ [job[e] EXCEPT !.todo = t].seed = job[e].seed
    BY DEF TypeOK, Job
  <2>3. UNCHANGED <<saved, announced, seedSaved>>
    BY <1>8 DEF SaveFails, history
  <2> QED
    BY <2>1, <2>2, <2>3, <1>2
<1>9. ASSUME NEW e \in Extractors, Emit(e) PROVE SeedInv'
  <2>1. \A f \in Extractors : job'[f].fresh = job[f].fresh /\ job'[f].seed = job[f].seed
    BY <1>9 DEF TypeOK, Emit, Job
  <2>2. announced' \subseteq announced \cup (IF job[e].seed THEN {} ELSE job[e].fresh)
    BY <1>9 DEF Emit
  <2>3. saved' = saved /\ seedSaved' = seedSaved
    BY <1>9 DEF Emit, history
  <2> QED
    BY <2>1, <2>2, <2>3
<1>10. ASSUME NEW e \in Extractors, Mark(e) PROVE SeedInv'
  BY <1>10, <1>2 DEF Mark, JobIdle
<1>11. ASSUME NEW e \in Extractors, JobDies(e) PROVE SeedInv'
  BY <1>11, <1>2 DEF JobDies, JobIdle, history
<1>12. ASSUME Fetcher \/ Deploy \/ FetchArchiveFails \/ FetchDies
              \/ \E g \in Pages : PageChanges(g)
       PROVE  SeedInv'
  BY <1>12, <1>1 DEF Fetcher, FetchChanged, FetchTouch, FetchArchive, FetchUpsert, Deploy,
                     FetchArchiveFails, FetchDies, PageChanges, history
<1>13. CASE UNCHANGED vars
  BY <1>13, <1>1 DEF vars, system, history
<1> QED
  BY <1>3, <1>4, <1>5, <1>6, <1>7, <1>8, <1>9, <1>10, <1>11, <1>12, <1>13
     DEF Next, Extract, Faulty

(* What a researcher's first extraction finds is never announced.           *)
THEOREM SeedCorrect == Spec => []SeedIsSilent
<1>1. Init => SeedInv
  BY DEF Init, SeedInv, SeedIsSilent, JobIdle
<1>2. SeedInv => SeedIsSilent
  BY DEF SeedInv
<1> QED
  BY <1>1, <1>2, StepSeedInv, TypeCorrect, PTL DEF Spec

(* A title in every archived version is never announced.                   *)
LEMMA StepLasting == TypeOK /\ LastingPaperIsNotNews /\ [Next]_vars => LastingPaperIsNotNews'
<1> SUFFICES ASSUME TypeOK, LastingPaperIsNotNews, [Next]_vars
             PROVE  LastingPaperIsNotNews'
  OBVIOUS
<1> USE DEF LastingPaperIsNotNews
<1>1. ASSUME UNCHANGED <<announced, snaps>> PROVE LastingPaperIsNotNews'
  BY <1>1
<1>2. ASSUME FetchArchive PROVE LastingPaperIsNotNews'
  <2>1. announced' = announced
    BY <1>2 DEF FetchArchive
  <2>2. CASE snaps' = snaps
    BY <2>1, <2>2
  <2>3. CASE snaps' = Append(snaps, row.hash)
    <3>1. Len(snaps) \in Nat /\ Len(snaps') = Len(snaps) + 1
      BY <2>3, LenProperties DEF TypeOK
    <3>2. \A i \in 1..Len(snaps) : i \in 1..Len(snaps') /\ snaps'[i] = snaps[i]
      BY <2>3, <3>1 DEF TypeOK
    <3> QED
      BY <2>1, <3>2
  <2> QED
    BY <1>2, <2>2, <2>3 DEF FetchArchive
<1>3. ASSUME NEW e \in Extractors, Emit(e) PROVE LastingPaperIsNotNews'
  <2>1. snaps' = snaps
    BY <1>3 DEF Emit
  <2>2. CASE announced' = announced
    BY <2>1, <2>2
  <2>3. CASE Len(snaps) >= 2 /\ announced' \subseteq announced \cup {p \in Papers : p \notin PapersOn[LastSnap]}
    <3>1. Len(snaps) \in 1..Len(snaps)
      BY <2>3, LenProperties DEF TypeOK
    <3>2. \A p \in announced' : p \in announced \/ p \notin PapersOn[snaps[Len(snaps)].page]
      BY <2>3 DEF LastSnap
    <3> QED
      BY <2>1, <3>1, <3>2
  <2>4. job[e].fresh \subseteq Papers
    BY DEF TypeOK, Job
  <2> QED
    BY <1>3, <2>2, <2>3, <2>4 DEF Emit
<1>4. ASSUME NEW e \in Extractors,
             \/ Pick(e) \/ ReadPayload(e) \/ ReadBaseline(e) \/ Mark(e) \/ JobDies(e)
             \/ \E pubs \in SUBSET Papers : Answer(e, pubs)
             \/ \E p \in Papers : SavePaper(e, p) \/ SaveFails(e, p)
      PROVE  LastingPaperIsNotNews'
  BY <1>4, <1>1 DEF Pick, ReadPayload, ReadBaseline, Mark, JobDies, Answer, SavePaper,
                    SaveFails, history
<1>5. ASSUME \/ FetchChanged \/ FetchTouch \/ FetchUpsert \/ Deploy
             \/ FetchArchiveFails \/ FetchDies \/ \E g \in Pages : PageChanges(g)
      PROVE  LastingPaperIsNotNews'
  BY <1>5, <1>1 DEF FetchChanged, FetchTouch, FetchUpsert, Deploy, FetchArchiveFails,
                    FetchDies, PageChanges, history
<1>6. CASE UNCHANGED vars
  BY <1>6, <1>1 DEF vars, system, history
<1> QED
  BY <1>2, <1>3, <1>4, <1>5, <1>6 DEF Next, Fetcher, Extract, Faulty

(* A title in every archived version is never announced, whatever earlier   *)
(* answers of the LLM left out.                                            *)
THEOREM LastingCorrect == Spec => []LastingPaperIsNotNews
<1>1. Init => LastingPaperIsNotNews
  BY DEF Init, LastingPaperIsNotNews
<1> QED
  BY <1>1, StepLasting, TypeCorrect, PTL DEF Spec

-------------------------------------------------------------------------------
(* Every paper reaches the feed.                                           *)

(* What a run knows of its papers: it has none before it saves, and those of *)
(* a seed run were saved by one.                                           *)
RunFacts(e) ==
  /\ job[e].pc \notin {"saving", "marking"} => job[e].fresh = {}
  /\ job[e].pc = "saving" /\ job[e].seed => job[e].fresh \subseteq seedSaved

(* Inductive: a saved paper is settled or some run has yet to announce it, and *)
(* a paper that an answer named is saved, given up, or some run has yet to *)
(* save it.                                                                *)
TellInv ==
  /\ \A e \in Extractors : RunFacts(e)
  /\ \A p \in saved :
       \/ p \in seedSaved \cup announced \cup hushed
       \/ \E e \in Extractors : job[e].pc = "saving" /\ p \in job[e].fresh
  /\ \A p \in found :
       \/ p \in saved \cup hushed
       \/ \E e \in Extractors : job[e].pc = "saving" /\ p \in job[e].todo

(* A step of a run that is not saving papers before it.                      *)
LEMMA AsideStep ==
  ASSUME TypeOK, TellInv, NEW e \in Extractors, job[e].pc # "saving",
         \A f \in Extractors \ {e} : job'[f] = job[f], RunFacts(e)',
         UNCHANGED <<saved, announced, seedSaved, hushed>>,
         \A p \in found' : p \in found \/ (job'[e].pc = "saving" /\ p \in job'[e].todo)
  PROVE  TellInv'
<1>1. \A f \in Extractors : job[f].pc = "saving" => job'[f] = job[f]
  OBVIOUS
<1>2. \A f \in Extractors \ {e} : RunFacts(f)'
  BY DEF TellInv, RunFacts
<1>3. \A f \in Extractors : RunFacts(f)'
  BY <1>2
<1> QED
  BY <1>1, <1>3 DEF TellInv

(* A step of a run that is saving papers: what leaves its hands is settled.  *)
LEMMA SavingStep ==
  ASSUME TypeOK, TellInv, NEW e \in Extractors, job[e].pc = "saving",
         \A f \in Extractors \ {e} : job'[f] = job[f], RunFacts(e)',
         seedSaved \subseteq seedSaved', announced \subseteq announced',
         found' = found, saved \subseteq saved', hushed \subseteq hushed' \cup (saved' \ saved),
         \A p \in job[e].fresh \cup (saved' \ saved) :
            \/ p \in seedSaved' \cup announced' \cup hushed'
            \/ job'[e].pc = "saving" /\ p \in job'[e].fresh,
         \A p \in job[e].todo :
            p \in saved' \cup hushed' \/ (job'[e].pc = "saving" /\ p \in job'[e].todo)
  PROVE  TellInv'
<1>1. \A f \in Extractors \ {e} : RunFacts(f)'
  BY DEF TellInv, RunFacts
<1>2. ASSUME NEW p \in saved'
      PROVE  \/ p \in seedSaved' \cup announced' \cup hushed'
             \/ \E f \in Extractors : job'[f].pc = "saving" /\ p \in job'[f].fresh
  <2>1. CASE p \in job[e].fresh \cup (saved' \ saved)
    BY <2>1
  <2>2. CASE p \in saved /\ p \notin job[e].fresh
    <3>1. CASE p \in seedSaved \cup announced \cup hushed
      BY <2>2, <3>1
    <3>2. ASSUME NEW f \in Extractors, job[f].pc = "saving", p \in job[f].fresh
          PROVE  f # e /\ job'[f] = job[f]
      BY <2>2, <3>2
    <3> QED
      BY <2>2, <3>1, <3>2 DEF TellInv
  <2> QED
    BY <1>2, <2>1, <2>2
<1>3. ASSUME NEW p \in found
      PROVE  \/ p \in saved' \cup hushed'
             \/ \E f \in Extractors : job'[f].pc = "saving" /\ p \in job'[f].todo
  <2>1. CASE p \in job[e].todo
    BY <2>1
  <2>2. CASE p \notin job[e].todo
    <3>1. CASE p \in saved \cup hushed
      BY <3>1
    <3>2. ASSUME NEW f \in Extractors, job[f].pc = "saving", p \in job[f].todo
          PROVE  f # e /\ job'[f] = job[f]
      BY <2>2, <3>2
    <3> QED
      BY <3>1, <3>2 DEF TellInv
  <2> QED
    BY <2>1, <2>2
<1> QED
  BY <1>1, <1>2, <1>3 DEF TellInv

(* Every step preserves it.                                                *)
LEMMA StepTellInv == ReadInv /\ TellInv /\ [Next]_vars => TellInv'
<1> SUFFICES ASSUME ReadInv, TellInv, [Next]_vars PROVE TellInv'
  OBVIOUS
<1> USE PageAssumption
<1>0. TypeOK /\ \A e \in Extractors : job[e] \in Job /\ RunFacts(e)
  BY DEF ReadInv, TypeOK, TellInv
<1>1. ASSUME UNCHANGED <<job, saved, announced, seedSaved, found, hushed>> PROVE TellInv'
  BY <1>1 DEF TellInv, RunFacts
<1>2. ASSUME NEW e \in Extractors,
             Pick(e) \/ ReadPayload(e) \/ ReadBaseline(e) \/ Mark(e)
      PROVE  TellInv'
  <2>1. /\ job[e].pc # "saving" /\ UNCHANGED <<saved, announced, seedSaved, found, hushed>>
        /\ \A f \in Extractors \ {e} : job'[f] = job[f]
    BY <1>0, <1>2 DEF Pick, ReadPayload, ReadBaseline, Mark, TypeOK, history, finds
  <2>2. job'[e].pc # "saving" /\ (job'[e].pc # "marking" => job'[e].fresh = {})
    <3>1. CASE Pick(e)
      BY <1>0, <3>1 DEF Pick, RunFacts, TypeOK, Job
    <3>2. CASE ReadPayload(e)
      BY <1>0, <3>2 DEF ReadPayload, JobIdle, TypeOK
    <3>3. CASE ReadBaseline(e)
      <4>1. job'[e].pc \in {"marking", "asked"} /\ job'[e].fresh = job[e].fresh
        BY <1>0, <3>3 DEF ReadBaseline, TypeOK, Job
      <4> QED
        BY <1>0, <3>3, <4>1 DEF ReadBaseline, RunFacts
    <3>4. CASE Mark(e)
      BY <1>0, <3>4 DEF Mark, JobIdle, TypeOK
    <3> QED
      BY <1>2, <3>1, <3>2, <3>3, <3>4
  <2>3. RunFacts(e)'
    BY <2>2 DEF RunFacts
  <2> QED
    BY <1>0, <2>1, <2>3, AsideStep
<1>3. ASSUME NEW e \in Extractors, NEW pubs \in SUBSET Papers, Answer(e, pubs) PROVE TellInv'
  <2>1. /\ job[e].pc = "asked" /\ UNCHANGED <<saved, announced, seedSaved, hushed>>
        /\ found' = found \cup pubs
        /\ \A f \in Extractors \ {e} : job'[f] = job[f]
    BY <1>0, <1>3 DEF Answer, TypeOK
  <2>2. /\ job'[e].pc = IF pubs = {} THEN "marking" ELSE "saving"
        /\ job'[e].todo = pubs /\ job'[e].fresh = job[e].fresh
        /\ job'[e].seed = job[e].seed /\ job'[e].base = job[e].base
    BY <1>0, <1>3 DEF Answer, TypeOK, Job
  <2>3. job[e].fresh = {}
    BY <1>0, <2>1 DEF RunFacts
  <2>4. RunFacts(e)'
    BY <2>2, <2>3 DEF RunFacts
  <2> QED
    BY <1>0, <2>1, <2>2, <2>4, AsideStep
<1>4. ASSUME NEW e \in Extractors, NEW p \in Papers, SavePaper(e, p) PROVE TellInv'
  <2>1. /\ job[e].pc = "saving" /\ p \in job[e].todo /\ found' = found /\ announced' = announced
        /\ saved' = saved \cup {p} /\ hushed' = hushed \ ({p} \ saved)
        /\ seedSaved' = IF job[e].seed /\ p \notin saved THEN seedSaved \cup {p} ELSE seedSaved
        /\ \A f \in Extractors \ {e} : job'[f] = job[f]
    BY <1>0, <1>4 DEF SavePaper, TypeOK
  <2>2. /\ job'[e].pc = "saving" /\ job'[e].todo = job[e].todo \ {p}
        /\ job'[e].fresh = IF p \in saved THEN job[e].fresh ELSE job[e].fresh \cup {p}
        /\ job'[e].seed = job[e].seed /\ job'[e].base = job[e].base
    BY <1>0, <1>4 DEF SavePaper, TypeOK, Job
  <2>3. RunFacts(e)'
    <3>1. job[e].seed => job[e].fresh \subseteq seedSaved
      BY <1>0, <2>1 DEF RunFacts
    <3>2. job'[e].seed => job'[e].fresh \subseteq seedSaved'
      BY <2>1, <2>2, <3>1
    <3> QED
      BY <2>2, <3>2 DEF RunFacts
  <2> QED
    BY <1>0, <2>1, <2>2, <2>3, SavingStep
<1>5. ASSUME NEW e \in Extractors, NEW p \in Papers, SaveFails(e, p) PROVE TellInv'
  <2>1. /\ job[e].pc = "saving" /\ hushed' = hushed \cup ({p} \ saved)
        /\ UNCHANGED <<found, announced, saved, seedSaved>>
        /\ \A f \in Extractors \ {e} : job'[f] = job[f]
    BY <1>0, <1>5 DEF SaveFails, TypeOK
  <2>2. /\ job'[e].pc = "saving" /\ job'[e].todo = job[e].todo \ {p}
        /\ job'[e].fresh = job[e].fresh
        /\ job'[e].seed = job[e].seed /\ job'[e].base = job[e].base
    BY <1>0, <1>5 DEF SaveFails, TypeOK, Job
  <2>3. RunFacts(e)'
    <3>1. RunFacts(e)
      BY <1>0
    <3> QED
      BY <2>1, <2>2, <3>1 DEF RunFacts
  <2> QED
    BY <1>0, <2>1, <2>2, <2>3, SavingStep
<1>6. ASSUME NEW e \in Extractors, Emit(e) PROVE TellInv'
  <2>1. /\ job[e].pc = "saving" /\ job[e].todo = {}
        /\ UNCHANGED <<found, saved, seedSaved>>
        /\ \A f \in Extractors \ {e} : job'[f] = job[f]
    BY <1>0, <1>6 DEF Emit, TypeOK
  <2>2. announced \subseteq announced' /\ hushed \subseteq hushed'
    BY <1>6 DEF Emit, Hush
  <2>3. job'[e].pc = "marking"
    BY <1>0, <1>6 DEF Emit, TypeOK, Job
  <2>4. job[e].fresh \subseteq seedSaved' \cup announced' \cup hushed'
    <3>1. CASE job[e].seed
      BY <1>0, <2>1, <3>1 DEF RunFacts
    <3>2. CASE ~job[e].seed /\ ~(Len(snaps) >= 2 /\ LastSnap = job[e].base)
      BY <1>6, <3>2 DEF Emit, Hush
    <3>3. CASE ~job[e].seed /\ Len(snaps) >= 2 /\ LastSnap = job[e].base
      <4>1. announced' = announced \cup (job[e].fresh \ {p \in job[e].fresh : p \in PapersOn[LastSnap]})
        BY <1>6, <3>3 DEF Emit
      <4>2. {p \in job[e].fresh : p \in PapersOn[LastSnap]} \subseteq hushed'
        BY <1>6, <3>3 DEF Emit, Hush
      <4> QED
        BY <4>1, <4>2
    <3> QED
      BY <3>1, <3>2, <3>3
  <2>5. RunFacts(e)'
    BY <2>3 DEF RunFacts
  <2> QED
    BY <1>0, <2>1, <2>2, <2>4, <2>5, SavingStep
<1>7. ASSUME NEW e \in Extractors, JobDies(e) PROVE TellInv'
  <2>1. /\ UNCHANGED <<found, announced, saved, seedSaved>>
        /\ hushed' = hushed \cup (Held(e) \ (saved \ job[e].fresh))
        /\ \A f \in Extractors \ {e} : job'[f] = job[f]
    BY <1>0, <1>7 DEF JobDies, TypeOK
  <2>2. job'[e].pc = "idle" /\ job'[e].fresh = {}
    BY <1>0, <1>7 DEF JobDies, JobIdle, TypeOK
  <2>3. RunFacts(e)'
    BY <2>2 DEF RunFacts
  <2>4. CASE job[e].pc = "saving"
    BY <1>0, <2>1, <2>3, <2>4, SavingStep DEF Held
  <2>5. CASE job[e].pc # "saving"
    BY <1>0, <2>1, <2>3, <2>5, AsideStep DEF Held
  <2> QED
    BY <2>4, <2>5
<1>8. ASSUME Fetcher \/ Deploy \/ FetchArchiveFails \/ FetchDies
             \/ \E g \in Pages : PageChanges(g)
      PROVE  TellInv'
  BY <1>8, <1>1 DEF Fetcher, FetchChanged, FetchTouch, FetchArchive, FetchUpsert, Deploy,
                    FetchArchiveFails, FetchDies, PageChanges, history, finds
<1>9. CASE UNCHANGED vars
  BY <1>9, <1>1 DEF vars, system, history, finds
<1> QED
  BY <1>2, <1>3, <1>4, <1>5, <1>6, <1>7, <1>8, <1>9 DEF Next, Extract, Faulty

(* Every paper that an answer named is in the feed, was found by a seed run, *)
(* is still in a run's hands, or met one of the named accidents, and no    *)
(* paper of a seed run is in the feed: NewsIsTold, for every choice of the *)
(* constants.                                                              *)
THEOREM NewsIsToldCorrect == Spec => []NewsIsTold
<1>1. Init => TellInv
  BY DEF Init, TellInv, RunFacts, JobIdle
<1>2. TellInv /\ SeedIsSilent => NewsIsTold
  <2> SUFFICES ASSUME TellInv, NEW p \in found
               PROVE  \/ p \in seedSaved \cup announced \cup hushed
                      \/ \E e \in Extractors : p \in Held(e)
    BY DEF NewsIsTold
  <2> QED
    BY DEF TellInv, Held
<1> QED
  BY <1>1, <1>2, StepTellInv, ReadInvariant, SeedCorrect, PTL DEF Spec

-------------------------------------------------------------------------------
(* Archiving.                                                              *)

(* A version worth keeping still has its raw HTML, and a fetch about to     *)
(* overwrite it has archived it.                                           *)
KeptInv ==
  /\ \A h \in kept : h = row.hash \/ Archived(h)
  /\ row.hash \in kept => row.body = "raw"
  /\ fetch.pc = "upsert" /\ row.hash \in kept => Archived(row.hash)

HistoryInv == "unarchived" \notin mishaps => KeptInv

(* archive_snapshot leaves the row's version in the archive and takes none   *)
(* out of it.                                                              *)
LEMMA ArchiveGrows ==
  ASSUME TypeOK, FetchArchive
  PROVE  /\ \A h : Archived(h) => Archived(h)'
         /\ row.hash # NoHash /\ row.body = "raw" => Archived(row.hash)'
<1>1. CASE snaps' = snaps /\ (row.hash = NoHash \/ row.body # "raw" \/ Archived(row.hash))
  <2>1. row' = row
    BY DEF FetchArchive
  <2> QED
    BY <1>1, <2>1 DEF Archived
<1>2. CASE snaps' = Append(snaps, row.hash)
  <2>1. Len(snaps) \in Nat /\ Len(snaps') = Len(snaps) + 1
    BY <1>2, LenProperties DEF TypeOK
  <2>2. \A i \in 1..Len(snaps) : i \in 1..Len(snaps') /\ snaps'[i] = snaps[i]
    BY <1>2, <2>1 DEF TypeOK
  <2>3. Len(snaps') \in 1..Len(snaps') /\ snaps'[Len(snaps')] = row.hash
    BY <1>2, <2>1 DEF TypeOK
  <2>4. row' = row
    BY DEF FetchArchive
  <2> QED
    BY <2>2, <2>3, <2>4 DEF Archived
<1> QED
  BY <1>1, <1>2 DEF FetchArchive

(* Every step preserves the invariant of the archive.                       *)
LEMMA StepHistoryInv == ReadInv /\ HistoryInv /\ [Next]_vars => HistoryInv'
<1> SUFFICES ASSUME ReadInv, HistoryInv, [Next]_vars, "unarchived" \notin mishaps'
             PROVE  KeptInv'
  BY DEF HistoryInv
<1>1. mishaps \subseteq mishaps'
  BY DEF Next, Fetcher, Extract, Faulty, FetchChanged, FetchTouch, FetchArchive, FetchUpsert,
         FetchArchiveFails, FetchDies, PageChanges, Deploy, Pick, ReadPayload, ReadBaseline,
         Answer, SavePaper, SaveFails, Emit, Mark, JobDies, Note, vars, system, history
<1>2. KeptInv
  BY <1>1 DEF HistoryInv
<1> USE HashAssumption DEF KeptInv
<1>3. \A h \in kept : h \in Hash
  BY DEF ReadInv, TypeOK
<1>4. ASSUME UNCHANGED <<row, snaps, kept>>, fetch' = fetch \/ fetch'.pc # "upsert"
      PROVE  KeptInv'
  BY <1>2, <1>4 DEF Archived
<1>5. ASSUME FetchTouch PROVE KeptInv'
  <2>1. row'.hash = row.hash /\ row'.body = "raw" /\ fetch'.pc = "idle"
    BY <1>5 DEF FetchTouch, ReadInv, TypeOK
  <2>2. kept' = kept \cup {row.hash} /\ snaps' = snaps
    BY <1>5 DEF FetchTouch
  <2> QED
    BY <1>2, <2>1, <2>2 DEF Archived
<1>6. ASSUME FetchArchive PROVE KeptInv'
  <2>1. /\ \A h : Archived(h) => Archived(h)'
        /\ row.hash # NoHash /\ row.body = "raw" => Archived(row.hash)'
    BY <1>6, ArchiveGrows DEF ReadInv
  <2>2. row' = row /\ kept' = kept
    BY <1>6 DEF FetchArchive, history
  <2>3. \A h : Archived(h)' <=> \E i \in 1..Len(snaps') : snaps'[i] = h
    BY DEF Archived
  <2>4. \A h : Archived(h) <=> \E i \in 1..Len(snaps) : snaps[i] = h
    BY DEF Archived
  <2>5. \A h \in kept' : h = row'.hash \/ Archived(h)'
    BY <1>2, <2>1, <2>2
  <2>6. row'.hash \in kept' => row'.body = "raw" /\ row'.hash # NoHash
    BY <1>2, <1>3, <2>2
  <2> QED
    BY <2>1, <2>2, <2>5, <2>6
<1>7. ASSUME FetchUpsert PROVE KeptInv'
  <2>1. /\ row'.hash = HashOf(fetch.page)
        /\ row'.body = "raw"
        /\ fetch'.pc = "idle"
        /\ fetch.pc = "upsert"
    BY <1>7 DEF FetchUpsert, FetchIdle, ReadInv, TypeOK
  <2>2. kept' = kept \cup {row'.hash} /\ snaps' = snaps
    BY <1>7, <2>1 DEF FetchUpsert
  <2>3. \A h \in kept : Archived(h)
    BY <1>2, <2>1
  <2> QED
    BY <2>1, <2>2, <2>3 DEF Archived
<1>8. ASSUME FetchArchiveFails PROVE FALSE
  BY <1>8 DEF FetchArchiveFails, Note
<1>9. ASSUME NEW e \in Extractors, Mark(e) PROVE KeptInv'
  <2>1. row'.hash = row.hash /\ row'.body = row.body
    BY <1>9 DEF Mark, ReadInv, TypeOK
  <2>2. UNCHANGED <<kept, snaps, fetch>>
    BY <1>9 DEF Mark
  <2> QED
    BY <1>2, <2>1, <2>2 DEF Archived
<1>10. ASSUME NEW e \in Extractors,
              \/ Pick(e) \/ ReadPayload(e) \/ ReadBaseline(e) \/ Emit(e) \/ JobDies(e)
              \/ \E pubs \in SUBSET Papers : Answer(e, pubs)
              \/ \E p \in Papers : SavePaper(e, p) \/ SaveFails(e, p)
       PROVE  KeptInv'
  BY <1>10, <1>4 DEF Pick, ReadPayload, ReadBaseline, Emit, JobDies, Answer, SavePaper,
                     SaveFails, history
<1>11. ASSUME FetchChanged \/ Deploy \/ FetchDies \/ \E g \in Pages : PageChanges(g)
       PROVE  KeptInv'
  BY <1>11, <1>4 DEF FetchChanged, Deploy, FetchDies, FetchIdle, PageChanges, history
<1>12. CASE UNCHANGED vars
  BY <1>12, <1>4 DEF vars, system, history
<1> QED
  BY <1>5, <1>6, <1>7, <1>8, <1>9, <1>10, <1>11, <1>12 DEF Next, Fetcher, Extract, Faulty

(* No version stored with its raw HTML is lost while archiving works.       *)
THEOREM HistoryCorrect == Spec => []HistoryKept
<1>1. Init => HistoryInv
  BY DEF Init, HistoryInv, KeptInv
<1>2. HistoryInv => HistoryKept
  BY DEF HistoryInv, KeptInv, HistoryKept
<1> QED
  BY <1>1, <1>2, StepHistoryInv, ReadInvariant, PTL DEF Spec

-------------------------------------------------------------------------------
(* Completeness of the diff path.                                          *)

OfferedPage(g) == PapersOn[g] \subseteq offered

(* What may become a baseline has been offered, except the version a fetch   *)
(* has archived and not yet replaced; a run that may mark its page has       *)
(* offered it.                                                             *)
OfferedInv ==
  /\ row.marked # NoHash => OfferedPage(row.marked.page)
  /\ \A i \in 1..Len(snaps) :
       OfferedPage(snaps[i].page) \/ (fetch.pc = "upsert" /\ snaps[i] = row.hash)
  /\ \A e \in Extractors :
       /\ job[e].pc = "asked" /\ job[e].base # NoPage => OfferedPage(job[e].base)
       /\ job[e].pc \in {"saving", "marking"} => OfferedPage(job[e].hash.page)

OrderlyInv == mishaps \subseteq {"unarchived"} => OfferedInv

(* Every step preserves the invariant of the diff path.                     *)
LEMMA StepOrderlyInv == ReadInv /\ OrderlyInv /\ [Next]_vars => OrderlyInv'
<1> SUFFICES ASSUME ReadInv, OrderlyInv, [Next]_vars, mishaps' \subseteq {"unarchived"}
             PROVE  OfferedInv'
  BY DEF OrderlyInv
<1>1. mishaps \subseteq mishaps'
  BY DEF Next, Fetcher, Extract, Faulty, FetchChanged, FetchTouch, FetchArchive, FetchUpsert,
         FetchArchiveFails, FetchDies, PageChanges, Deploy, Pick, ReadPayload, ReadBaseline,
         Answer, SavePaper, SaveFails, Emit, Mark, JobDies, Note, vars, system, history
<1>2. OfferedInv
  BY <1>1 DEF OrderlyInv
<1> USE PageAssumption, HashAssumption DEF OfferedInv, OfferedPage
\* Steps of the fetcher that leave the archive and the hashes alone.
<1>3. ASSUME row'.hash = row.hash, row'.marked = row.marked,
             UNCHANGED <<snaps, job, offered>>,
             fetch.pc = "upsert" => fetch'.pc = "upsert"
      PROVE  OfferedInv'
  BY <1>2, <1>3
\* Steps of one run that leave the tables alone.
<1>4. ASSUME NEW e \in Extractors, UNCHANGED <<row, snaps, fetch>>, offered \subseteq offered',
             \A f \in Extractors : f # e => job'[f] = job[f],
             job'[e].pc = "asked" /\ job'[e].base # NoPage
               => PapersOn[job'[e].base] \subseteq offered',
             job'[e].pc \in {"saving", "marking"} => PapersOn[job'[e].hash.page] \subseteq offered'
      PROVE  OfferedInv'
  BY <1>2, <1>4
<1>5. ASSUME FetchArchive PROVE OfferedInv'
  <2>1. fetch'.pc = "upsert" /\ fetch.pc # "upsert"
    BY <1>5 DEF FetchArchive, ReadInv, TypeOK
  <2>2. UNCHANGED <<row, job, offered>>
    BY <1>5 DEF FetchArchive, history
  <2>3. ASSUME NEW i \in 1..Len(snaps')
        PROVE  snaps'[i] = row.hash \/ OfferedPage(snaps'[i].page)
    <3>1. CASE snaps' = snaps
      BY <1>2, <2>1, <2>3, <3>1
    <3>2. CASE snaps' = Append(snaps, row.hash)
      <4>1. Len(snaps) \in Nat /\ Len(snaps') = Len(snaps) + 1
        BY <3>2, LenProperties DEF ReadInv, TypeOK
      <4>2. CASE i \in 1..Len(snaps)
        <5>1. snaps'[i] = snaps[i]
          BY <3>2, <4>2 DEF ReadInv, TypeOK
        <5> QED
          BY <1>2, <2>1, <4>2, <5>1
      <4>3. CASE i = Len(snaps) + 1
        BY <3>2, <4>3 DEF ReadInv, TypeOK
      <4> QED
        BY <4>1, <4>2, <4>3
    <3> QED
      BY <1>5, <3>1, <3>2 DEF FetchArchive
  <2> QED
    BY <1>2, <2>1, <2>2, <2>3
<1>6. ASSUME FetchUpsert PROVE OfferedInv'
  <2>1. row'.marked = row.marked /\ UNCHANGED <<snaps, job, offered>>
    BY <1>6 DEF FetchUpsert, ReadInv, TypeOK
  <2>2. row.hash # NoHash => Marked
    BY <1>6 DEF FetchUpsert, Note
  <2>3. \A i \in 1..Len(snaps) : snaps[i] \in Hash
    BY LenProperties DEF ReadInv, TypeOK
  <2>4. \A i \in 1..Len(snaps) : OfferedPage(snaps[i].page)
    BY <1>2, <2>2, <2>3 DEF Marked
  <2> QED
    BY <1>2, <2>1, <2>4
<1>7. ASSUME FetchDies PROVE OfferedInv'
  <2>1. UNCHANGED <<row, snaps, job, offered>>
    BY <1>7 DEF FetchDies
  <2>2. fetch.pc = "upsert" /\ row.hash # NoHash => Marked
    BY <1>7 DEF FetchDies, Note
  <2>3. \A i \in 1..Len(snaps) : snaps[i] \in Hash
    BY LenProperties DEF ReadInv, TypeOK
  <2>4. \A i \in 1..Len(snaps) : OfferedPage(snaps[i].page)
    BY <1>2, <2>2, <2>3 DEF Marked
  <2> QED
    BY <1>2, <2>1, <2>4
<1>8. ASSUME NEW e \in Extractors, ReadPayload(e) PROVE OfferedInv'
  <2>1. \A f \in Extractors : f # e => job'[f] = job[f]
    BY <1>8 DEF ReadPayload, ReadInv, TypeOK
  <2>2. /\ job'[e].hash = row.hash
        /\ job'[e].pc = IF row.hash.page \in Unreadable THEN "marking" ELSE "read"
    BY <1>8 DEF ReadPayload, JobIdle, ReadInv, TypeOK
  <2>3. UNCHANGED <<row, snaps, fetch, offered>>
    BY <1>8 DEF ReadPayload
  <2>4. row.hash.page \in Unreadable => PapersOn[row.hash.page] = {}
    OBVIOUS
  <2> QED
    BY <1>4, <2>1, <2>2, <2>3, <2>4
<1>9. ASSUME NEW e \in Extractors, ReadBaseline(e) PROVE OfferedInv'
  <2> DEFINE base == IF job[e].seed \/ snaps = <<>> THEN NoPage ELSE LastSnap
  <2>1. job' = [job EXCEPT ![e].base = base,
                           ![e].pc = IF base = job[e].hash.page THEN "marking" ELSE "asked"]
    BY <1>9 DEF ReadBaseline
  <2>2. fetch.pc # "upsert" /\ UNCHANGED <<row, snaps, fetch, offered>>
    BY <1>9 DEF ReadBaseline, Note
  <2>3. base # NoPage => OfferedPage(base)
    BY <1>2, <2>2, LastSnapType DEF LastSnap, ReadInv, TypeOK
  <2>4. job[e].hash \in Hash
    BY <1>9 DEF ReadBaseline, ReadInv, Started, TypeOK
  <2>5. job[e].hash.page # NoPage
    BY <2>4 DEF Hash
  <2> HIDE DEF base
  <2>6. \A f \in Extractors : f # e => job'[f] = job[f]
    BY <2>1 DEF ReadInv, TypeOK
  <2>7. /\ job'[e].hash = job[e].hash
        /\ job'[e].base = base
        /\ job'[e].pc = IF base = job[e].hash.page THEN "marking" ELSE "asked"
    BY <2>1 DEF ReadInv, TypeOK, Job
  <2> QED
    BY <1>4, <2>2, <2>3, <2>5, <2>6, <2>7
<1>10. ASSUME NEW e \in Extractors, NEW pubs \in SUBSET Papers, Answer(e, pubs) PROVE OfferedInv'
  <2>1. \A f \in Extractors : f # e => job'[f] = job[f]
    BY <1>10 DEF Answer, ReadInv, TypeOK
  <2>2. job'[e].hash = job[e].hash /\ job[e].pc = "asked" /\ job'[e].pc # "asked"
    BY <1>10 DEF Answer, ReadInv, TypeOK, Job
  <2>3. UNCHANGED <<row, snaps, fetch>> /\ offered' = offered \cup Offer(e)
    BY <1>10 DEF Answer
  <2>4. PapersOn[job[e].hash.page] \subseteq offered'
    BY <1>2, <2>2, <2>3 DEF Offer
  <2> QED
    BY <1>4, <2>1, <2>2, <2>3, <2>4
<1>11. ASSUME NEW e \in Extractors, Mark(e) PROVE OfferedInv'
  <2>1. \A f \in Extractors : f # e => job'[f] = job[f]
    BY <1>11 DEF Mark, ReadInv, TypeOK
  <2>2. job'[e].pc = "idle" /\ job[e].pc = "marking"
    BY <1>11 DEF Mark, JobIdle, ReadInv, TypeOK
  <2>3. row'.hash = row.hash /\ row'.marked = job[e].hash /\ UNCHANGED <<snaps, fetch, offered>>
    BY <1>11 DEF Mark, ReadInv, TypeOK
  <2> QED
    BY <1>2, <2>1, <2>2, <2>3
\* The remaining steps of a run keep its page and do not reach "asked" or "marking".
<1>12. ASSUME NEW e \in Extractors,
              \/ Pick(e) \/ Emit(e) \/ JobDies(e)
              \/ \E p \in Papers : SavePaper(e, p) \/ SaveFails(e, p)
       PROVE  OfferedInv'
  <2>1. UNCHANGED <<row, snaps, fetch, offered>>
    BY <1>12 DEF Pick, Emit, JobDies, SavePaper, SaveFails, history
  <2>2. \A f \in Extractors : f # e => job'[f] = job[f]
    BY <1>12 DEF Pick, Emit, JobDies, SavePaper, SaveFails, ReadInv, TypeOK
  <2> DEFINE Same == /\ job[e].pc = "saving" /\ job'[e].hash = job[e].hash
                     /\ job'[e].pc \in {"saving", "marking"}
  <2>3. job'[e].pc \in {"picked", "idle"} \/ Same
    <3>1. CASE Pick(e) \/ JobDies(e)
      BY <3>1 DEF Pick, JobDies, JobIdle, ReadInv, TypeOK, Job
    <3>2. CASE Emit(e)
      BY <3>2 DEF Emit, ReadInv, TypeOK, Job
    <3>3. ASSUME NEW p \in Papers, SavePaper(e, p) PROVE Same
      BY <3>3 DEF SavePaper, ReadInv, TypeOK, Job
    <3>4. ASSUME NEW p \in Papers, SaveFails(e, p) PROVE Same
      BY <3>4 DEF SaveFails, ReadInv, TypeOK, Job
    <3> QED
      BY <1>12, <3>1, <3>2, <3>3, <3>4
  <2>4. /\ job'[e].pc # "asked"
        /\ job'[e].pc \in {"saving", "marking"} => PapersOn[job'[e].hash.page] \subseteq offered'
    BY <1>2, <2>1, <2>3
  <2> QED
    BY <1>4, <2>1, <2>2, <2>4
<1>13. ASSUME \/ FetchChanged \/ FetchTouch \/ FetchArchiveFails \/ Deploy
              \/ \E g \in Pages : PageChanges(g)
       PROVE  OfferedInv'
  BY <1>13, <1>3 DEF FetchChanged, FetchTouch, FetchArchiveFails, Deploy, PageChanges,
                     history, ReadInv, TypeOK
<1>14. CASE UNCHANGED vars
  BY <1>14, <1>3 DEF vars, system, history
<1> QED
  BY <1>5, <1>6, <1>7, <1>8, <1>9, <1>10, <1>11, <1>12, <1>13, <1>14
     DEF Next, Fetcher, Extract, Faulty

(* A page marked extracted has had all its papers offered to the LLM, unless  *)
(* one of the named disorders has happened.                                *)
THEOREM OrderlyCorrect == Spec => []OrderlyMissesNothing
<1>1. Init => OrderlyInv
  BY DEF Init, OrderlyInv, OfferedInv, OfferedPage, JobIdle, HashOf
<1>2. OrderlyInv => OrderlyMissesNothing
  BY DEF OrderlyInv, OfferedInv, OfferedPage, OrderlyMissesNothing, NothingMissed, Marked
<1> QED
  BY <1>1, <1>2, StepOrderlyInv, ReadInvariant, PTL DEF Spec

-------------------------------------------------------------------------------
(* The hash columns are a queue.                                           *)

(* Every step on a page is a step of the queue, or leaves the queue alone.  *)
THEOREM QueueRefined == Spec => ImplementsQueue
<1>1. Init => Queue!Init
  BY HashAssumption, InitTypeOK DEF Init, Queue!Init, TypeOK
<1>2. ReadInv /\ [Next]_vars => [Queue!Next]_Queue!vars
  <2> SUFFICES ASSUME ReadInv, [Next]_vars PROVE [Queue!Next]_Queue!vars
    OBVIOUS
  <2> USE DEF Queue!Next, Queue!vars
  <2>1. ASSUME row'.hash = row.hash, row'.marked = row.marked, read' = read
        PROVE  UNCHANGED Queue!vars
    BY <2>1
  <2>2. ASSUME FetchUpsert PROVE Queue!Next
    <3>1. HashOf(fetch.page) \in Hash
      BY <2>2, HashOfType DEF FetchUpsert, ReadInv, Started, TypeOK
    <3>2. Queue!Store(HashOf(fetch.page))
      BY <2>2 DEF FetchUpsert, Queue!Store, ReadInv, TypeOK
    <3> QED
      BY <3>1, <3>2
  <2>3. ASSUME NEW e \in Extractors, ReadPayload(e) PROVE Queue!Next
    <3>1. Queue!Look
      BY <2>3 DEF ReadPayload, Queue!Look, ReadInv, Started
    <3> QED
      BY <3>1
  <2>4. ASSUME NEW e \in Extractors, Mark(e) PROVE Queue!Next
    <3>1. job[e].hash \in read /\ job[e].hash \in Hash
      BY <2>4 DEF Mark, ReadInv, Started, TypeOK
    <3>2. Queue!Acknowledge(job[e].hash)
      BY <2>4, <3>1 DEF Mark, Queue!Acknowledge, ReadInv, TypeOK
    <3> QED
      BY <3>1, <3>2
  <2>5. ASSUME NEW e \in Extractors,
               \/ Pick(e) \/ ReadBaseline(e) \/ Emit(e) \/ JobDies(e)
               \/ \E pubs \in SUBSET Papers : Answer(e, pubs)
               \/ \E p \in Papers : SavePaper(e, p) \/ SaveFails(e, p)
        PROVE  UNCHANGED Queue!vars
    BY <2>5, <2>1 DEF Pick, ReadBaseline, Emit, JobDies, Answer, SavePaper, SaveFails, history
  <2>6. ASSUME \/ FetchChanged \/ FetchTouch \/ FetchArchive \/ FetchArchiveFails
               \/ FetchDies \/ Deploy \/ \E g \in Pages : PageChanges(g)
        PROVE  UNCHANGED Queue!vars
    BY <2>6, <2>1 DEF FetchChanged, FetchTouch, FetchArchive, FetchArchiveFails, FetchDies,
                      Deploy, PageChanges, history, ReadInv, TypeOK
  <2>7. CASE UNCHANGED vars
    BY <2>7, <2>1 DEF vars, system, history
  <2> QED
    BY <2>2, <2>3, <2>4, <2>5, <2>6, <2>7 DEF Next, Fetcher, Extract, Faulty
<1> QED
  BY <1>1, <1>2, ReadInvariant, PTL DEF Spec, ImplementsQueue, Queue!Spec
===============================================================================
