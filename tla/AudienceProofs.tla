--------------------------- MODULE AudienceProofs ---------------------------
(***************************************************************************)
(* Theorems about Audience: any number of researchers, names, papers and   *)
(* users, and any processes that save and merge at the same time.          *)
(***************************************************************************)
EXTENDS Audience, FiniteSetTheorems, WellFoundedInduction, TLAPS

---------------------------------------------------------------------------
(* Numbers. *)

LEMMA LeastPosition ==
  ASSUME NEW S \in SUBSET Nat, S # {}
  PROVE  \E x \in S : \A y \in S : x <= y
<1>1. PICK x \in S : \A y \in S : ~(<<y, x>> \in OpToRel(<, Nat))
  BY WFMin, NatLessThanWellFounded
<1>2. \A y \in S : ~(y < x)
  BY <1>1 DEF OpToRel
<1> QED
  BY <1>2

LEMMA FewNewIds ==
  ASSUME AudienceAssumption, nextId \in 1..MaxId + 1,
         NEW new \in SUBSET Ids, \A r \in new : r >= nextId
  PROVE  nextId + Cardinality(new) \in 1..MaxId + 1
<1> MaxId \in Nat /\ nextId \in Nat
  BY DEF AudienceAssumption
<1>1. new \subseteq nextId..MaxId
  BY DEF Ids
<1>2. /\ IsFiniteSet(nextId..MaxId)
      /\ Cardinality(nextId..MaxId) = IF nextId > MaxId THEN 0 ELSE MaxId - nextId + 1
  <2>1. nextId \in Int /\ MaxId \in Int
    OBVIOUS
  <2> QED
    BY <2>1, FS_Interval, Zenon
<1>3. /\ IsFiniteSet(new) /\ Cardinality(new) <= Cardinality(nextId..MaxId)
  BY <1>1, <1>2, FS_Subset
<1>4. Cardinality(new) \in Nat
  BY <1>3, FS_CardinalityType
<1> QED
  BY <1>2, <1>3, <1>4

---------------------------------------------------------------------------
(* What the types need beside themselves. *)

Rest == [pc : {"off", "next", "send", "record"}, todo : SUBSET [user : Users, ids : SUBSET Ids],
         user : Users \cup {Nobody}, ids : SUBSET Ids, events : SUBSET Papers]

HandInv ==
  /\ \A proc \in Processes : job[proc].pc \in {"saving", "saved"} => job[proc].paper \in Papers
  /\ digest.pc \in {"send", "record"} => digest.user \in Users

DataInv == TypeOK /\ HandInv

LEMMA JobParts ==
  ASSUME AudienceAssumption, DataInv, NEW proc \in Processes
  PROVE  /\ job[proc] \in Job /\ Idle \in Job
         /\ job[proc].pc \in {"saving", "saved"} =>
              /\ job[proc].paper \in Papers /\ Byline[job[proc].paper] \in Seq(Names)
<1>1. Unseen \in [Ids -> 0..MaxName] /\ 0 \in 0..MaxId
  BY DEF Unseen, AudienceAssumption
<1>2. Idle \in Job
  BY <1>1 DEF Idle, Job
<1> QED
  BY <1>2 DEF DataInv, HandInv, TypeOK, AudienceAssumption

(* A process goes on with something else, and the directory stays.           *)
LEMMA JobGoes ==
  ASSUME AudienceAssumption, DataInv, NEW proc \in Processes, NEW next \in Job,
         job' = [job EXCEPT ![proc] = next],
         next.pc \in {"saving", "saved"} => next.paper \in Papers
  PROVE  /\ job' \in [Processes -> Job]
         /\ \A other \in Processes : job'[other].pc \in {"saving", "saved"} => job'[other].paper \in Papers
  BY DEF DataInv, HandInv, TypeOK

(* What a byline resolves to, whether or not it is committed.                *)
LEMMA ResolvedTypes ==
  ASSUME AudienceAssumption, DataInv, NEW proc \in Processes, NEW names \in Seq(Names),
         NEW by \in [DOMAIN names -> 0..MaxId], Remember(proc, names, by)
  PROVE  /\ cache' \in [Processes -> [Names -> 0..MaxId]]
         /\ nextId + Cardinality(Inserted(by)) \in 1..MaxId + 1
<1>1. nextId + Cardinality(Inserted(by)) \in 1..MaxId + 1
  BY FewNewIds DEF DataInv, TypeOK, Inserted
<1>2. PICK entry : /\ cache' = [cache EXCEPT ![proc] = entry]
                   /\ entry = [n \in Names |->
                        LET at == {i \in DOMAIN names : names[i] = n /\ Earlier(names, by, i) = {}}
                        IN IF at = {} THEN cache[proc][n] ELSE by[CHOOSE i \in at : TRUE]]
  BY DEF Remember, DataInv, TypeOK
<1>3. entry \in [Names -> 0..MaxId]
  <2>1. ASSUME NEW n \in Names
        PROVE  entry[n] \in 0..MaxId
    <3> DEFINE at == {i \in DOMAIN names : names[i] = n /\ Earlier(names, by, i) = {}}
    <3>1. entry[n] = IF at = {} THEN cache[proc][n] ELSE by[CHOOSE i \in at : TRUE]
      BY <1>2
    <3>2. at # {} => (CHOOSE i \in at : TRUE) \in DOMAIN names
      OBVIOUS
    <3>3. cache[proc][n] \in 0..MaxId
      BY DEF DataInv, TypeOK
    <3> HIDE DEF at
    <3> QED
      BY <3>1, <3>2, <3>3
  <2> QED
    BY <1>2, <2>1
<1> QED
  BY <1>1, <1>2, <1>3 DEF DataInv, TypeOK

(* The rows of researchers that saving a paper leaves: nobody's row goes, no *)
(* credit goes, and whoever is credited has a row.                           *)
LEMMA SaveRows ==
  ASSUME AudienceAssumption, DataInv, NEW proc \in Processes, SavePaper(proc)
  PROVE  /\ name' \in [Ids -> 0..MaxName] /\ ids \subseteq ids'
         /\ authorship \subseteq authorship' /\ authorship' \subseteq ids' \X Papers
         /\ nextId' \in 1..MaxId + 1 /\ cache' \in [Processes -> [Names -> 0..MaxId]]
<1> DEFINE p == job[proc].paper
           names == Byline[p]
<1>0. p \in Papers /\ names \in Seq(Names)
  BY JobParts DEF SavePaper
<1>1. PICK by \in [DOMAIN names -> 0..MaxId] :
        /\ name' = [r \in Ids |->
             IF r \in Inserted(by) THEN NameOf(names, by, r)
             ELSE IF r \in ids /\ LongerNames(proc, names, by, r) # {}
                  THEN names[CHOOSE i \in LongerNames(proc, names, by, r) : TRUE]
             ELSE name[r]]
        /\ nextId' = nextId + Cardinality(Inserted(by))
        /\ \E owner : authorship' = authorship \cup
             ((({by[i] : i \in DOMAIN by} \cup owner) \cap (ids \cup Inserted(by))) \X {p})
        /\ Remember(proc, names, by)
  BY DEF SavePaper
<1> HIDE DEF names, p
<1>2. \A i \in DOMAIN by : names[i] \in Names
  BY <1>0, <1>1
<1>3. Names = 1..MaxName /\ MaxName \in Nat
  BY DEF Names, AudienceAssumption
<1>4. ASSUME NEW r \in Inserted(by)
      PROVE  name'[r] \in Names
  <2>1. DOMAIN by \subseteq Nat /\ r \in Ids
    BY <1>0 DEF Inserted
  <2>2. PICK i \in {j \in DOMAIN by : by[j] = r} : \A k \in {j \in DOMAIN by : by[j] = r} : i <= k
    BY <2>1, LeastPosition DEF Inserted
  <2>3. \A k \in 1..i - 1 : k \in DOMAIN by
    BY <1>0, <2>2
  <2>4. \A k \in 1..i - 1 : by[k] # r
    BY <2>1, <2>2, <2>3
  <2>5. NameOf(names, by, r) \in Names
    BY <1>2, <2>2, <2>4 DEF NameOf
  <2> QED
    BY <1>1, <2>1, <2>5
<1>5. ASSUME NEW r \in ids
      PROVE  name'[r] \in Names
  <2>1. r \in Ids /\ name[r] \in Names
    BY <1>3 DEF ids, DataInv, TypeOK
  <2>2. LongerNames(proc, names, by, r) # {} =>
          names[CHOOSE i \in LongerNames(proc, names, by, r) : TRUE] \in Names
    <3>1. LongerNames(proc, names, by, r) \subseteq DOMAIN by
      BY DEF LongerNames
    <3> QED
      BY <1>2, <3>1
  <2> QED
    BY <1>1, <1>4, <2>1, <2>2
<1>6. ids \cup Inserted(by) \subseteq ids' /\ ids' \subseteq Ids
  BY <1>3, <1>4, <1>5 DEF ids, Inserted
<1>7. name' \in [Ids -> 0..MaxName]
  <2>1. ASSUME NEW r \in Ids
        PROVE  name'[r] \in 0..MaxName
    <3>1. CASE r \in Inserted(by) \/ r \in ids
      BY <1>3, <1>4, <1>5, <3>1
    <3>2. CASE ~(r \in Inserted(by) \/ r \in ids)
      BY <1>1, <3>2 DEF DataInv, TypeOK
    <3> QED
      BY <3>1, <3>2
  <2> QED
    BY <1>1, <2>1
<1>8. authorship \subseteq authorship' /\ authorship' \subseteq ids' \X Papers
  BY <1>0, <1>1, <1>6 DEF DataInv, TypeOK
<1> QED
  BY <1>0, <1>1, <1>6, <1>7, <1>8, ResolvedTypes

(* What merging two rows leaves: the longer name, and no row of the other.   *)
LEMMA MergeRows ==
  ASSUME AudienceAssumption, DataInv, NEW kept, NEW gone, MergeResearchers(kept, gone)
  PROVE  /\ name' \in [Ids -> 0..MaxName] /\ kept \in ids' /\ ids' = ids \ {gone}
         /\ authorship' \subseteq ids' \X Papers /\ sites' \subseteq ids' \X Pages
         /\ follows' \subseteq Users \X ids'
         /\ \A r \in ids, p \in Papers : <<r, p>> \in authorship =>
              <<IF r = gone THEN kept ELSE r, p>> \in authorship'
         /\ \A r \in ids, u \in Users : <<u, r>> \in follows =>
              <<u, IF r = gone THEN kept ELSE r>> \in follows'
<1> DEFINE here(r) == IF r = gone THEN kept ELSE r
<1>1. /\ kept # gone /\ {kept, gone} \subseteq ids
      /\ name' = [name EXCEPT ![kept] = Longer(@, name[gone]), ![gone] = 0]
      /\ authorship' = {<<here(a[1]), a[2]>> : a \in authorship}
      /\ follows' = {<<f[1], here(f[2])>> : f \in follows}
      /\ sites' = {s \in sites : s[1] # gone}
  BY DEF MergeResearchers
<1>2. \A r \in ids : r \in Ids /\ name[r] \in 1..MaxName
  BY DEF ids, DataInv, TypeOK, AudienceAssumption
<1>3. Longer(name[kept], name[gone]) \in 1..MaxName
  BY <1>1, <1>2 DEF Longer
<1>4. name' \in [Ids -> 0..MaxName]
  <2>1. 0 \in 0..MaxName /\ Longer(name[kept], name[gone]) \in 0..MaxName
    BY <1>3 DEF AudienceAssumption
  <2> QED
    BY <1>1, <2>1 DEF DataInv, TypeOK
<1>5. \A r \in Ids : name'[r] = IF r = gone THEN 0 ELSE IF r = kept THEN Longer(name[kept], name[gone]) ELSE name[r]
  BY <1>1, <1>2 DEF DataInv, TypeOK
<1>6. ids' = ids \ {gone} /\ kept \in ids'
  <2>1. kept \in Ids /\ gone \in Ids
    BY <1>1, <1>2
  <2>2. /\ Longer(name[kept], name[gone]) # 0
        /\ name[kept] # 0 /\ name[gone] # 0
    BY <1>1, <1>2, <1>3 DEF AudienceAssumption
  <2>3. \A r \in Ids : (name'[r] # 0) <=> (name[r] # 0 /\ r # gone)
    BY <1>1, <1>5, <2>2
  <2> QED
    BY <1>1, <2>1, <2>3 DEF ids
<1>7. authorship' \subseteq ids' \X Papers
  BY <1>1, <1>6 DEF DataInv, TypeOK
<1>8. follows' \subseteq Users \X ids'
  BY <1>1, <1>6 DEF DataInv, TypeOK
<1>9. sites' \subseteq ids' \X Pages
  BY <1>1, <1>6 DEF DataInv, TypeOK
<1>10. \A r \in ids, p \in Papers : <<r, p>> \in authorship => <<here(r), p>> \in authorship'
  <2> SUFFICES ASSUME NEW r \in ids, NEW p \in Papers, <<r, p>> \in authorship
               PROVE  <<here(r), p>> \in authorship'
    OBVIOUS
  <2> DEFINE a == <<r, p>>
  <2>1. a[1] = r /\ a[2] = p /\ a \in authorship
    OBVIOUS
  <2> HIDE DEF a
  <2> QED
    BY <1>1, <2>1
<1>11. \A r \in ids, u \in Users : <<u, r>> \in follows => <<u, here(r)>> \in follows'
  BY <1>1
<1> QED
  BY <1>4, <1>6, <1>7, <1>8, <1>9, <1>10, <1>11
---------------------------------------------------------------------------
(* The types, one action at a time. *)

LEMMA Counters ==
  ASSUME AudienceAssumption, DataInv
  PROVE  /\ Acts \/ UNCHANGED acts => acts' \in 0..MaxActs
         /\ Fault \/ UNCHANGED faults => faults' \in 0..MaxFaults
<1>1. MaxActs \in Nat /\ MaxFaults \in Nat /\ acts \in 0..MaxActs /\ faults \in 0..MaxFaults
  BY DEF DataInv, TypeOK, AudienceAssumption
<1> QED
  BY <1>1 DEF Acts, Fault

(* What the directory does not touch, when the members and mails rest.       *)
LEMMA DirectoryTypes ==
  ASSUME AudienceAssumption, DataInv, NEW proc \in Processes,
         \/ \E p \in Papers : BeginSave(proc, p)
         \/ SavePaper(proc) \/ SaveFails(proc) \/ Restart(proc) \/ PickPair(proc) \/ MergeAuthors(proc)
  PROVE  DataInv'
<1>0. UNCHANGED mailing /\ UNCHANGED <<prefs, asking>> /\ acts' \in 0..MaxActs /\ faults' \in 0..MaxFaults
  <2>1. UNCHANGED mailing /\ UNCHANGED <<prefs, asking>>
    BY DEF BeginSave, SavePaper, SaveFails, Restart, PickPair, MergeAuthors, members
  <2>2. (Acts \/ UNCHANGED acts) /\ (Fault \/ UNCHANGED faults)
    BY DEF BeginSave, SavePaper, SaveFails, Restart, PickPair, MergeAuthors, Acts
  <2> QED
    BY <2>1, <2>2, Counters
<1>1. /\ Idle \in Job /\ Idle.pc = "idle" /\ job[proc] \in Job
      /\ job[proc].pc \in {"saving", "saved"} => job[proc].paper \in Papers
  BY JobParts DEF Idle
<1>2. ASSUME NEW p \in Papers, BeginSave(proc, p)
      PROVE  DataInv'
  <2> DEFINE next == [Idle EXCEPT !.pc = "saving", !.paper = p, !.view = name]
  <2>1. next \in Job /\ next.pc = "saving" /\ next.paper = p
    BY <1>1 DEF Idle, Job, DataInv, TypeOK
  <2>2. job' = [job EXCEPT ![proc] = next] /\ UNCHANGED <<name, nextId, authorship, sites, cache, news, follows>>
    BY <1>2 DEF BeginSave, members
  <2> HIDE DEF next
  <2> QED
    BY <1>0, <2>1, <2>2, JobGoes DEF DataInv, TypeOK, HandInv, ids, mailing
<1>3. CASE SavePaper(proc)
  <2> DEFINE next == [Idle EXCEPT !.pc = "saved", !.paper = job[proc].paper]
  <2>1. job[proc].paper \in Papers
    BY <1>1, <1>3 DEF SavePaper
  <2>2. next \in Job /\ next.paper \in Papers
    BY <1>1, <2>1 DEF Idle, Job
  <2>3. job' = [job EXCEPT ![proc] = next] /\ news' = news \cup {job[proc].paper}
        /\ UNCHANGED <<sites, follows>>
    BY <1>3 DEF SavePaper, members
  <2> HIDE DEF next
  <2>4. /\ job' \in [Processes -> Job]
        /\ \A other \in Processes : job'[other].pc \in {"saving", "saved"} => job'[other].paper \in Papers
    BY <2>2, <2>3, JobGoes
  <2>5. news' \subseteq Papers
    BY <2>1, <2>3 DEF DataInv, TypeOK
  <2>6. ids \subseteq ids'
    BY <1>3, SaveRows
  <2>7. sites' \subseteq ids' \X Pages /\ follows' \subseteq Users \X ids'
    BY <2>3, <2>6 DEF DataInv, TypeOK
  <2>8. /\ name' \in [Ids -> 0..MaxName] /\ authorship' \subseteq ids' \X Papers
        /\ nextId' \in 1..MaxId + 1 /\ cache' \in [Processes -> [Names -> 0..MaxId]]
    BY <1>3, SaveRows
  <2>9. HandInv'
    BY <1>0, <2>4 DEF HandInv, mailing, DataInv
  <2>10. TypeOK'
    BY <1>0, <2>4, <2>5, <2>7, <2>8 DEF DataInv, TypeOK, mailing
  <2> QED
    BY <2>9, <2>10 DEF DataInv
<1>4. CASE SaveFails(proc)
  <2> DEFINE names == Byline[job[proc].paper]
  <2>1. names \in Seq(Names)
    BY <1>4, JobParts DEF SaveFails
  <2>2. PICK by \in [DOMAIN names -> 0..MaxId] :
          nextId' = nextId + Cardinality(Inserted(by)) /\ Remember(proc, names, by)
    BY <1>4 DEF SaveFails
  <2>3. cache' \in [Processes -> [Names -> 0..MaxId]] /\ nextId' \in 1..MaxId + 1
    BY <2>1, <2>2, ResolvedTypes
  <2>4. job' = [job EXCEPT ![proc] = Idle] /\ UNCHANGED <<name, authorship, sites, news, follows>>
    BY <1>4 DEF SaveFails, members
  <2> QED
    BY <1>0, <1>1, <2>3, <2>4, JobGoes DEF DataInv, TypeOK, HandInv, ids, mailing
<1>5. CASE Restart(proc)
  <2>1. /\ job' = [job EXCEPT ![proc] = Idle] /\ UNCHANGED <<name, nextId, authorship, sites, news, follows>>
        /\ cache' = [cache EXCEPT ![proc] = [n \in Names |-> 0]]
    BY <1>5 DEF Restart, members
  <2>2. cache' \in [Processes -> [Names -> 0..MaxId]]
    <3>1. 0 \in 0..MaxId
      BY DEF AudienceAssumption
    <3> QED
      BY <2>1, <3>1 DEF DataInv, TypeOK
  <2> QED
    BY <1>0, <1>1, <2>1, <2>2, JobGoes DEF DataInv, TypeOK, HandInv, ids, mailing
<1>6. CASE PickPair(proc)
  <2>1. PICK next \in Job : next.pc \notin {"saving", "saved"} /\ job' = [job EXCEPT ![proc] = next]
    <3>1. CASE job' = [job EXCEPT ![proc] = Idle]
      BY <1>1, <3>1
    <3>2. ASSUME NEW pair \in ids \X ids,
                 job' = [job EXCEPT ![proc] = [Idle EXCEPT !.pc = "merging", !.kept = pair[1], !.gone = pair[2]]]
          PROVE  \E next \in Job : next.pc \notin {"saving", "saved"} /\ job' = [job EXCEPT ![proc] = next]
      <4> DEFINE next == [Idle EXCEPT !.pc = "merging", !.kept = pair[1], !.gone = pair[2]]
      <4>1. pair[1] \in 0..MaxId /\ pair[2] \in 0..MaxId
        BY DEF ids, Ids, AudienceAssumption
      <4>2. next \in Job /\ next.pc = "merging"
        BY <1>1, <4>1 DEF Idle, Job
      <4> QED
        BY <3>2, <4>2
    <3> QED
      BY <1>6, <3>1, <3>2 DEF PickPair
  <2>2. UNCHANGED <<name, nextId, authorship, sites, cache, news, follows>>
    BY <1>6 DEF PickPair, members
  <2> QED
    BY <1>0, <2>1, <2>2, JobGoes DEF DataInv, TypeOK, HandInv, ids, mailing
<1>7. CASE MergeAuthors(proc)
  <2>1. job' = [job EXCEPT ![proc] = Idle] /\ UNCHANGED <<nextId, cache, news>>
    BY <1>7 DEF MergeAuthors
  <2>2. /\ name' \in [Ids -> 0..MaxName] /\ authorship' \subseteq ids' \X Papers
        /\ sites' \subseteq ids' \X Pages /\ follows' \subseteq Users \X ids'
    <3>1. CASE MergeResearchers(job[proc].kept, job[proc].gone)
      BY <3>1, MergeRows
    <3>2. CASE UNCHANGED <<name, authorship, sites, follows>>
      BY <3>2 DEF DataInv, TypeOK, ids
    <3> QED
      BY <1>7, <3>1, <3>2 DEF MergeAuthors
  <2> QED
    BY <1>0, <1>1, <2>1, <2>2, JobGoes DEF DataInv, TypeOK, HandInv, mailing
<1> QED
  BY <1>2, <1>3, <1>4, <1>5, <1>6, <1>7

LEMMA ScriptTypes ==
  ASSUME AudienceAssumption, DataInv,
         \/ \E r, q \in Ids : MergeInitials(r, q)
         \/ \E n \in Names, page \in Pages : ImportRow(n, page)
  PROVE  DataInv'
<1>0. acts' \in 0..MaxActs /\ UNCHANGED <<cache, job, news, prefs, asking, mailing, faults>>
  BY DEF MergeInitials, ImportRow, Acts, members, DataInv, TypeOK, AudienceAssumption
<1>1. ASSUME NEW r \in Ids, NEW q \in Ids, MergeInitials(r, q)
      PROVE  DataInv'
  <2>1. UNCHANGED nextId /\ MergeResearchers(r, q)
    BY <1>1 DEF MergeInitials
  <2> QED
    BY <1>0, <2>1, MergeRows DEF DataInv, TypeOK, HandInv, mailing
<1>2. ASSUME NEW n \in Names, NEW page \in Pages, ImportRow(n, page)
      PROVE  DataInv'
  <2>1. PICK r \in Researcher(name, n, {}, nextId) \cap Ids :
          /\ nextId' = IF r = nextId THEN nextId + 1 ELSE nextId
          /\ name' = [name EXCEPT ![r] = IF r = nextId \/ (Exact(name, n) = {} /\ Fitting(name, n) = {r})
                                         THEN Longer(@, n) ELSE @]
          /\ sites' = sites \cup {<<r, page>>}
    BY <1>2 DEF ImportRow
  <2>2. n \in 1..MaxName /\ MaxName \in Nat /\ name[r] \in 0..MaxName /\ MaxId \in Nat
    BY <2>1 DEF Names, DataInv, TypeOK, AudienceAssumption
  <2>3. r # nextId => name[r] # 0
    BY <2>1, <2>2 DEF Researcher, Exact, Fitting
  <2>4. name'[r] \in 1..MaxName /\ \A x \in Ids : x # r => name'[x] = name[x]
    BY <2>1, <2>2, <2>3 DEF Longer, DataInv, TypeOK
  <2>5. name' \in [Ids -> 0..MaxName]
    BY <2>1, <2>2, <2>4 DEF DataInv, TypeOK
  <2>6. ids \subseteq ids' /\ r \in ids'
    BY <2>1, <2>4 DEF ids
  <2>7. nextId' \in 1..MaxId + 1
    BY <2>1, <2>2 DEF Ids, DataInv, TypeOK
  <2>8. UNCHANGED <<authorship, follows>>
    BY <1>2 DEF ImportRow, members
  <2>9. /\ authorship' \subseteq ids' \X Papers /\ sites' \subseteq ids' \X Pages
        /\ follows' \subseteq Users \X ids'
    <3>1. authorship' \subseteq ids' \X Papers
      BY <2>6, <2>8 DEF DataInv, TypeOK
    <3>2. sites' \subseteq ids' \X Pages
      BY <2>1, <2>6 DEF DataInv, TypeOK
    <3>3. follows' \subseteq Users \X ids'
      BY <2>6, <2>8 DEF DataInv, TypeOK
    <3> QED
      BY <3>1, <3>2, <3>3
  <2> QED
    BY <1>0, <2>5, <2>7, <2>9 DEF DataInv, TypeOK, HandInv, mailing
<1> QED
  BY <1>1, <1>2

LEMMA MemberTypes ==
  ASSUME AudienceAssumption, DataInv, NEW u \in Users,
         \/ \E r \in Ids : Follow(u, r) \/ Unfollow(u, r)
         \/ AskPrefs(u) \/ DefaultPrefs(u)
         \/ \E choice \in {"on", "off"} : SetPrefs(u, choice)
  PROVE  DataInv'
<1>0. UNCHANGED directory /\ UNCHANGED mailing /\ UNCHANGED faults
  BY DEF Follow, Unfollow, AskPrefs, DefaultPrefs, SetPrefs, Acts
<1>1. acts' \in 0..MaxActs
  <2>1. Acts \/ UNCHANGED acts
    BY DEF Follow, Unfollow, AskPrefs, DefaultPrefs, SetPrefs
  <2> QED
    BY <2>1, Counters
<1>2. follows' \subseteq Users \X ids /\ prefs' \in [Users -> {"none", "on", "off"}] /\ asking' \subseteq Users
  <2>1. follows' \subseteq Users \X ids
    <3>1. \/ \E r \in ids : follows' = follows \cup {<<u, r>>}
          \/ follows' \subseteq follows
      BY DEF Follow, Unfollow, AskPrefs, DefaultPrefs, SetPrefs
    <3> QED
      BY <3>1 DEF DataInv, TypeOK
  <2>2. prefs' \in [Users -> {"none", "on", "off"}]
    BY DEF Follow, Unfollow, AskPrefs, DefaultPrefs, SetPrefs, DataInv, TypeOK
  <2>3. asking' \subseteq Users
    BY DEF Follow, Unfollow, AskPrefs, DefaultPrefs, SetPrefs, DataInv, TypeOK
  <2> QED
    BY <2>1, <2>2, <2>3
<1> QED
  BY <1>0, <1>1, <1>2 DEF DataInv, TypeOK, HandInv, ids, directory, mailing

LEMMA MailTypes ==
  ASSUME AudienceAssumption, DataInv, Mail \/ SendFails \/ DigestDies
  PROVE  DataInv'
<1>0. UNCHANGED <<directory, members, acts>>
  BY DEF Mail, StartDigest, NextRecipient, Send, Record, SendFails, DigestDies
<1>1. faults' \in 0..MaxFaults
  <2>1. Fault \/ UNCHANGED faults
    BY DEF Mail, StartDigest, NextRecipient, Send, Record, SendFails, DigestDies
  <2> QED
    BY <2>1, Counters
<1>2. digest \in Rest /\ Off \in Rest
  BY DEF DataInv, TypeOK, Rest, Off
<1>3. digest' \in Rest /\ (digest'.pc \in {"send", "record"} => digest'.user \in Users)
  <2>1. CASE StartDigest
    <3>1. PICK list \in [Recipients -> SUBSET Ids] :
            digest' = [Off EXCEPT !.pc = "next",
                                  !.todo = {[user |-> u, ids |-> list[u]] : u \in Recipients}]
      BY <2>1 DEF StartDigest
    <3>2. {[user |-> u, ids |-> list[u]] : u \in Recipients} \subseteq [user : Users, ids : SUBSET Ids]
      <4>1. \A u \in Recipients : u \in Users /\ list[u] \in SUBSET Ids
        BY DEF Recipients
      <4> QED
        BY <4>1
    <3> QED
      BY <1>2, <3>1, <3>2 DEF Rest, Off
  <2>2. CASE NextRecipient
    <3>1. CASE digest' = Off
      BY <1>2, <3>1 DEF Off
    <3>2. ASSUME NEW row \in digest.todo,
                 LET events == Undelivered(row.user, row.ids)
                 IN digest' = IF events = {} THEN [digest EXCEPT !.todo = @ \ {row}]
                              ELSE [digest EXCEPT !.pc = "send", !.todo = @ \ {row}, !.user = row.user,
                                                  !.ids = row.ids, !.events = events]
          PROVE  digest' \in Rest /\ (digest'.pc \in {"send", "record"} => digest'.user \in Users)
      <4>1. row.user \in Users /\ row.ids \in SUBSET Ids /\ digest.todo \ {row} \in SUBSET [user : Users, ids : SUBSET Ids]
        BY <1>2 DEF Rest
      <4>2. Undelivered(row.user, row.ids) \in SUBSET Papers
        BY DEF Undelivered, DataInv, TypeOK
      <4>3. digest.pc = "next"
        BY <2>2 DEF NextRecipient
      <4> QED
        BY <1>2, <3>2, <4>1, <4>2, <4>3 DEF Rest
    <3> QED
      BY <2>2, <3>1, <3>2 DEF NextRecipient
  <2>3. CASE Send
    BY <1>2, <2>3 DEF Send, Rest, DataInv, HandInv
  <2>4. CASE Record \/ SendFails
    BY <1>2, <2>4 DEF Record, SendFails, Rest
  <2>5. CASE DigestDies
    BY <1>2, <2>5 DEF DigestDies, Off
  <2> QED
    BY <2>1, <2>2, <2>3, <2>4, <2>5 DEF Mail
<1>4. delivered' \subseteq Users \X Papers
  <2>1. CASE Record
    <3>1. digest.user \in Users /\ digest.events \subseteq Papers
      BY <1>2, <2>1 DEF Record, DataInv, HandInv, Rest
    <3> QED
      BY <2>1, <3>1 DEF Record, DataInv, TypeOK
  <2>2. CASE ~Record
    BY <2>2 DEF Mail, StartDigest, NextRecipient, Send, SendFails, DigestDies, DataInv, TypeOK
  <2> QED
    BY <2>1, <2>2
<1>5. told' \in [Users -> [Papers -> Nat]]
  <2>1. CASE Send
    <3>1. digest.user \in Users
      BY <2>1 DEF Send, DataInv, HandInv
    <3>2. [p \in Papers |-> IF p \in digest.events THEN told[digest.user][p] + 1 ELSE told[digest.user][p]]
            \in [Papers -> Nat]
      BY <3>1 DEF DataInv, TypeOK
    <3>3. told' = [told EXCEPT ![digest.user] =
            [p \in Papers |-> IF p \in digest.events THEN told[digest.user][p] + 1 ELSE told[digest.user][p]]]
      BY <2>1 DEF Send
    <3> QED
      BY <3>1, <3>2, <3>3 DEF DataInv, TypeOK
  <2>2. CASE ~Send
    BY <2>2 DEF Mail, StartDigest, NextRecipient, Record, SendFails, DigestDies, DataInv, TypeOK
  <2> QED
    BY <2>1, <2>2
<1> QED
  BY <1>0, <1>1, <1>3, <1>4, <1>5 DEF DataInv, TypeOK, HandInv, Rest, ids, directory, members

LEMMA InitTypes ==
  ASSUME AudienceAssumption, Init
  PROVE  DataInv
<1>1. PICK n \in 0..MaxId : Here = 1..n
  BY DEF AudienceAssumption
<1>2. n \in Nat /\ n <= MaxId /\ MaxId \in Nat /\ Here \subseteq Ids
  BY <1>1 DEF Ids, AudienceAssumption
<1>3. Cardinality(Here) = n
  <2>1. 1 \in Int /\ n \in Int
    BY <1>2
  <2>2. Cardinality(1..n) = IF 1 > n THEN 0 ELSE n - 1 + 1
    BY <2>1, FS_Interval, Zenon
  <2> QED
    BY <1>1, <1>2, <2>2
<1>4. nextId \in 1..MaxId + 1
  BY <1>2, <1>3 DEF Init
<1>5. \A r \in Here : FirstName[r] \in 1..MaxName /\ FirstName[r] # 0
  BY DEF Names, AudienceAssumption
<1>6. name \in [Ids -> 0..MaxName] /\ ids = Here
  <2>1. 0 \in 0..MaxName /\ \A r \in Here : FirstName[r] \in 0..MaxName
    BY <1>5 DEF AudienceAssumption
  <2> QED
    BY <1>2, <1>5, <2>1 DEF Init, ids
<1>7. authorship \subseteq ids \X Papers
  BY <1>6 DEF Init, AudienceAssumption
<1>8. sites \subseteq ids \X Pages
  BY <1>6 DEF Init, AudienceAssumption
<1>9. follows \subseteq Users \X ids
  BY <1>6 DEF Init, AudienceAssumption
<1>10. Idle \in Job /\ Idle.pc = "idle" /\ 0 \in 0..MaxId
  BY DEF Idle, Job, Unseen, AudienceAssumption
<1>11. cache \in [Processes -> [Names -> 0..MaxId]] /\ job \in [Processes -> Job]
  BY <1>10 DEF Init
<1>12. Off \in Rest /\ Off.pc = "off"
  BY DEF Off, Rest
<1>13. acts \in 0..MaxActs /\ faults \in 0..MaxFaults
  BY DEF Init, AudienceAssumption
<1>14. HandInv
  BY <1>10, <1>12 DEF Init, HandInv
<1>15. told \in [Users -> [Papers -> Nat]] /\ prefs \in [Users -> {"none", "on", "off"}]
  BY DEF Init
<1> QED
  BY <1>4, <1>6, <1>7, <1>8, <1>9, <1>11, <1>12, <1>13, <1>14, <1>15 DEF Init, DataInv, TypeOK, Rest

LEMMA DataStep ==
  ASSUME AudienceAssumption, DataInv, [Next]_vars
  PROVE  DataInv'
<1>1. CASE UNCHANGED vars
  BY <1>1 DEF vars, directory, members, mailing, DataInv, TypeOK, HandInv, ids
<1>2. CASE Next
  BY <1>2, DirectoryTypes, ScriptTypes, MemberTypes, MailTypes DEF Next, Unsubscribe
<1> QED
  BY <1>1, <1>2

(* Audience's TypeOK: among the rest, every authorship, page and follower is *)
(* of a researcher whose row is there, whoever saves and merges meanwhile.   *)
THEOREM AudienceTypeCorrect == Spec => []TypeOK
<1>1. Init => DataInv
  BY InitTypes, AudienceAssumption
<1>2. DataInv /\ [Next]_vars => DataInv'
  BY DataStep, AudienceAssumption
<1>3. DataInv => TypeOK
  BY DEF DataInv
<1> QED
  BY <1>1, <1>2, <1>3, PTL DEF Spec

LEMMA DataCorrect == Spec => []DataInv
<1>1. Init => DataInv
  BY InitTypes, AudienceAssumption
<1>2. DataInv /\ [Next]_vars => DataInv'
  BY DataStep, AudienceAssumption
<1> QED
  BY <1>1, <1>2, PTL DEF Spec

---------------------------------------------------------------------------
(* Credit. *)

Credited(r) ==
  \/ /\ r \in ids'
     /\ \A p \in Papers : <<r, p>> \in authorship => <<r, p>> \in authorship'
  \/ \E q \in ids' :
       /\ \A p \in Papers : <<r, p>> \in authorship => <<q, p>> \in authorship'
       /\ \A u \in Users : <<u, r>> \in follows => <<u, q>> \in follows'

LEMMA CreditStep ==
  ASSUME AudienceAssumption, DataInv, [Next]_vars, NEW r \in ids
  PROVE  Credited(r)
<1>1. ASSUME ids \subseteq ids', authorship \subseteq authorship'
      PROVE  Credited(r)
  BY <1>1 DEF Credited
<1>2. ASSUME NEW kept, NEW gone, MergeResearchers(kept, gone)
      PROVE  Credited(r)
  <2>1. CASE r = gone
    BY <1>2, <2>1, MergeRows DEF Credited
  <2>2. CASE r # gone
    BY <1>2, <2>2, MergeRows DEF Credited
  <2> QED
    BY <2>1, <2>2
<1>3. ASSUME UNCHANGED <<name, authorship>>
      PROVE  Credited(r)
  BY <1>1, <1>3 DEF ids
<1>4. CASE UNCHANGED vars
  BY <1>3, <1>4 DEF vars, directory
<1>5. ASSUME NEW proc \in Processes,
             \/ \E p \in Papers : BeginSave(proc, p)
             \/ SavePaper(proc) \/ SaveFails(proc) \/ Restart(proc) \/ PickPair(proc) \/ MergeAuthors(proc)
      PROVE  Credited(r)
  <2>1. CASE SavePaper(proc)
    BY <1>1, <2>1, SaveRows
  <2>2. CASE MergeAuthors(proc)
    BY <1>2, <1>3, <2>2 DEF MergeAuthors
  <2> QED
    BY <1>3, <1>5, <2>1, <2>2 DEF BeginSave, SaveFails, Restart, PickPair
<1>6. ASSUME NEW n \in Names, NEW page \in Pages, ImportRow(n, page)
      PROVE  Credited(r)
  <2>1. PICK x \in Ids : name' = [name EXCEPT ![x] = IF x = nextId \/ (Exact(name, n) = {} /\ Fitting(name, n) = {x})
                                                     THEN Longer(@, n) ELSE @]
    BY <1>6 DEF ImportRow
  <2>2. n \in 1..MaxName /\ MaxName \in Nat /\ name \in [Ids -> 0..MaxName]
    BY DEF Names, DataInv, TypeOK, AudienceAssumption
  <2>3. \A y \in Ids : name[y] # 0 => name'[y] # 0
    BY <2>1, <2>2 DEF Longer
  <2>4. ids \subseteq ids' /\ UNCHANGED authorship
    BY <1>6, <2>3 DEF ids, ImportRow
  <2> QED
    BY <1>1, <2>4
<1>7. CASE \E x, q \in Ids : MergeInitials(x, q)
  BY <1>2, <1>7 DEF MergeInitials
<1>8. ASSUME NEW u \in Users,
             \/ \E x \in Ids : Follow(u, x) \/ Unfollow(u, x)
             \/ AskPrefs(u) \/ DefaultPrefs(u) \/ \E choice \in {"on", "off"} : SetPrefs(u, choice)
      PROVE  Credited(r)
  <2>1. UNCHANGED directory
    BY <1>8 DEF Follow, Unfollow, AskPrefs, DefaultPrefs, SetPrefs
  <2> QED
    BY <1>3, <2>1 DEF directory
<1>9. CASE Mail \/ SendFails \/ DigestDies
  <2>1. UNCHANGED directory
    BY <1>9 DEF Mail, StartDigest, NextRecipient, Send, Record, SendFails, DigestDies
  <2> QED
    BY <1>3, <2>1 DEF directory
<1> QED
  BY <1>4, <1>5, <1>6, <1>7, <1>8, <1>9 DEF Next, Unsubscribe

(* Audience's CreditKept, of merge_researchers and everything else that      *)
(* writes authorship: however saves and merges overlap, nobody who wrote a   *)
(* paper is left without the credit, and no follower without whom to follow. *)
THEOREM CreditKeptCorrect == Spec => CreditKept
<1>1. DataInv /\ [Next]_vars =>
        [\A r \in ids :
           \/ /\ r \in ids'
              /\ \A p \in Papers : <<r, p>> \in authorship => <<r, p>> \in authorship'
           \/ \E q \in ids' :
                /\ \A p \in Papers : <<r, p>> \in authorship => <<q, p>> \in authorship'
                /\ \A u \in Users : <<u, r>> \in follows => <<u, q>> \in follows']_vars
  BY CreditStep, AudienceAssumption DEF Credited
<1> QED
  BY <1>1, DataCorrect, PTL DEF Spec, CreditKept

---------------------------------------------------------------------------
(* Preferences. *)

LEMMA OptOutStep ==
  ASSUME AudienceAssumption, DataInv, Next, NEW u \in Users, prefs[u] = "off", prefs'[u] = "on"
  PROVE  asking' = asking /\ acts' # acts
<1>1. prefs' # prefs
  OBVIOUS
<1>2. PICK v \in Users : DefaultPrefs(v) \/ \E choice \in {"on", "off"} : SetPrefs(v, choice)
  <2>1. ~(\/ \E proc \in Processes : \/ \E p \in Papers : BeginSave(proc, p)
                                     \/ SavePaper(proc) \/ SaveFails(proc) \/ Restart(proc)
                                     \/ PickPair(proc) \/ MergeAuthors(proc)
          \/ \E r, q \in Ids : MergeInitials(r, q)
          \/ \E n \in Names, page \in Pages : ImportRow(n, page))
    BY <1>1 DEF BeginSave, SavePaper, SaveFails, Restart, PickPair, MergeAuthors, MergeInitials, ImportRow, members
  <2>2. ~(Mail \/ SendFails \/ DigestDies)
    BY <1>1 DEF Mail, StartDigest, NextRecipient, Send, Record, SendFails, DigestDies, members
  <2>3. ASSUME NEW v \in Users, \/ \E r \in Ids : Follow(v, r) \/ Unfollow(v, r)
                                \/ AskPrefs(v)
        PROVE  FALSE
    BY <1>1, <2>3 DEF Follow, Unfollow, AskPrefs
  <2> QED
    BY <2>1, <2>2, <2>3 DEF Next, Unsubscribe
<1>3. ~DefaultPrefs(v)
  BY DEF DefaultPrefs, DataInv, TypeOK
<1>4. acts \in Nat
  BY DEF DataInv, TypeOK, AudienceAssumption
<1> QED
  BY <1>2, <1>3, <1>4 DEF SetPrefs, Acts

(* Audience's OptOutStands, of get_notification_prefs, whose INSERT IGNORE   *)
(* may come long after its SELECT: only a choice ends an opt-out.            *)
THEOREM OptOutStandsCorrect == Spec => OptOutStands
<1>1. DataInv /\ [Next]_vars =>
        [\A u \in Users : prefs[u] = "off" /\ prefs'[u] = "on" => asking' = asking /\ acts' # acts]_vars
  BY OptOutStep, AudienceAssumption
<1> QED
  BY <1>1, DataCorrect, PTL DEF Spec, OptOutStands

---------------------------------------------------------------------------
(* The ledger of the digest. *)

(* A mail that the ledger does not have yet is in hand, or its record failed.*)
Sent(u, p) ==
  \/ <<u, p>> \in delivered
  \/ digest.pc = "record" /\ digest.user = u /\ p \in digest.events

LedgerInv ==
  /\ \A u \in Users, p \in Papers : told[u][p] <= faults + 1 /\ (~Sent(u, p) => told[u][p] <= faults)
  /\ digest.pc = "send" => \A p \in digest.events : <<digest.user, p>> \notin delivered

LEMMA LedgerStep ==
  ASSUME AudienceAssumption, DataInv, LedgerInv, [Next]_vars
  PROVE  LedgerInv'
<1>0. faults \in Nat /\ \A u \in Users, p \in Papers : told[u][p] \in Nat
  BY DEF DataInv, TypeOK, AudienceAssumption
<1>1. ASSUME UNCHANGED mailing, Fault \/ UNCHANGED faults
      PROVE  LedgerInv'
  BY <1>0, <1>1 DEF mailing, Fault, LedgerInv, Sent
<1>2. CASE UNCHANGED vars
  BY <1>1, <1>2 DEF vars
<1>3. ASSUME NEW proc \in Processes,
             \/ \E p \in Papers : BeginSave(proc, p)
             \/ SavePaper(proc) \/ SaveFails(proc) \/ Restart(proc) \/ PickPair(proc) \/ MergeAuthors(proc)
      PROVE  LedgerInv'
  BY <1>1, <1>3 DEF BeginSave, SavePaper, SaveFails, Restart, PickPair, MergeAuthors, Acts
<1>4. CASE (\E r, q \in Ids : MergeInitials(r, q)) \/ \E n \in Names, page \in Pages : ImportRow(n, page)
  BY <1>1, <1>4 DEF MergeInitials, ImportRow, Acts
<1>5. ASSUME NEW u \in Users,
             \/ \E r \in Ids : Follow(u, r) \/ Unfollow(u, r)
             \/ AskPrefs(u) \/ DefaultPrefs(u) \/ \E choice \in {"on", "off"} : SetPrefs(u, choice)
      PROVE  LedgerInv'
  BY <1>1, <1>5 DEF Follow, Unfollow, AskPrefs, DefaultPrefs, SetPrefs, Acts
<1>6. CASE StartDigest
  BY <1>6 DEF StartDigest, Off, LedgerInv, Sent
<1>7. CASE NextRecipient
  <2>1. digest.pc = "next" /\ UNCHANGED <<delivered, told, faults>>
    BY <1>7 DEF NextRecipient
  <2>2. digest'.pc # "record"
        /\ (digest'.pc = "send" => \A p \in digest'.events : <<digest'.user, p>> \notin delivered)
    <3>1. CASE digest' = Off
      BY <3>1 DEF Off
    <3>2. ASSUME NEW row \in digest.todo,
                 LET events == Undelivered(row.user, row.ids)
                 IN digest' = IF events = {} THEN [digest EXCEPT !.todo = @ \ {row}]
                              ELSE [digest EXCEPT !.pc = "send", !.todo = @ \ {row}, !.user = row.user,
                                                  !.ids = row.ids, !.events = events]
          PROVE  digest'.pc # "record"
                 /\ (digest'.pc = "send" => \A p \in digest'.events : <<digest'.user, p>> \notin delivered)
      <4>1. digest \in Rest
        BY DEF DataInv, TypeOK, Rest
      <4>2. \A p \in Undelivered(row.user, row.ids) : <<row.user, p>> \notin delivered
        BY DEF Undelivered
      <4> QED
        BY <2>1, <3>2, <4>1, <4>2 DEF Rest
    <3> QED
      BY <1>7, <3>1, <3>2 DEF NextRecipient
  <2> QED
    BY <2>1, <2>2 DEF LedgerInv, Sent
<1>8. CASE Send
  <2>1. /\ digest.pc = "send" /\ digest'.pc = "record" /\ digest'.user = digest.user
        /\ digest'.events = digest.events /\ UNCHANGED <<delivered, faults>>
    BY <1>8 DEF Send, DataInv, TypeOK
  <2>2. digest.user \in Users /\ \A u \in Users, p \in Papers :
          told'[u][p] = IF u = digest.user /\ p \in digest.events THEN told[u][p] + 1 ELSE told[u][p]
    BY <1>8 DEF Send, DataInv, TypeOK, HandInv
  <2>3. ASSUME NEW u \in Users, NEW p \in Papers
        PROVE  told'[u][p] <= faults' + 1 /\ (~Sent(u, p)' => told'[u][p] <= faults')
    <3>1. CASE u = digest.user /\ p \in digest.events
      <4>1. ~Sent(u, p)
        BY <2>1, <3>1 DEF LedgerInv, Sent
      <4>2. told[u][p] <= faults
        BY <4>1 DEF LedgerInv
      <4>3. Sent(u, p)' /\ told'[u][p] = told[u][p] + 1
        BY <2>1, <2>2, <3>1 DEF Sent
      <4> QED
        BY <1>0, <2>1, <4>2, <4>3
    <3>2. CASE ~(u = digest.user /\ p \in digest.events)
      BY <1>0, <2>1, <2>2, <3>2 DEF LedgerInv, Sent
    <3> QED
      BY <3>1, <3>2
  <2> QED
    BY <2>1, <2>3 DEF LedgerInv
<1>9. CASE Record
  <2>1. /\ digest.pc = "record" /\ digest'.pc = "next" /\ UNCHANGED <<told, faults>>
        /\ delivered' = delivered \cup ({digest.user} \X digest.events)
    BY <1>9 DEF Record, DataInv, TypeOK
  <2>2. \A u \in Users, p \in Papers : Sent(u, p) => Sent(u, p)'
    BY <2>1 DEF Sent
  <2> QED
    BY <1>0, <2>1, <2>2 DEF LedgerInv
<1>10. CASE SendFails \/ DigestDies
  <2>1. digest'.pc \in {"next", "off"}
    <3>1. CASE SendFails
      BY <3>1 DEF SendFails, DataInv, TypeOK
    <3>2. CASE DigestDies
      BY <3>2 DEF DigestDies, Off
    <3> QED
      BY <1>10, <3>1, <3>2
  <2>2. faults' = faults + 1 /\ UNCHANGED <<told, delivered>>
    BY <1>10 DEF SendFails, DigestDies, Fault
  <2> QED
    BY <1>0, <2>1, <2>2 DEF LedgerInv, Sent
<1> QED
  BY <1>2, <1>3, <1>4, <1>5, <1>6, <1>7, <1>8, <1>9, <1>10 DEF Next, Mail, Unsubscribe

(* Audience's ToldOnce, of run_weekly_digest and its digest_deliveries: for  *)
(* any users, papers and merges, a mail repeats only for a record that       *)
(* failed.                                                                   *)
THEOREM ToldOnceCorrect == Spec => []ToldOnce
<1>1. Init => LedgerInv
  BY AudienceAssumption DEF Init, LedgerInv, Sent, Off
<1>2. DataInv /\ LedgerInv /\ [Next]_vars => LedgerInv'
  BY LedgerStep, AudienceAssumption
<1>3. DataInv /\ LedgerInv => ToldOnce
  <2> SUFFICES ASSUME DataInv, LedgerInv, NEW u \in Users, NEW p \in Papers
               PROVE  told[u][p] <= 1 + faults
    BY DEF ToldOnce
  <2>1. faults \in Nat /\ told[u][p] \in Nat
    BY DEF DataInv, TypeOK
  <2> QED
    BY <2>1 DEF LedgerInv
<1> QED
  BY <1>1, <1>2, <1>3, DataCorrect, PTL DEF Spec
=============================================================================
