------------------------- MODULE PaperCatalogProofs -------------------------
(***************************************************************************)
(* Theorems about PaperCatalog: any number of papers, of processes that    *)
(* enrich on one budget and of merges.                                     *)
(***************************************************************************)
EXTENDS PaperCatalog, FiniteSetTheorems, WellFoundedInduction, TLAPS

---------------------------------------------------------------------------
(* The enrichment's own state. *)

Rows == [id : Papers, title : Titles]
EnricherState ==
  [pc : {"rest", "batch", "doi", "reserve", "send", "store"}, batch : SUBSET Rows,
   row : [id : 0..NumPapers, title : Titles], dois : SUBSET Works, found : Works \cup {NoWork},
   day : Days, again : BOOLEAN]

LEMMA RowTypes ==
  ASSUME CatalogAssumption
  PROVE  /\ Rows \subseteq [id : 0..NumPapers, title : Titles]
         /\ NoRow \in [id : 0..NumPapers, title : Titles]
         /\ Resting \in EnricherState /\ Resting.pc = "rest" /\ Resting.batch = {}
<1>1. Papers \subseteq 0..NumPapers /\ 0 \in 0..NumPapers /\ 0 \in Days
  BY DEF Papers, Days, CatalogAssumption
<1>2. (CHOOSE t \in Titles : TRUE) \in Titles
  BY DEF CatalogAssumption
<1>3. NoRow \in [id : 0..NumPapers, title : Titles]
  BY <1>1, <1>2 DEF NoRow
<1> QED
  BY <1>1, <1>3 DEF Rows, Resting, EnricherState

(* One enricher moves, and only a reservation brings it to send.             *)
Moves(e) ==
  /\ enricher' \in [Enrichers -> EnricherState]
  /\ \A x \in Enrichers : x # e => enricher'[x] = enricher[x]
  /\ enricher'[e].pc = "send" =>
       /\ enricher[e].pc = "reserve" /\ BudgetLeft(today) /\ enricher'[e].day = today
       /\ charged' = [charged EXCEPT ![today] = @ + 1]

LEMMA MovesTo ==
  ASSUME TypeOK, NEW e \in Enrichers, NEW next \in EnricherState, next.pc # "send",
         enricher' = [enricher EXCEPT ![e] = next]
  PROVE  Moves(e)
  BY DEF Moves, TypeOK, EnricherState, Rows

LEMMA EnrichMoves ==
  ASSUME CatalogAssumption, TypeOK, NEW e \in Enrichers,
         Enrich(e) \/ LookupFails(e) \/ RateLimited(e) \/ EnricherDies(e)
  PROVE  Moves(e)
<1> DEFINE en == enricher[e]
<1>0. en \in EnricherState /\ e \in DOMAIN enricher
  BY DEF TypeOK, EnricherState, Rows
<1>1. ASSUME enricher' = NextPaper(e)
      PROVE  Moves(e)
  <2>1. [Resting EXCEPT !.pc = "batch", !.batch = en.batch] \in EnricherState
    BY <1>0, RowTypes DEF EnricherState
  <2>2. [Resting EXCEPT !.pc = "batch", !.batch = en.batch].pc = "batch"
    BY DEF Resting
  <2> QED
    BY <1>1, <2>1, <2>2, MovesTo DEF NextPaper
<1>2. ASSUME enricher' = [enricher EXCEPT ![e] = Resting]
      PROVE  Moves(e)
  BY <1>2, RowTypes, MovesTo
<1>3. ASSUME NEW w \in Works, enricher' = Found(e, w)
      PROVE  Moves(e)
  <2>1. [en EXCEPT !.pc = "store", !.found = w, !.dois = {}] \in EnricherState
    BY <1>0 DEF EnricherState
  <2>2. [en EXCEPT !.pc = "store", !.found = w, !.dois = {}].pc = "store"
    BY <1>0 DEF EnricherState
  <2>3. enricher' = [enricher EXCEPT ![e] = [en EXCEPT !.pc = "store", !.found = w, !.dois = {}]]
    BY <1>0, <1>3 DEF Found
  <2> QED
    BY <2>1, <2>2, <2>3, MovesTo
<1>4. CASE Select(e)
  <2>1. PICK batch \in SUBSET Papers :
          enricher' = [enricher EXCEPT ![e].pc = "batch", ![e].batch = {[id |-> p, title |-> title[p]] : p \in batch}]
    BY <1>4 DEF Select
  <2> DEFINE next == [en EXCEPT !.pc = "batch", !.batch = {[id |-> p, title |-> title[p]] : p \in batch}]
  <2>2. {[id |-> p, title |-> title[p]] : p \in batch} \in SUBSET Rows
    BY DEF Rows, TypeOK
  <2>3. next \in EnricherState /\ next.pc = "batch"
    BY <1>0, <2>2 DEF EnricherState
  <2>4. enricher' = [enricher EXCEPT ![e] = next]
    BY <1>0, <2>1
  <2> QED
    BY <2>3, <2>4, MovesTo
<1>5. CASE Attempt(e)
  <2>1. PICK row \in en.batch :
          \/ enricher' = [enricher EXCEPT ![e].batch = @ \ {row}]
          \/ enricher' = [enricher EXCEPT ![e].pc = "doi", ![e].batch = @ \ {row},
                                          ![e].row = row, ![e].dois = PageDois[row.id]]
    BY <1>5 DEF Attempt
  <2>2. row \in Rows /\ row.id \in Papers /\ PageDois[row.id] \in SUBSET Works
    BY <1>0 DEF EnricherState, Rows, CatalogAssumption
  <2>3. CASE enricher' = [enricher EXCEPT ![e].batch = @ \ {row}]
    <3>1. [en EXCEPT !.batch = @ \ {row}] \in EnricherState /\ [en EXCEPT !.batch = @ \ {row}].pc = "batch"
      BY <1>0, <1>5 DEF EnricherState, Attempt, At
    <3> QED
      BY <1>0, <2>3, <3>1, MovesTo
  <2>4. CASE enricher' = [enricher EXCEPT ![e].pc = "doi", ![e].batch = @ \ {row},
                                          ![e].row = row, ![e].dois = PageDois[row.id]]
    <3> DEFINE next == [en EXCEPT !.pc = "doi", !.batch = @ \ {row}, !.row = row, !.dois = PageDois[row.id]]
    <3>1. row \in [id : 0..NumPapers, title : Titles]
      BY <2>2, RowTypes
    <3>2. next \in EnricherState /\ next.pc = "doi"
      BY <1>0, <2>2, <3>1 DEF EnricherState
    <3>3. enricher' = [enricher EXCEPT ![e] = next]
      BY <1>0, <2>4
    <3> QED
      BY <3>2, <3>3, MovesTo
  <2> QED
    BY <2>1, <2>3, <2>4
<1>6. CASE LookupDoi(e)
  <2>1. PICK w \in en.dois :
          Answer(e, w, IF Matches(e, w) THEN Found(e, w) ELSE [enricher EXCEPT ![e].dois = @ \ {w}])
    BY <1>6 DEF LookupDoi
  <2>2. w \in Works
    BY <1>0 DEF EnricherState
  <2>3. CASE enricher' = [enricher EXCEPT ![e].dois = @ \ {w}]
    <3>1. [en EXCEPT !.dois = @ \ {w}] \in EnricherState /\ [en EXCEPT !.dois = @ \ {w}].pc = "doi"
      BY <1>0, <1>6 DEF EnricherState, LookupDoi, At
    <3> QED
      BY <1>0, <2>3, <3>1, MovesTo
  <2> QED
    BY <1>2, <1>3, <2>1, <2>2, <2>3 DEF Answer
<1>7. CASE LookupFails(e)
  <2>1. [en EXCEPT !.dois = {}] \in EnricherState /\ [en EXCEPT !.dois = {}].pc = "doi"
    BY <1>0, <1>7 DEF EnricherState, LookupFails, At
  <2>2. enricher' = [enricher EXCEPT ![e] = [en EXCEPT !.dois = {}]]
    BY <1>0, <1>7 DEF LookupFails
  <2> QED
    BY <2>1, <2>2, MovesTo
<1>8. CASE CheckBudget(e)
  <2>1. CASE enricher' = [enricher EXCEPT ![e].pc = "reserve"]
    <3>1. [en EXCEPT !.pc = "reserve"] \in EnricherState /\ [en EXCEPT !.pc = "reserve"].pc = "reserve"
      BY <1>0 DEF EnricherState
    <3> QED
      BY <1>0, <2>1, <3>1, MovesTo
  <2> QED
    BY <1>1, <1>8, <2>1 DEF CheckBudget
<1>9. CASE Reserve(e)
  <2>1. CASE BudgetLeft(today)
    <3> DEFINE next == [en EXCEPT !.pc = "send", !.day = today]
    <3>1. next \in EnricherState /\ next.day = today
      BY <1>0 DEF EnricherState, TypeOK
    <3>2. enricher' = [enricher EXCEPT ![e] = next]
      BY <1>0, <1>9, <2>1 DEF Reserve
    <3>3. en.pc = "reserve" /\ charged' = [charged EXCEPT ![today] = @ + 1]
      BY <1>9, <2>1 DEF Reserve, At
    <3> HIDE DEF next
    <3> QED
      BY <2>1, <3>1, <3>2, <3>3 DEF Moves, TypeOK, EnricherState, Rows
  <2> QED
    BY <1>1, <1>9, <2>1 DEF Reserve
<1>10. CASE Send(e)
  BY <1>1, <1>2, <1>3, <1>10 DEF Send, Answer
<1>11. CASE RateLimited(e)
  <2>1. CASE enricher' = [enricher EXCEPT ![e].pc = "reserve", ![e].again = TRUE]
    <3> DEFINE next == [en EXCEPT !.pc = "reserve", !.again = TRUE]
    <3>1. next \in EnricherState /\ next.pc = "reserve"
      BY <1>0 DEF EnricherState
    <3>2. enricher' = [enricher EXCEPT ![e] = next]
      BY <1>0, <2>1
    <3> QED
      BY <3>1, <3>2, MovesTo
  <2> QED
    BY <1>1, <1>11, <2>1 DEF RateLimited
<1> QED
  BY <1>1, <1>2, <1>4, <1>5, <1>6, <1>7, <1>8, <1>9, <1>10, <1>11 DEF Enrich, BatchDone, Store, EnricherDies

---------------------------------------------------------------------------
(* The merge of a group. *)

LEMMA OldestExists ==
  ASSUME NEW S \in SUBSET Nat, S # {}
  PROVE  Oldest(S) \in S /\ \A k \in S : Oldest(S) <= k
<1>1. PICK x \in S : \A y \in S : ~(<<y, x>> \in OpToRel(<, Nat))
  BY WFMin, NatLessThanWellFounded
<1>2. \A y \in S : ~(y < x)
  BY <1>1 DEF OpToRel
<1>3. \E z \in S : \A y \in S : z <= y
  BY <1>2
<1> QED
  BY <1>3 DEF Oldest

LEMMA HighestExists ==
  ASSUME NEW S \in SUBSET (0..Published), S # {}
  PROVE  Highest(S) \in S /\ \A k \in S : k <= Highest(S)
<1> DEFINE T == {Published - k : k \in S}
<1>1. T \in SUBSET Nat /\ T # {}
  <2>1. \A k \in S : k \in 0..5 /\ 5 - k \in Nat
    BY DEF Published
  <2> QED
    BY <2>1 DEF Published
<1>2. Oldest(T) \in T /\ \A k \in T : Oldest(T) <= k
  BY <1>1, OldestExists
<1>3. PICK n \in S : Oldest(T) = Published - n
  BY <1>2
<1>4. \A k \in S : Published - n <= Published - k
  BY <1>2, <1>3
<1>5. \A k \in S : k <= n
  BY <1>4 DEF Published
<1> QED
  BY <1>5 DEF Highest

(* The news of the row that stays, when it has any: the first.               *)
LEMMA FirstNewsIsOne ==
  ASSUME NEW moved \in SUBSET (Papers \X Papers), NEW p \in Papers, NEW n \in moved, n[2] = p
  PROVE  \E k \in FirstNews(moved, p) : {j \in FirstNews(moved, p) : j[2] = p} = {k} /\ k[1] <= n[1]
<1> DEFINE mine == {j \in moved : j[2] = p}
           ids == {j[1] : j \in mine}
<1>1. ids \in SUBSET Nat /\ ids # {} /\ n[1] \in ids
  BY DEF Papers
<1>2. Oldest(ids) \in ids /\ \A i \in ids : Oldest(ids) <= i
  BY <1>1, OldestExists
<1>3. PICK k \in mine : k[1] = Oldest(ids)
  BY <1>2
<1>4. k \in FirstNews(moved, p) /\ k[2] = p /\ k[1] <= n[1]
  BY <1>1, <1>2, <1>3 DEF FirstNews
<1>5. \A j \in FirstNews(moved, p) : j[2] = p => j = k
  <2> SUFFICES ASSUME NEW j \in FirstNews(moved, p), j[2] = p
               PROVE  j = k
    OBVIOUS
  <2>1. j \in mine /\ j[1] \in ids /\ j[1] <= k[1]
    BY <1>3 DEF FirstNews
  <2>2. j[1] \in Nat /\ k[1] \in Nat /\ k[1] <= j[1]
    BY <1>1, <1>2, <1>3, <2>1
  <2>3. j = <<j[1], j[2]>> /\ k = <<k[1], k[2]>>
    BY <1>3, <2>1
  <2> QED
    BY <1>4, <2>1, <2>2, <2>3
<1> QED
  BY <1>4, <1>5

(* What a merge leaves: every row of the group but one goes, and that one    *)
(* has what the others had.                                                  *)
Heir(p, q) ==
  /\ title[q] = title[p] /\ status'[q] >= status[p]
  /\ work[p] # NoWork => work'[q] = work[p]
  /\ authors[p] \subseteq authors'[q]
  /\ \A u \in Urls : <<p, u>> \in links => <<q, u>> \in links'
  /\ \A n \in news : n[2] = p => \E k \in news' : {j \in news' : j[2] = q} = {k} /\ k[1] <= n[1]

Duplicates(p, q) ==
  /\ title[p] = title[q]
  /\ work[p] = work[q] \/ NoWork \in {work[p], work[q]}
  /\ authors[p] \subseteq authors[q] \/ authors[q] \subseteq authors[p]

LEMMA MergeLeaves ==
  ASSUME CatalogAssumption, TypeOK, NEW group, group # {}, StillOne(group), Merge(group)
  PROVE  /\ papers' \subseteq papers /\ title' = title
         /\ authors' \in [Papers -> SUBSET Authors] /\ status' \in [Papers -> 0..Published]
         /\ work' \in [Papers -> Works \cup {NoWork}]
         /\ links' \subseteq papers' \X Urls /\ news' \subseteq Papers \X papers'
         /\ \A p \in papers \ papers' : \E q \in papers' : Duplicates(p, q) /\ Heir(p, q)
<1> DEFINE kept == Oldest(group)
           here(p) == IF p \in group THEN kept ELSE p
           known == {work[p] : p \in group} \ {NoWork}
           one == IF known = {} THEN NoWork ELSE CHOOSE w \in known : TRUE
           moved == {<<n[1], here(n[2])>> : n \in news}
<1>1. group \subseteq papers /\ papers \subseteq Papers /\ Papers \subseteq Nat
  BY DEF StillOne, TypeOK, Papers
<1>2. kept \in group
  BY <1>1, OldestExists
<1>3. /\ papers' = papers \ (group \ {kept}) /\ title' = title
      /\ status' = [status EXCEPT ![kept] = Highest({status[p] : p \in group})]
      /\ work' = [work EXCEPT ![kept] = one]
      /\ authors' = [authors EXCEPT ![kept] = UNION {authors[p] : p \in group}]
      /\ links' = {<<here(l[1]), l[2]>> : l \in links}
      /\ news' = FirstNews(moved, kept)
  BY DEF Merge
<1> HIDE DEF kept
<1>4. kept \in papers' /\ kept \in Papers /\ papers' \subseteq papers /\ \A p \in papers : here(p) \in papers'
  BY <1>1, <1>2, <1>3
<1>5. Highest({status[p] : p \in group}) \in 0..Published
      /\ \A p \in group : status[p] <= Highest({status[q] : q \in group})
  <2> DEFINE S == {status[p] : p \in group}
  <2>1. S \in SUBSET (0..Published) /\ S # {}
    BY <1>1, <1>2 DEF TypeOK
  <2>2. Highest(S) \in S /\ \A k \in S : k <= Highest(S)
    BY <2>1, HighestExists
  <2> QED
    BY <2>1, <2>2
<1>6. known \subseteq Works /\ \A p, q \in group : {work[p], work[q]} \subseteq known => work[p] = work[q]
  BY <1>1 DEF TypeOK, StillOne, Compatible
<1>7. one \in Works \cup {NoWork} /\ \A p \in group : work[p] # NoWork => one = work[p]
  BY <1>6
<1>8. UNION {authors[p] : p \in group} \in SUBSET Authors
  BY <1>1 DEF TypeOK
<1> HIDE DEF known, one
<1>9. /\ authors' \in [Papers -> SUBSET Authors] /\ status' \in [Papers -> 0..Published]
      /\ work' \in [Papers -> Works \cup {NoWork}]
  <2>1. authors' \in [Papers -> SUBSET Authors]
    BY <1>3, <1>8 DEF TypeOK
  <2>2. status' \in [Papers -> 0..Published]
    BY <1>3, <1>5 DEF TypeOK
  <2>3. work' \in [Papers -> Works \cup {NoWork}]
    BY <1>3, <1>7 DEF TypeOK
  <2> QED
    BY <2>1, <2>2, <2>3
<1>10. links' \subseteq papers' \X Urls
  BY <1>3, <1>4 DEF TypeOK
<1>11. moved \subseteq Papers \X papers' /\ moved \in SUBSET (Papers \X Papers)
  <2>1. \A n \in news : n[1] \in Papers /\ n[2] \in papers
    BY DEF TypeOK
  <2>2. \A n \in news : <<n[1], here(n[2])>> \in Papers \X papers'
    BY <1>4, <2>1
  <2>3. papers' \subseteq Papers
    BY <1>1, <1>4
  <2> QED
    BY <2>2, <2>3
<1>12. news' \subseteq Papers \X papers'
  BY <1>3, <1>11 DEF FirstNews
<1>13. ASSUME NEW p \in group, p # kept
       PROVE  Duplicates(p, kept) /\ Heir(p, kept)
  <2>1. Compatible(p, kept)
    BY <1>2, <1>13 DEF StillOne
  <2>2. status'[kept] >= status[p] /\ authors[p] \subseteq authors'[kept]
        /\ (work[p] # NoWork => work'[kept] = work[p])
    <3>1. /\ status'[kept] = Highest({status[r] : r \in group}) /\ work'[kept] = one
          /\ authors'[kept] = UNION {authors[r] : r \in group}
      BY <1>3, <1>4 DEF TypeOK
    <3>2. status[p] \in 0..Published
      BY <1>1 DEF TypeOK
    <3> QED
      BY <1>5, <1>7, <3>1, <3>2
  <2>3. ASSUME NEW u \in Urls, <<p, u>> \in links
        PROVE  <<kept, u>> \in links'
    <3> DEFINE l == <<p, u>>
    <3>1. l \in links /\ l[1] = p /\ l[2] = u
      BY <2>3
    <3> HIDE DEF l
    <3> QED
      BY <1>3, <3>1
  <2>4. ASSUME NEW n \in news, n[2] = p
        PROVE  \E k \in news' : {j \in news' : j[2] = kept} = {k} /\ k[1] <= n[1]
    <3> DEFINE there == <<n[1], here(n[2])>>
    <3>1. there \in moved /\ there[1] = n[1] /\ there[2] = kept
      BY <2>4
    <3> HIDE DEF there, moved
    <3> QED
      BY <1>3, <1>4, <1>11, <3>1, FirstNewsIsOne
  <2> QED
    BY <2>1, <2>2, <2>3, <2>4 DEF Compatible, Duplicates, Heir
<1>14. \A p \in papers \ papers' : \E q \in papers' : Duplicates(p, q) /\ Heir(p, q)
  BY <1>3, <1>4, <1>13
<1> QED
  BY <1>3, <1>4, <1>9, <1>10, <1>12, <1>14

---------------------------------------------------------------------------
(* The types. *)

(* No group that waits for its merge is empty.                               *)
GroupsInv == \A m \in Mergers : {} \notin merger[m].groups

RowsOK ==
  /\ papers \subseteq Papers
  /\ title \in [Papers -> Titles]
  /\ authors \in [Papers -> SUBSET Authors]
  /\ status \in [Papers -> 0..Published]
  /\ work \in [Papers -> Works \cup {NoWork}]
  /\ links \subseteq papers \X Urls
  /\ news \subseteq Papers \X papers

LEMMA EnrichTypes ==
  ASSUME CatalogAssumption, TypeOK, GroupsInv, NEW e \in Enrichers,
         Enrich(e) \/ LookupFails(e) \/ RateLimited(e) \/ EnricherDies(e)
  PROVE  TypeOK' /\ GroupsInv'
<1>1. enricher' \in [Enrichers -> EnricherState]
  BY EnrichMoves DEF Moves
<1>2. UNCHANGED <<papers, title, authors, status, links, news, today, merger>>
  BY DEF Enrich, Select, Attempt, BatchDone, LookupDoi, CheckBudget, Reserve, Send, Store, LookupFails,
         RateLimited, EnricherDies, rows, budget
<1>3. tried' \in [Papers -> {"never", "recent", "due"}]
  <2>1. CASE Attempt(e)
    <3>1. UNCHANGED tried \/ \E x : tried' = [tried EXCEPT ![x] = IF x \in papers THEN "recent" ELSE @]
      BY <2>1 DEF Attempt
    <3> QED
      BY <3>1 DEF TypeOK
  <2>2. CASE ~Attempt(e)
    BY <2>2 DEF Enrich, Select, BatchDone, LookupDoi, CheckBudget, Reserve, Send, Store, LookupFails,
                RateLimited, EnricherDies, TypeOK
  <2> QED
    BY <2>1, <2>2
<1>4. work' \in [Papers -> Works \cup {NoWork}]
  <2>1. CASE Store(e)
    <3>1. enricher[e].found \in Works \cup {NoWork}
      BY DEF TypeOK
    <3> QED
      BY <2>1, <3>1 DEF Store, TypeOK
  <2>2. CASE ~Store(e)
    BY <2>2 DEF Enrich, Select, Attempt, BatchDone, LookupDoi, CheckBudget, Reserve, Send, LookupFails,
                RateLimited, EnricherDies, rows, TypeOK
  <2> QED
    BY <2>1, <2>2
<1>5. charged' \in [Days -> Nat] /\ sent' \in [Days -> Nat]
  <2>1. /\ charged' \in {charged, [charged EXCEPT ![today] = @ + 1]}
        /\ sent' \in {sent, [sent EXCEPT ![enricher[e].day] = @ + 1]}
    BY DEF Enrich, Select, Attempt, BatchDone, LookupDoi, CheckBudget, Reserve, Send, Store, LookupFails,
           RateLimited, EnricherDies, budget
  <2>2. [charged EXCEPT ![today] = @ + 1] \in [Days -> Nat]
    BY DEF TypeOK
  <2>3. [sent EXCEPT ![enricher[e].day] = @ + 1] \in [Days -> Nat]
    BY DEF TypeOK
  <2> QED
    BY <2>1, <2>2, <2>3 DEF TypeOK
<1>6. events' \in 0..MaxEvents
  <2>1. MaxEvents \in Nat /\ events \in 0..MaxEvents
    BY DEF TypeOK, CatalogAssumption
  <2>2. UNCHANGED events \/ (events < MaxEvents /\ events' = events + 1)
    BY DEF Enrich, Select, Attempt, BatchDone, LookupDoi, CheckBudget, Reserve, Send, Store, LookupFails,
           RateLimited, EnricherDies
  <2> QED
    BY <2>1, <2>2
<1>7. GroupsInv'
  BY <1>2 DEF GroupsInv
<1> QED
  BY <1>1, <1>2, <1>3, <1>4, <1>5, <1>6, <1>7 DEF TypeOK, EnricherState, Rows

(* A paper is in its own part of what is connected.                          *)
LEMMA PartsHold ==
  ASSUME NEW groups \in SUBSET SUBSET Papers
  PROVE  Connected(groups) \in SUBSET SUBSET Papers /\ {} \notin Connected(groups)
<1> DEFINE all == UNION groups
           closed(s) == \A g \in groups : g \cap s = {} \/ g \subseteq s
           part(p) == {q \in all : \A s \in SUBSET all : p \in s /\ closed(s) => q \in s}
<1>1. Connected(groups) = {part(p) : p \in all}
  BY DEF Connected
<1>2. \A p \in all : p \in part(p) /\ part(p) \in SUBSET Papers
  OBVIOUS
<1> QED
  BY <1>1, <1>2

LEMMA MergerTypes ==
  ASSUME CatalogAssumption, TypeOK, GroupsInv, NEW m \in Mergers,
         FindGroups(m) \/ MergeGroup(m) \/ MergeEnds(m) \/ MergeFails(m)
  PROVE  TypeOK' /\ GroupsInv'
<1>1. UNCHANGED <<tried, today, charged, sent, enricher>>
  BY DEF FindGroups, MergeGroup, MergeEnds, MergeFails, budget
<1>2. events' \in 0..MaxEvents
  <2>1. MaxEvents \in Nat /\ events \in 0..MaxEvents
    BY DEF TypeOK, CatalogAssumption
  <2>2. UNCHANGED events \/ (events < MaxEvents /\ events' = events + 1)
    BY DEF FindGroups, MergeGroup, MergeEnds, MergeFails
  <2> QED
    BY <2>1, <2>2
<1>3. merger' \in [Mergers -> [pc : {"wait", "merge"}, groups : SUBSET SUBSET Papers]] /\ GroupsInv'
  <2>1. PICK next \in [pc : {"wait", "merge"}, groups : SUBSET SUBSET Papers] :
          {} \notin next.groups /\ merger' = [merger EXCEPT ![m] = next]
    <3> DEFINE good(next) == /\ next \in [pc : {"wait", "merge"}, groups : SUBSET SUBSET Papers]
                             /\ {} \notin next.groups /\ merger' = [merger EXCEPT ![m] = next]
    <3>1. CASE FindGroups(m)
      <4>1. SameWork \cup SameTitle \in SUBSET SUBSET Papers
        BY DEF SameWork, SameTitle, TypeOK
      <4>2. good([pc |-> "merge", groups |-> Connected(SameWork \cup SameTitle)])
        BY <3>1, <4>1, PartsHold DEF FindGroups
      <4> QED
        BY <4>2
    <3>2. ASSUME merger' = [merger EXCEPT ![m] = Waiting]
          PROVE  \E next : good(next)
      <4>1. good(Waiting)
        BY <3>2 DEF Waiting
      <4> QED
        BY <4>1
    <3>3. ASSUME NEW group, merger' = [merger EXCEPT ![m].groups = @ \ {group}]
          PROVE  \E next : good(next)
      <4>1. good([merger[m] EXCEPT !.groups = @ \ {group}])
        BY <3>3 DEF TypeOK, GroupsInv
      <4> QED
        BY <4>1
    <3> QED
      BY <3>1, <3>2, <3>3 DEF MergeGroup, MergeEnds, MergeFails
  <2>2. merger' \in [Mergers -> [pc : {"wait", "merge"}, groups : SUBSET SUBSET Papers]]
    BY <2>1 DEF TypeOK
  <2>3. GroupsInv'
    BY <2>1 DEF TypeOK, GroupsInv
  <2> QED
    BY <2>2, <2>3
<1>4. RowsOK'
  <2>1. CASE UNCHANGED rows
    BY <2>1 DEF rows, RowsOK, TypeOK
  <2>2. ASSUME NEW group \in merger[m].groups, StillOne(group), Merge(group)
        PROVE  RowsOK'
    <3>1. group # {}
      BY DEF GroupsInv
    <3> QED
      BY <2>2, <3>1, MergeLeaves DEF RowsOK, TypeOK
  <2> QED
    BY <2>1, <2>2 DEF FindGroups, MergeGroup, MergeEnds, MergeFails
<1> QED
  BY <1>1, <1>2, <1>3, <1>4 DEF TypeOK, RowsOK

LEMMA PageTypes ==
  ASSUME CatalogAssumption, TypeOK, GroupsInv,
         \/ \E p \in Papers : \/ \E u \in Urls : SaveLink(p, u)
                              \/ \E a \in Authors : AddAuthor(p, a)
                              \/ \E t \in Titles : Rename(p, t)
                              \/ Climb(p)
         \/ DaysPass
         \/ UNCHANGED vars
  PROVE  TypeOK' /\ GroupsInv'
<1>1. ASSUME Edit, title' \in [Papers -> Titles], authors' \in [Papers -> SUBSET Authors],
             status' \in [Papers -> 0..Published], links' \subseteq papers \X Urls
      PROVE  TypeOK' /\ GroupsInv'
  <2>1. MaxEvents \in Nat /\ events \in 0..MaxEvents
    BY DEF TypeOK, CatalogAssumption
  <2>2. events' \in 0..MaxEvents /\ UNCHANGED <<papers, work, news, tried, today, charged, sent, enricher, merger>>
    BY <1>1, <2>1 DEF Edit, budget
  <2> QED
    BY <1>1, <2>2 DEF TypeOK, GroupsInv
<1>2. ASSUME NEW p \in Papers, NEW u \in Urls, SaveLink(p, u)
      PROVE  TypeOK' /\ GroupsInv'
  BY <1>1, <1>2 DEF SaveLink, TypeOK
<1>3. ASSUME NEW p \in Papers, NEW a \in Authors, AddAuthor(p, a)
      PROVE  TypeOK' /\ GroupsInv'
  BY <1>1, <1>3 DEF AddAuthor, TypeOK
<1>4. ASSUME NEW p \in Papers, NEW t \in Titles, Rename(p, t)
      PROVE  TypeOK' /\ GroupsInv'
  BY <1>1, <1>4 DEF Rename, TypeOK
<1>5. ASSUME NEW p \in Papers, Climb(p)
      PROVE  TypeOK' /\ GroupsInv'
  BY <1>1, <1>5 DEF Climb, TypeOK
<1>6. CASE DaysPass
  <2>1. today' \in Days
    BY <1>6 DEF DaysPass, Days, TypeOK, CatalogAssumption
  <2>2. tried' \in [Papers -> {"never", "recent", "due"}]
    BY <1>6 DEF DaysPass, TypeOK
  <2> QED
    BY <1>6, <2>1, <2>2 DEF DaysPass, rows, TypeOK, GroupsInv
<1>7. CASE UNCHANGED vars
  BY <1>7 DEF vars, rows, budget, TypeOK, GroupsInv
<1> QED
  BY <1>2, <1>3, <1>4, <1>5, <1>6, <1>7

CatalogInv == TypeOK /\ GroupsInv

LEMMA CatalogInvariant == Spec => []CatalogInv
<1>1. Init => CatalogInv
  <2> SUFFICES ASSUME Init
               PROVE  CatalogInv
    OBVIOUS
  <2>1. Resting \in EnricherState /\ 0 \in Days /\ 0 \in 0..MaxEvents
    BY RowTypes, CatalogAssumption DEF Days, CatalogAssumption
  <2>2. RowsOK
    BY CatalogAssumption DEF Init, RowsOK, CatalogAssumption
  <2>3. GroupsInv
    BY DEF Init, GroupsInv, Waiting
  <2> QED
    BY <2>1, <2>2, <2>3 DEF Init, RowsOK, TypeOK, EnricherState, Rows, Waiting, CatalogInv
<1>2. CatalogInv /\ [Next]_vars => CatalogInv'
  BY EnrichTypes, MergerTypes, PageTypes, CatalogAssumption DEF Next, CatalogInv
<1> QED
  BY <1>1, <1>2, PTL DEF Spec

(* PaperCatalog's TypeOK: among the rest, every link and every piece of news *)
(* is of a paper whose row is there, through merge_duplicate_papers and what *)
(* pages add meanwhile.                                                      *)
THEOREM CatalogTypeCorrect == Spec => []TypeOK
<1>1. CatalogInv => TypeOK
  BY DEF CatalogInv
<1> QED
  BY <1>1, CatalogInvariant, PTL

---------------------------------------------------------------------------
(* The merges. *)

LEMMA MergeStep ==
  ASSUME CatalogAssumption, CatalogInv, [Next]_vars, NEW p \in papers \ papers'
  PROVE  \E q \in papers' : q \in papers /\ Duplicates(p, q) /\ Heir(p, q)
<1>1. papers' # papers
  OBVIOUS
<1>2. PICK m \in Mergers : MergeGroup(m)
  <2>1. ~UNCHANGED vars
    BY <1>1 DEF vars, rows
  <2>2. ASSUME NEW e \in Enrichers, Enrich(e) \/ LookupFails(e) \/ RateLimited(e) \/ EnricherDies(e)
        PROVE  FALSE
    BY <1>1, <2>2 DEF Enrich, Select, Attempt, BatchDone, LookupDoi, CheckBudget, Reserve, Send, Store,
                      LookupFails, RateLimited, EnricherDies, rows
  <2>3. ASSUME \E m \in Mergers : FindGroups(m) \/ MergeEnds(m) \/ MergeFails(m)
        PROVE  FALSE
    BY <1>1, <2>3 DEF FindGroups, MergeEnds, MergeFails, rows
  <2>4. ASSUME \/ \E r \in Papers : \/ \E u \in Urls : SaveLink(r, u)
                                    \/ \E a \in Authors : AddAuthor(r, a)
                                    \/ \E t \in Titles : Rename(r, t)
                                    \/ Climb(r)
               \/ DaysPass
        PROVE  FALSE
    BY <1>1, <2>4 DEF SaveLink, AddAuthor, Rename, Climb, Edit, DaysPass, rows
  <2> QED
    BY <2>1, <2>2, <2>3, <2>4 DEF Next
<1>3. PICK group \in merger[m].groups : StillOne(group) /\ Merge(group)
  BY <1>1, <1>2 DEF MergeGroup, rows
<1>4. group # {}
  BY DEF CatalogInv, GroupsInv
<1> QED
  BY <1>3, <1>4, MergeLeaves DEF CatalogInv

(* PaperCatalog's OnlyDuplicatesMerged, of merge_duplicate_papers and its    *)
(* second look at the locked rows: for any groups found at any time before.  *)
THEOREM OnlyDuplicatesMergedCorrect == Spec => OnlyDuplicatesMerged
<1>1. CatalogInv /\ [Next]_vars =>
        [\A p \in papers \ papers' : \E q \in papers \cap papers' :
           /\ title[p] = title[q]
           /\ work[p] = work[q] \/ NoWork \in {work[p], work[q]}
           /\ authors[p] \subseteq authors[q] \/ authors[q] \subseteq authors[p]]_vars
  <2> SUFFICES ASSUME CatalogInv, [Next]_vars, NEW p \in papers \ papers'
               PROVE  \E q \in papers \cap papers' : Duplicates(p, q)
    BY DEF Duplicates
  <2> QED
    BY MergeStep, CatalogAssumption
<1> QED
  BY <1>1, CatalogInvariant, PTL DEF Spec, OnlyDuplicatesMerged

(* PaperCatalog's NothingLost, of _merge_group: what hangs on a row that a   *)
(* merge deletes hangs on the one that it keeps, and the oldest news is the  *)
(* only one.                                                                 *)
THEOREM NothingLostCorrect == Spec => NothingLost
<1>1. CatalogInv /\ [Next]_vars =>
        [\A p \in papers \ papers' : \E q \in papers' :
           /\ title[q] = title[p] /\ status'[q] >= status[p]
           /\ work[p] # NoWork => work'[q] = work[p]
           /\ authors[p] \subseteq authors'[q]
           /\ \A u \in Urls : <<p, u>> \in links => <<q, u>> \in links'
           /\ \A n \in news : n[2] = p => \E k \in news' : {j \in news' : j[2] = q} = {k} /\ k[1] <= n[1]]_vars
  <2> SUFFICES ASSUME CatalogInv, [Next]_vars, NEW p \in papers \ papers'
               PROVE  \E q \in papers' : Heir(p, q)
    BY DEF Heir
  <2> QED
    BY MergeStep, CatalogAssumption
<1> QED
  BY <1>1, CatalogInvariant, PTL DEF Spec, NothingLost

---------------------------------------------------------------------------
(* The budget. *)

Sending(d) == {e \in Enrichers : enricher[e].pc = "send" /\ enricher[e].day = d}

(* What was reserved and is not sent yet counts already.                     *)
BudgetInv ==
  \A d \in Days : charged[d] <= RequestLimit /\ sent[d] + Cardinality(Sending(d)) <= charged[d]

LEMMA SendingFinite ==
  ASSUME CatalogAssumption, NEW S \in SUBSET Enrichers
  PROVE  IsFiniteSet(S) /\ Cardinality(S) \in Nat
         /\ \A T \in SUBSET S : Cardinality(T) <= Cardinality(S)
<1>1. IsFiniteSet(S)
  BY FS_Subset DEF CatalogAssumption
<1> QED
  BY <1>1, FS_Subset, FS_CardinalityType

LEMMA BudgetStep ==
  ASSUME CatalogAssumption, CatalogInv, BudgetInv, NEW e \in Enrichers,
         Enrich(e) \/ LookupFails(e) \/ RateLimited(e) \/ EnricherDies(e)
  PROVE  BudgetInv'
<1> DEFINE day == enricher[e].day
<1>0. /\ charged \in [Days -> Nat] /\ sent \in [Days -> Nat] /\ today \in Days /\ day \in Days
      /\ RequestLimit \in Nat
  BY DEF CatalogInv, TypeOK, CatalogAssumption
<1>1. Moves(e)
  BY EnrichMoves DEF CatalogInv
<1>2. \/ UNCHANGED sent
      \/ /\ enricher[e].pc = "send" /\ UNCHANGED charged
         /\ sent' = [sent EXCEPT ![day] = @ + 1]
  BY DEF Enrich, Select, Attempt, BatchDone, LookupDoi, CheckBudget, Reserve, Send, Store, LookupFails,
         RateLimited, EnricherDies, budget, At
<1>3. UNCHANGED charged \/ enricher'[e].pc = "send"
  <2>1. CASE Reserve(e) /\ BudgetLeft(today)
    BY <2>1 DEF Reserve, CatalogInv, TypeOK
  <2>2. CASE ~(Reserve(e) /\ BudgetLeft(today))
    BY <2>2 DEF Enrich, Select, Attempt, BatchDone, LookupDoi, CheckBudget, Reserve, Send, Store, LookupFails,
                RateLimited, EnricherDies, budget
  <2> QED
    BY <2>1, <2>2
<1> HIDE DEF day
<1>4. CASE enricher'[e].pc = "send"
  <2>1. /\ UNCHANGED sent /\ charged[today] < RequestLimit /\ enricher[e].pc = "reserve"
        /\ charged' = [charged EXCEPT ![today] = @ + 1] /\ enricher'[e].day = today
    BY <1>1, <1>2, <1>4 DEF Moves, BudgetLeft
  <2>2. ASSUME NEW d \in Days
        PROVE  charged'[d] <= RequestLimit /\ sent'[d] + Cardinality(Sending(d)') <= charged'[d]
    <3>1. CASE d = today
      <4>1. Sending(d)' = Sending(d) \cup {e} /\ e \notin Sending(d)
        BY <1>1, <1>4, <2>1, <3>1 DEF Moves, Sending
      <4>2. IsFiniteSet(Sending(d)) /\ Cardinality(Sending(d)) \in Nat
        BY SendingFinite DEF Sending
      <4>3. Cardinality(Sending(d)') = Cardinality(Sending(d)) + 1
        BY <4>1, <4>2, FS_AddElement
      <4> QED
        BY <1>0, <2>1, <3>1, <4>2, <4>3 DEF BudgetInv
    <3>2. CASE d # today
      <4>1. Sending(d)' = Sending(d)
        BY <1>1, <2>1, <3>2 DEF Moves, Sending
      <4> QED
        BY <1>0, <2>1, <3>2, <4>1 DEF BudgetInv
    <3> QED
      BY <3>1, <3>2
  <2> QED
    BY <2>2 DEF BudgetInv
<1>5. CASE enricher'[e].pc # "send"
  <2>1. UNCHANGED charged
    BY <1>3, <1>5
  <2>2. ASSUME NEW d \in Days
        PROVE  /\ Cardinality(Sending(d)) \in Nat /\ Cardinality(Sending(d)') \in Nat
               /\ Cardinality(Sending(d)') <= Cardinality(Sending(d))
               /\ enricher[e].pc = "send" /\ day = d => Cardinality(Sending(d)') + 1 <= Cardinality(Sending(d))
    <3>1. Sending(d)' = Sending(d) \ {e}
      BY <1>1, <1>5 DEF Moves, Sending
    <3>2. IsFiniteSet(Sending(d)) /\ Cardinality(Sending(d)) \in Nat
      BY SendingFinite DEF Sending
    <3>3. /\ IsFiniteSet(Sending(d) \ {e})
          /\ Cardinality(Sending(d) \ {e}) =
               IF e \in Sending(d) THEN Cardinality(Sending(d)) - 1 ELSE Cardinality(Sending(d))
      BY <3>2, FS_RemoveElement
    <3>4. Cardinality(Sending(d) \ {e}) \in Nat
      BY <3>3, FS_CardinalityType
    <3>5. enricher[e].pc = "send" /\ day = d => e \in Sending(d)
      BY DEF Sending, day
    <3> QED
      BY <3>1, <3>2, <3>3, <3>4, <3>5
  <2>3. CASE UNCHANGED sent
    BY <1>0, <2>1, <2>2, <2>3 DEF BudgetInv
  <2>4. CASE enricher[e].pc = "send" /\ sent' = [sent EXCEPT ![day] = @ + 1]
    <3>1. \A d \in Days : sent'[d] = IF d = day THEN sent[d] + 1 ELSE sent[d]
      BY <1>0, <2>4
    <3> QED
      BY <1>0, <2>1, <2>2, <2>4, <3>1 DEF BudgetInv
  <2> QED
    BY <1>2, <2>3, <2>4
<1> QED
  BY <1>4, <1>5

(* PaperCatalog's BudgetKept, of reserve_openalex_request: for any number of *)
(* processes, whatever they read of the budget before, no day sends more     *)
(* requests than its limit.                                                  *)
THEOREM BudgetKeptCorrect == Spec => []BudgetKept
<1>1. Init => BudgetInv
  <2> SUFFICES ASSUME Init, NEW d \in Days
               PROVE  charged[d] <= RequestLimit /\ sent[d] + Cardinality(Sending(d)) <= charged[d]
    BY DEF BudgetInv
  <2>1. Sending(d) = {}
    BY DEF Init, Sending, Resting
  <2> QED
    BY <2>1, FS_EmptySet, CatalogAssumption DEF Init, CatalogAssumption
<1>2. CatalogInv /\ BudgetInv /\ [Next]_vars => BudgetInv'
  <2> SUFFICES ASSUME CatalogInv, BudgetInv, [Next]_vars
               PROVE  BudgetInv'
    OBVIOUS
  <2>1. ASSUME UNCHANGED <<charged, sent, enricher>>
        PROVE  BudgetInv'
    BY <2>1 DEF BudgetInv, Sending
  <2>2. ASSUME NEW m \in Mergers, FindGroups(m) \/ MergeGroup(m) \/ MergeEnds(m) \/ MergeFails(m)
        PROVE  BudgetInv'
    BY <2>1, <2>2 DEF FindGroups, MergeGroup, MergeEnds, MergeFails, budget
  <2>3. ASSUME \/ \E p \in Papers : \/ \E u \in Urls : SaveLink(p, u)
                                    \/ \E a \in Authors : AddAuthor(p, a)
                                    \/ \E t \in Titles : Rename(p, t)
                                    \/ Climb(p)
               \/ DaysPass
        PROVE  BudgetInv'
    BY <2>1, <2>3 DEF SaveLink, AddAuthor, Rename, Climb, Edit, DaysPass, budget
  <2>4. CASE UNCHANGED vars
    BY <2>1, <2>4 DEF vars, budget
  <2> QED
    BY <2>2, <2>3, <2>4, BudgetStep, CatalogAssumption DEF Next
<1>3. CatalogInv /\ BudgetInv => BudgetKept
  <2> SUFFICES ASSUME CatalogInv, BudgetInv, NEW d \in Days
               PROVE  sent[d] <= RequestLimit
    BY DEF BudgetKept
  <2>1. Cardinality(Sending(d)) \in Nat
    BY SendingFinite, CatalogAssumption DEF Sending
  <2> QED
    BY <2>1, CatalogAssumption DEF BudgetInv, CatalogInv, TypeOK, CatalogAssumption
<1> QED
  BY <1>1, <1>2, <1>3, CatalogInvariant, PTL DEF Spec
=============================================================================
