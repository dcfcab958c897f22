------------------------------ MODULE Audience ------------------------------
(***************************************************************************)
(* Researchers, the merging of those who are one person, the users who     *)
(* follow them, and the weekly digest that tells users of news.            *)
(*                                                                         *)
(* All names share a surname: a name is a first name, numbered by its      *)
(* length.  Saving a paper is one transaction.  A paper is one event, its  *)
(* news.                                                                   *)
(***************************************************************************)
EXTENDS Integers, Sequences, FiniteSets

CONSTANTS
  MaxId,             \* bound on researcher ids
  MaxName,           \* bound on names
  Compatible, Abbreviates, Initials,  \* is_compatible_name, is_abbreviation_of,
                     \* first_name_is_initial_match: the sets of names they hold for
  BadNames,          \* names too malformed for a researcher
  Papers, Byline,    \* Byline[p]: the sequence of names that a page gives a paper
  Pages, PageOf,     \* PageOf[p]: the page that lists it
  Users, Nobody,
  FirstName, FirstPapers, FirstPages,  \* FirstName[r], FirstPapers[r], FirstPages[r]: the rows that are there
  FirstFollows,      \* FirstFollows[u]
  Threshold, WeakThreshold,   \* _SHARED_PAPER_THRESHOLD, _SHARED_PAPER_THRESHOLD_WEAK
  ListLimit,         \* how many ids fit in the 1024 bytes of a GROUP_CONCAT
  Processes,         \* each with its own cache of author ids
  MaxActs,           \* bound on what pages, scripts and users do
  MaxFaults          \* bound on failed transactions, mails and crashes

Ids == 1..MaxId
Names == 1..MaxName
Here == DOMAIN FirstName

ASSUME AudienceAssumption ==
  /\ MaxId \in Nat /\ MaxName \in Nat \ {0}
  /\ \A R \in {Compatible, Abbreviates, Initials} : R \subseteq SUBSET Names
  /\ BadNames \subseteq Names
  /\ Byline \in [Papers -> Seq(Names)] /\ PageOf \in [Papers -> Pages]
  /\ Nobody \notin Users
  /\ (\E n \in 0..MaxId : Here = 1..n) /\ FirstName \in [Here -> Names]
  /\ FirstPapers \in [Here -> SUBSET Papers] /\ FirstPages \in [Here -> SUBSET Pages]
  /\ FirstFollows \in [Users -> SUBSET Here]
  /\ {Threshold, WeakThreshold, ListLimit, MaxActs, MaxFaults} \subseteq Nat

VARIABLES
  name,          \* name[r]: the first name of a researcher, 0 where there is none
  nextId,        \* AUTO_INCREMENT, which a rollback does not turn back
  authorship,    \* <<researcher, paper>>
  sites,         \* researcher_urls: <<researcher, page>>
  cache,         \* cache[proc][n]: _author_id_cache, 0 without an entry
  job,           \* job[proc]: the paper that a process saves, see Job
  news,          \* papers with an event
  follows,       \* <<user, researcher>>
  prefs,         \* prefs[u]: "none" without a row, "on" or "off"
  asking,        \* users whose request for their preferences found no row
  delivered,     \* digest_deliveries: <<user, paper>>
  digest,        \* the digest job
  told,          \* history: told[u][p]: mails that carried the news
  acts, faults

directory == <<name, nextId, authorship, sites, cache, job, news>>
members == <<follows, prefs, asking>>
mailing == <<delivered, digest, told>>
vars == <<directory, members, mailing, acts, faults>>

ids == {r \in Ids : name[r] # 0}

\* view: the names as the transaction sees them from its first read on; kept and
\* gone: the pair that is merged after it.
Job == [pc : {"idle", "saving", "saved", "merging"}, paper : Papers \cup {Nobody},
        view : [Ids -> 0..MaxName], kept : 0..MaxId, gone : 0..MaxId]

Unseen == [r \in Ids |-> 0]
Idle == [pc |-> "idle", paper |-> Nobody, view |-> Unseen, kept |-> 0, gone |-> 0]
Off == [pc |-> "off", todo |-> {}, user |-> Nobody, ids |-> {}, events |-> {}]

TypeOK ==
  /\ name \in [Ids -> 0..MaxName] /\ nextId \in 1..MaxId + 1
  /\ authorship \subseteq ids \X Papers
  /\ sites \subseteq ids \X Pages
  /\ cache \in [Processes -> [Names -> 0..MaxId]]
  /\ job \in [Processes -> Job]
  /\ news \subseteq Papers
  /\ follows \subseteq Users \X ids
  /\ prefs \in [Users -> {"none", "on", "off"}] /\ asking \subseteq Users
  /\ delivered \subseteq Users \X Papers
  /\ digest \in [pc : {"off", "next", "send", "record"}, todo : SUBSET [user : Users, ids : SUBSET Ids],
                 user : Users \cup {Nobody}, ids : SUBSET Ids, events : SUBSET Papers]
  /\ told \in [Users -> [Papers -> Nat]]
  /\ acts \in 0..MaxActs /\ faults \in 0..MaxFaults

Init ==
  /\ name = [r \in Ids |-> IF r \in Here THEN FirstName[r] ELSE 0]
  /\ nextId = Cardinality(Here) + 1
  /\ authorship = UNION {{r} \X FirstPapers[r] : r \in Here}
  /\ sites = UNION {{r} \X FirstPages[r] : r \in Here}
  /\ cache = [proc \in Processes |-> [n \in Names |-> 0]]
  /\ job = [proc \in Processes |-> Idle]
  /\ news = {}
  /\ follows = UNION {{u} \X FirstFollows[u] : u \in Users}
  /\ prefs = [u \in Users |-> "none"] /\ asking = {}
  /\ delivered = {} /\ digest = Off
  /\ told = [u \in Users |-> [p \in Papers |-> 0]]
  /\ acts = 0 /\ faults = 0

Acts == acts < MaxActs /\ acts' = acts + 1 /\ UNCHANGED faults
Fault == faults < MaxFaults /\ faults' = faults + 1

Fit(m, n) == m # n /\ {m, n} \in Compatible
Longer(m, n) == IF m > n THEN m ELSE n

---------------------------------------------------------------------------
(* Saving a paper. *)

Exact(view, n) == {r \in Ids : view[r] = n}
Fitting(view, n) == {r \in Ids : view[r] # 0 /\ Fit(n, view[r])}

\* get_researcher_id: a row of that name, else the only row of a name that fits,
\* else what the LLM picks among the rows, or a new row.
Researcher(view, n, inserted, new) ==
  IF Exact(view, n) # {} THEN Exact(view, n)
  ELSE IF Cardinality(Fitting(view, n)) = 1 THEN Fitting(view, n)
  ELSE {r \in Ids : view[r] # 0} \cup inserted \cup {new}

\* The authors before i who were resolved and whose names fit.
Earlier(names, by, i) ==
  {j \in 1..i - 1 : by[j] # 0 /\ (names[j] = names[i] \/ Fit(names[i], names[j]))}

\* Who is meant by each position of the byline: an earlier author whose name fits,
\* else the cache, else the researcher that is found or inserted.
Resolved(proc, names, by) ==
  \A i \in DOMAIN names :
    LET earlier == Earlier(names, by, i)
        inserted == {by[j] : j \in 1..i - 1} \cap {r \in Ids : r >= nextId}
    IN IF earlier # {} THEN by[i] \in {by[j] : j \in earlier}
       ELSE IF cache[proc][names[i]] # 0 THEN by[i] = cache[proc][names[i]]
       ELSE IF names[i] \in BadNames THEN by[i] = 0
       ELSE by[i] \in Researcher(job[proc].view, names[i], inserted, nextId + Cardinality(inserted))

\* The cache learns who was found or inserted.
Remember(proc, names, by) ==
  cache' = [cache EXCEPT ![proc] = [n \in Names |->
              LET at == {i \in DOMAIN names : names[i] = n /\ Earlier(names, by, i) = {}}
              IN IF at = {} THEN @[n] ELSE by[CHOOSE i \in at : TRUE]]]

\* The owner of the page, unless an author's name fits: the byline need not be complete.
Owners(view, p, names, by) ==
  {r \in ids : /\ view[r] # 0 /\ <<r, PageOf[p]>> \in sites
               /\ \A i \in DOMAIN names : by[i] # 0 => names[i] # view[r] /\ ~Fit(view[r], names[i])}

BeginSave(proc, p) ==
  /\ Acts /\ job[proc] = Idle
  /\ job' = [job EXCEPT ![proc] = [Idle EXCEPT !.pc = "saving", !.paper = p, !.view = name]]
  /\ UNCHANGED <<name, nextId, authorship, sites, cache, news, members, mailing>>

\* The rows that the transaction inserts, and the name in each: its first.
Inserted(by) == {r \in Ids : r >= nextId /\ \E i \in DOMAIN by : by[i] = r}
NameOf(names, by, r) == names[CHOOSE i \in DOMAIN by : by[i] = r /\ \A j \in 1..i - 1 : by[j] # r]

\* The positions whose name a row takes: it was found by one that fits, and is longer.
LongerNames(proc, names, by, r) ==
  LET view == job[proc].view
  IN {i \in DOMAIN by : /\ by[i] = r /\ cache[proc][names[i]] = 0 /\ Earlier(names, by, i) = {}
                        /\ Exact(view, names[i]) = {} /\ Fitting(view, names[i]) = {r}
                        /\ names[i] > view[r]}

\* The transaction commits.  It credits whoever it resolved and whose row is still
\* there (INSERT IGNORE).
SavePaper(proc) ==
  LET p == job[proc].paper
      names == Byline[p]
  IN /\ job[proc].pc = "saving"
     /\ \E by \in [DOMAIN names -> 0..MaxId] :
          /\ Resolved(proc, names, by)
          /\ name' = [r \in Ids |->
               IF r \in Inserted(by) THEN NameOf(names, by, r)
               ELSE IF r \in ids /\ LongerNames(proc, names, by, r) # {}
                    THEN names[CHOOSE i \in LongerNames(proc, names, by, r) : TRUE]
               ELSE name[r]]
          /\ nextId' = nextId + Cardinality(Inserted(by))
          /\ \E owner \in {{}} \cup {{r} : r \in Owners(job[proc].view, p, names, by)} :
               authorship' = authorship \cup
                 ((({by[i] : i \in DOMAIN by} \cup owner) \cap (ids \cup Inserted(by))) \X {p})
          /\ Remember(proc, names, by)
     /\ job' = [job EXCEPT ![proc] = [Idle EXCEPT !.pc = "saved", !.paper = p]]
     /\ news' = news \cup {p}
  /\ UNCHANGED <<sites, members, mailing, acts, faults>>

\* The transaction is rolled back, but not the cache.
SaveFails(proc) ==
  LET names == Byline[job[proc].paper] IN
  /\ Fault /\ job[proc].pc = "saving"
  /\ \E by \in [DOMAIN names -> 0..MaxId] :
       /\ Resolved(proc, names, by)
       /\ nextId' = nextId + Cardinality(Inserted(by))
       /\ Remember(proc, names, by)
  /\ job' = [job EXCEPT ![proc] = Idle]
  /\ UNCHANGED <<name, authorship, sites, news, members, mailing, acts>>

Restart(proc) ==
  /\ Fault
  /\ cache' = [cache EXCEPT ![proc] = [n \in Names |-> 0]]
  /\ job' = [job EXCEPT ![proc] = Idle]
  /\ UNCHANGED <<name, nextId, authorship, sites, news, members, mailing, acts>>

---------------------------------------------------------------------------
(* Merging researchers. *)

\* Mutant: the followers of the duplicate go with its row.
MergeWithoutFollowers(kept, gone) ==
  LET here(r) == IF r = gone THEN kept ELSE r
  IN /\ kept # gone /\ {kept, gone} \subseteq ids
     /\ name' = [name EXCEPT ![kept] = Longer(@, name[gone]), ![gone] = 0]
     /\ authorship' = {<<here(a[1]), a[2]>> : a \in authorship}
     /\ follows' = {f \in follows : f[2] # gone}
     /\ sites' = {s \in sites : s[1] # gone}

\* merge_researchers, one transaction that fails when a row is gone: what the
\* duplicate wrote and who follows it pass to the other row; its websites go with it.
MergeResearchers(kept, gone) ==
  LET here(r) == IF r = gone THEN kept ELSE r
  IN /\ kept # gone /\ {kept, gone} \subseteq ids
     /\ name' = [name EXCEPT ![kept] = Longer(@, name[gone]), ![gone] = 0]
     /\ authorship' = {<<here(a[1]), a[2]>> : a \in authorship}
     /\ follows' = {<<f[1], here(f[2])>> : f \in follows}
     /\ sites' = {s \in sites : s[1] # gone}

Shared(r, q) == Cardinality({p \in Papers : {<<r, p>>, <<q, p>>} \subseteq authorship})
PagesOf(r) == {s[2] : s \in {t \in sites : t[1] = r}}
ConflictingPages(r, q) == PagesOf(r) # {} /\ PagesOf(q) # {} /\ PagesOf(r) \cap PagesOf(q) = {}

\* Two authors of a paper who share enough papers are one person.
SamePerson(r, q) ==
  \/ (name[r] = name[q] \/ Fit(name[r], name[q])) /\ Shared(r, q) >= Threshold
  \/ /\ {name[r], name[q]} \in Abbreviates /\ Shared(r, q) >= WeakThreshold
     /\ ~ConflictingPages(r, q)

\* The second layer: after a paper is saved, the first such pair of its authors is
\* read, and the longer name stays.
PickPair(proc) ==
  LET p == job[proc].paper
      pairs == {pair \in ids \X ids :
                  /\ pair[1] # pair[2] /\ SamePerson(pair[1], pair[2]) /\ name[pair[1]] >= name[pair[2]]
                  /\ {<<pair[1], p>>, <<pair[2], p>>} \subseteq authorship}
  IN /\ job[proc].pc = "saved"
     /\ \/ pairs = {} /\ job' = [job EXCEPT ![proc] = Idle]
        \/ \E pair \in pairs :
             job' = [job EXCEPT ![proc] = [Idle EXCEPT !.pc = "merging", !.kept = pair[1], !.gone = pair[2]]]
     /\ UNCHANGED <<name, nextId, authorship, sites, cache, news, members, mailing, acts, faults>>

\* Mutant: the pair is merged although another merge removed a row of it.
MergeAuthorsUnchecked(proc) ==
  /\ job[proc].pc = "merging"
  /\ LET here(r) == IF r = job[proc].gone THEN job[proc].kept ELSE r
     IN /\ name' = [name EXCEPT ![job[proc].gone] = 0]
        /\ authorship' = {<<here(a[1]), a[2]>> : a \in authorship}
        /\ UNCHANGED <<sites, follows>>
  /\ job' = [job EXCEPT ![proc] = Idle]
  /\ UNCHANGED <<nextId, cache, news, prefs, asking, mailing, acts, faults>>

MergeAuthors(proc) ==
  /\ job[proc].pc = "merging"
  /\ \/ MergeResearchers(job[proc].kept, job[proc].gone)
     \/ ~({job[proc].kept, job[proc].gone} \subseteq ids) /\ UNCHANGED <<name, authorship, sites, follows>>
  /\ job' = [job EXCEPT ![proc] = Idle]
  /\ UNCHANGED <<nextId, cache, news, prefs, asking, mailing, acts, faults>>

\* The script for initials: a pair that matches nobody else, so that the pairs it
\* reads first are disjoint; the row with websites stays, else the older.
MergeInitials(r, q) ==
  LET matches(x) == {y \in ids \ {x} : {name[x], name[y]} \in Initials}
  IN /\ Acts /\ {r, q} \subseteq ids /\ matches(r) = {q} /\ matches(q) = {r}
     /\ IF PagesOf(r) = {} <=> PagesOf(q) = {} THEN r < q ELSE PagesOf(r) # {}
     /\ MergeResearchers(r, q)
     /\ UNCHANGED <<nextId, cache, job, news, prefs, asking, mailing>>

\* A row of the CSV: the researcher of the name, and a page of theirs.
ImportRow(n, page) ==
  /\ Acts /\ n \notin BadNames
  /\ \E r \in Researcher(name, n, {}, nextId) \cap Ids :
       /\ nextId' = IF r = nextId THEN nextId + 1 ELSE nextId
       /\ name' = [name EXCEPT ![r] = IF r = nextId \/ (Exact(name, n) = {} /\ Fitting(name, n) = {r})
                                      THEN Longer(@, n) ELSE @]
       /\ sites' = sites \cup {<<r, page>>}
  /\ UNCHANGED <<authorship, cache, job, news, members, mailing>>

---------------------------------------------------------------------------
(* Users. *)

Follow(u, r) ==
  /\ Acts /\ r \in ids
  /\ follows' = follows \cup {<<u, r>>}
  /\ UNCHANGED <<directory, prefs, asking, mailing>>

Unfollow(u, r) ==
  /\ Acts /\ <<u, r>> \in follows
  /\ follows' = follows \ {<<u, r>>}
  /\ UNCHANGED <<directory, prefs, asking, mailing>>

\* The request for the preferences of a user: a row is inserted when none was
\* found, which fails when another request inserted one meanwhile.
AskPrefs(u) ==
  /\ prefs[u] = "none" /\ u \notin asking
  /\ asking' = asking \cup {u}
  /\ UNCHANGED <<directory, follows, prefs, mailing, acts, faults>>

\* Mutant: the default replaces what was chosen since.
DefaultPrefsAnyhow(u) ==
  /\ u \in asking
  /\ prefs' = [prefs EXCEPT ![u] = "on"]
  /\ asking' = asking \ {u}
  /\ UNCHANGED <<directory, follows, mailing, acts, faults>>

DefaultPrefs(u) ==
  /\ u \in asking
  /\ prefs' = [prefs EXCEPT ![u] = IF @ = "none" THEN "on" ELSE @]
  /\ asking' = asking \ {u}
  /\ UNCHANGED <<directory, follows, mailing, acts, faults>>

\* INSERT ... ON DUPLICATE KEY UPDATE.
SetPrefs(u, choice) ==
  /\ Acts
  /\ prefs' = [prefs EXCEPT ![u] = choice]
  /\ UNCHANGED <<directory, follows, asking, mailing>>

\* The link in a digest: its token names the user and never expires.
Unsubscribe(u) == SetPrefs(u, "off")

---------------------------------------------------------------------------
(* The digest. *)

Followed(u) == {r \in ids : <<u, r>> \in follows}

Recipients == {u \in Users : prefs[u] = "on" /\ Followed(u) # {}}

\* What the query gives for a user: everybody they follow, or, when the list is too
\* long, those who come first and perhaps the digits that are left of another id.
Lists(u) ==
  IF Cardinality(Followed(u)) <= ListLimit THEN {Followed(u)}
  ELSE {kept \cup wrong : kept \in {K \in SUBSET Followed(u) : Cardinality(K) = ListLimit},
                         wrong \in {{}} \cup {{r} : r \in Ids}}

ListsFit == \A u \in Recipients : Cardinality(Followed(u)) <= ListLimit

\* A list that is cut after a comma raises, for everybody: no digest starts.
StartDigest ==
  /\ digest = Off /\ Recipients # {}
  /\ \E list \in [Recipients -> SUBSET Ids] :
       /\ \A u \in Recipients : list[u] \in Lists(u)
       /\ digest' = [Off EXCEPT !.pc = "next",
                                !.todo = {[user |-> u, ids |-> list[u]] : u \in Recipients}]
  /\ UNCHANGED <<directory, members, delivered, told, acts, faults>>

\* Mutant: the ledger is not asked.
AllNewsOf(u, rs) == {p \in news : \E r \in rs : <<r, p>> \in authorship}

\* The events of the followed researchers' papers that the ledger does not have.
Undelivered(u, rs) ==
  {p \in news : <<u, p>> \notin delivered /\ \E r \in rs : <<r, p>> \in authorship}

NextRecipient ==
  /\ digest.pc = "next"
  /\ \/ \E row \in digest.todo :
          LET events == Undelivered(row.user, row.ids)
          IN digest' = IF events = {} THEN [digest EXCEPT !.todo = @ \ {row}]
                       ELSE [digest EXCEPT !.pc = "send", !.todo = @ \ {row}, !.user = row.user,
                                           !.ids = row.ids, !.events = events]
     \/ digest.todo = {} /\ digest' = Off
  /\ UNCHANGED <<directory, members, delivered, told, acts, faults>>

Send ==
  /\ digest.pc = "send"
  /\ told' = [told EXCEPT ![digest.user] =
                [p \in Papers |-> IF p \in digest.events THEN @[p] + 1 ELSE @[p]]]
  /\ digest' = [digest EXCEPT !.pc = "record"]
  /\ UNCHANGED <<directory, members, delivered, acts, faults>>

\* Mutant: a mail that failed is recorded as sent.
SendFailsRecorded ==
  /\ digest.pc = "send" /\ Fault
  /\ digest' = [digest EXCEPT !.pc = "record"]
  /\ UNCHANGED <<directory, members, delivered, told, acts>>

\* No mail went out, and nothing is recorded.
SendFails ==
  /\ digest.pc = "send" /\ Fault
  /\ digest' = [digest EXCEPT !.pc = "next", !.events = {}]
  /\ UNCHANGED <<directory, members, delivered, told, acts>>

\* One transaction for exactly the events that were sent.
Record ==
  /\ digest.pc = "record"
  /\ delivered' = delivered \cup ({digest.user} \X digest.events)
  /\ digest' = [digest EXCEPT !.pc = "next", !.events = {}]
  /\ UNCHANGED <<directory, members, told, acts, faults>>

\* An error in a query or in the record ends the job, as a crash does.
DigestDies ==
  /\ digest # Off /\ Fault
  /\ digest' = Off
  /\ UNCHANGED <<directory, members, delivered, told, acts>>

Mail == StartDigest \/ NextRecipient \/ Send \/ Record

Next ==
  \/ \E proc \in Processes : \/ \E p \in Papers : BeginSave(proc, p)
                             \/ SavePaper(proc) \/ SaveFails(proc) \/ Restart(proc)
                             \/ PickPair(proc) \/ MergeAuthors(proc)
  \/ \E r, q \in Ids : MergeInitials(r, q)
  \/ \E n \in Names, page \in Pages : ImportRow(n, page)
  \/ \E u \in Users : \/ \E r \in Ids : Follow(u, r) \/ Unfollow(u, r)
                      \/ AskPrefs(u) \/ DefaultPrefs(u)
                      \/ Unsubscribe(u)
                      \/ \E choice \in {"on", "off"} : SetPrefs(u, choice)
  \/ Mail \/ SendFails \/ DigestDies

Spec == Init /\ [][Next]_vars

\* The scheduler starts the digest every week, in vain for as long as a list raises.
FairSpec == Spec /\ WF_vars(Mail /\ (digest = Off => ListsFit))

---------------------------------------------------------------------------
(* Properties. *)

\* No credit is lost and no follower: whoever wrote a paper, or is followed, is so
\* for ever, or the row that the researcher was merged into is.
CreditKept ==
  [][\A r \in ids :
       \/ /\ r \in ids'
          /\ \A p \in Papers : <<r, p>> \in authorship => <<r, p>> \in authorship'
       \/ \E q \in ids' :
            /\ \A p \in Papers : <<r, p>> \in authorship => <<q, p>> \in authorship'
            /\ \A u \in Users : <<u, r>> \in follows => <<u, q>> \in follows']_vars

\* Who opted out stays out until they choose otherwise, although a request for
\* the preferences that found no row may insert the default at any time.
OptOutStands ==
  [][\A u \in Users : prefs[u] = "off" /\ prefs'[u] = "on" => asking' = asking /\ acts' # acts]_vars

\* Nobody is told the same news twice, but for mails whose record failed.
ToldOnce == \A u \in Users, p \in Papers : told[u][p] <= 1 + faults

Wants(u, p) ==
  /\ prefs[u] = "on" /\ p \in news
  /\ \E r \in ids : <<u, r>> \in follows /\ <<r, p>> \in authorship

\* News of a researcher one follows arrive, through merges of researchers, failed
\* mails and jobs that die, as long as no recipient follows more researchers than
\* the query lists.
NewsArrive ==
  \A u \in Users, p \in Papers : Wants(u, p) ~> (told[u][p] > 0 \/ ~Wants(u, p) \/ ~ListsFit)
=============================================================================
