--------------------------- MODULE ScrapeLockProofs ---------------------------
(***************************************************************************)
(* Theorems of ScrapeLock, for any number of processes, threads,            *)
(* connections, URLs, runs and faults.                                     *)
(***************************************************************************)
EXTENDS ScrapeLock, TLAPS, SequenceTheorems

(* What the types alone do not say about the threads' variables.            *)
Shape ==
  /\ \A t \in Threads :
       /\ run[t].pc \in {"idle", "start"} =>
            run[t].conn = NoConn /\ run[t].drop = NoConn /\ run[t].log = 0
       /\ run[t].pc \in {"locked", "log"} => run[t].log = 0
       /\ run[t].pc \in {"loop", "fetch", "drafts", "closing", "failing"} =>
            run[t].log \in 1..Len(rows)
       /\ t \in Cli => run[t].pc # "locked"
       /\ run[t].pc = "fetch" => run[t].left > 0
  /\ keeper.pc = "idle" => keeper = KeeperIdle
  /\ keeper.pc # "idle" => keeper.old # NoConn
  /\ cleaner.pc \in {"force", "forget", "kill"} => cleaner.row \in 1..Len(rows)

TypeInv == TypeOK /\ Shape

(* Changing one row leaves scrape_log a log of the same length.              *)
LEMMA SetRow ==
  ASSUME rows \in Seq(Row), NEW i \in 1..Len(rows), NEW r \in Row
  PROVE  /\ [rows EXCEPT ![i] = r] \in Seq(Row)
         /\ Len([rows EXCEPT ![i] = r]) = Len(rows)
  BY ExceptSeq, LenProperties

(* Every row of scrape_log has the type of a row.                            *)
LEMMA RowType ==
  ASSUME rows \in Seq(Row), NEW i \in 1..Len(rows)
  PROVE  rows[i] \in Row
  BY ElementOfSeq

(* Setting one row's status leaves scrape_log a log of the same length.       *)
LEMMA SetStatus ==
  ASSUME rows \in Seq(Row), NEW i \in 1..Len(rows), NEW s \in {"running", "completed", "failed"},
         rows' = [rows EXCEPT ![i].status = s]
  PROVE  rows' \in Seq(Row) /\ Len(rows') = Len(rows)
<1>1. [rows[i] EXCEPT !.status = s] \in Row
  BY RowType DEF Row
<1>2. rows' = [rows EXCEPT ![i] = [rows[i] EXCEPT !.status = s]]
  OBVIOUS
<1> QED
  BY <1>1, <1>2, SetRow

(* What RELEASE_LOCK and close do to the server's state.                    *)
LEMMA ReleasesType ==
  ASSUME TypeOK, NEW c \in Optional, Releases(c)
  PROVE  holder' \in Optional /\ session' \in [Conns -> {"closed", "up", "cut"}]
  BY DEF TypeOK, Releases, Optional

(* What GET_LOCK does to the server's state.                                *)
LEMMA LocksType ==
  ASSUME TypeOK, NEW c \in Conns, Locks(c)
  PROVE  holder' \in Optional /\ session' \in [Conns -> {"closed", "up", "cut"}]
  BY DEF TypeOK, Locks, Optional

(* One thread's run changes.                                               *)
LEMMA SetRun ==
  ASSUME TypeInv, NEW t \in Threads, NEW r \in Run, run' = [run EXCEPT ![t] = r],
         rows' \in Seq(Row), Len(rows') >= Len(rows),
         UNCHANGED <<keeper, cleaner>>,
         r.pc \in {"idle", "start"} => r.conn = NoConn /\ r.drop = NoConn /\ r.log = 0,
         r.pc \in {"locked", "log"} => r.log = 0,
         r.pc \in {"loop", "fetch", "drafts", "closing", "failing"} => r.log \in 1..Len(rows'),
         t \in Cli => r.pc # "locked",
         r.pc = "fetch" => r.left > 0
  PROVE  run' \in [Threads -> Run] /\ Shape'
<1>1. run' \in [Threads -> Run]
  BY DEF TypeInv, TypeOK
<1>2. run'[t] = r /\ \A u \in Threads : u # t => run'[u] = run[u]
  BY DEF TypeInv, TypeOK
<1>3. Len(rows) \in Nat /\ Len(rows') \in Nat
  BY LenProperties DEF TypeInv, TypeOK
<1> QED
  BY <1>1, <1>2, <1>3 DEF TypeInv, Shape

(* A step that only moves a thread from one program counter to another.      *)
LEMMA GotoType ==
  ASSUME TypeInv, NEW t \in Threads, NEW pc \in Working \cup {"start", "drop"},
         Goto(t, pc), UNCHANGED <<rows, keeper, cleaner>>,
         pc = "start" => run[t].pc = "idle",
         pc = "log" => run[t].log = 0,
         pc \in {"loop", "fetch", "drafts", "closing", "failing"} => run[t].log \in 1..Len(rows),
         pc = "fetch" => run[t].left > 0
  PROVE  run' \in [Threads -> Run] /\ Shape'
<1> DEFINE r == [run[t] EXCEPT !.pc = pc]
<1>1. run[t] \in Run
  BY DEF TypeInv, TypeOK
<1>2. r \in Run
  BY <1>1 DEF Run
<1>3. /\ r.pc = pc /\ r.log = run[t].log /\ r.left = run[t].left
      /\ r.conn = run[t].conn /\ r.drop = run[t].drop
  BY <1>1 DEF Run
<1>4. run' = [run EXCEPT ![t] = r]
  BY DEF Goto, TypeInv, TypeOK
<1>5. rows' \in Seq(Row) /\ Len(rows') >= Len(rows)
  BY LenProperties DEF TypeInv, TypeOK
<1>6. pc = "start" => r.conn = NoConn /\ r.drop = NoConn /\ r.log = 0
  BY <1>3 DEF TypeInv, Shape
<1>7. pc # "idle" /\ pc # "locked"
  BY DEF Working
<1> HIDE DEF r
<1> QED
  BY <1>2, <1>3, <1>4, <1>5, <1>6, <1>7, SetRun

(* The run of a thread ends.                                               *)
LEMMA IdleType ==
  ASSUME TypeInv, NEW t \in Threads, run' = [run EXCEPT ![t] = RunIdle],
         UNCHANGED <<rows, keeper, cleaner>>
  PROVE  run' \in [Threads -> Run] /\ Shape'
<1>1. RunIdle \in Run
  BY LockAssumption DEF RunIdle, Run, Optional
<1>2. rows' \in Seq(Row) /\ Len(rows') >= Len(rows)
  BY LenProperties DEF TypeInv, TypeOK
<1>3. /\ RunIdle.pc = "idle" /\ RunIdle.conn = NoConn /\ RunIdle.drop = NoConn
      /\ RunIdle.log = 0
  BY DEF RunIdle
<1> HIDE DEF RunIdle
<1> QED
  BY <1>1, <1>2, <1>3, SetRun

(* The types hold initially.                                               *)
LEMMA InitType == Init => TypeInv
<1> SUFFICES ASSUME Init PROVE TypeInv
  OBVIOUS
<1> USE LockAssumption
<1>1. /\ holder \in Optional
      /\ session \in [Conns -> {"closed", "up", "cut"}]
      /\ lockConn \in [Procs -> Optional]
      /\ lost \in [Procs -> BOOLEAN]
      /\ faults \in 0..MaxFaults
      /\ disorder \subseteq {"cut", "forced", "unchecked"}
  BY DEF Init, Optional
<1>2. run \in [Threads -> Run]
  BY DEF Init, Run, RunIdle, Optional
<1>3. rows \in Seq(Row)
  BY EmptySeq DEF Init
<1>4. keeper \in [pc : {"idle", "ping", "reopen", "swap"}, old : Optional, new : Optional]
  BY DEF Init, KeeperIdle, Optional
<1>5. cleaner \in [pc : {"idle", "query", "force", "forget", "kill", "check", "sweep"},
                   row : Nat, held : BOOLEAN, seen : Nat]
  BY DEF Init, CleanerIdle
<1>6. Shape
  BY DEF Init, Shape, RunIdle, KeeperIdle, CleanerIdle
<1> QED
  BY <1>1, <1>2, <1>3, <1>4, <1>5, <1>6 DEF TypeInv, TypeOK

(* Shape reads only four of the variables.                                  *)
LEMMA ShapeSame ==
  ASSUME TypeInv, UNCHANGED <<run, rows, keeper, cleaner>>
  PROVE  Shape'
  BY DEF TypeInv, Shape

(* The steps of the server, the clock and the network preserve the types.     *)
LEMMA ServerType ==
  ASSUME TypeInv, NEW c \in Conns, Cut(c) \/ ServerDrops(c) \/ Collect(c)
  PROVE  TypeInv'
<1>1. UNCHANGED <<lockConn, lost, run, rows, keeper, cleaner>>
  BY DEF Cut, ServerDrops, Collect
<1>2. Shape'
  BY <1>1, ShapeSame
<1>3. CASE Cut(c)
  BY <1>1, <1>2, <1>3, LockAssumption DEF Cut, Fault, TypeInv, TypeOK
<1>4. CASE ServerDrops(c)
  BY <1>1, <1>2, <1>4 DEF ServerDrops, TypeInv, TypeOK, Optional
<1>5. CASE Collect(c)
  <2>1. holder' \in Optional /\ session' \in [Conns -> {"closed", "up", "cut"}]
    BY <1>5, ReleasesType DEF Collect, Optional, TypeInv
  <2> QED
    BY <1>1, <1>2, <1>5, <2>1 DEF Collect, TypeInv, TypeOK
<1> QED
  BY <1>3, <1>4, <1>5

(* A row of scrape_log that ages keeps its type.                             *)
LEMMA AgeType ==
  ASSUME TypeInv, NEW i \in 1..Len(rows), Age(i)
  PROVE  TypeInv'
<1>1. PICK a \in Ages : rows' = [rows EXCEPT ![i].age = a]
  BY DEF Age, Ages
<1>2. [rows[i] EXCEPT !.age = a] \in Row
  BY RowType DEF Row, TypeInv, TypeOK
<1>3. rows' = [rows EXCEPT ![i] = [rows[i] EXCEPT !.age = a]]
  BY <1>1
<1>4. rows' \in Seq(Row) /\ Len(rows') = Len(rows)
  BY <1>2, <1>3, SetRow DEF TypeInv, TypeOK
<1>5. UNCHANGED <<holder, session, lockConn, lost, run, keeper, cleaner, faults, disorder>>
  BY DEF Age
<1>6. Shape'
  BY <1>4, <1>5 DEF TypeInv, Shape
<1> QED
  BY <1>4, <1>5, <1>6 DEF TypeInv, TypeOK

(* What a record of a run becomes when one of its fields changes.            *)
LEMMA RunFields ==
  \A r \in Run :
    /\ \A p \in Working : /\ [r EXCEPT !.pc = p] \in Run
                           /\ [r EXCEPT !.pc = p].pc = p
                           /\ [r EXCEPT !.pc = p].log = r.log
    /\ \A l \in Nat : /\ [r EXCEPT !.log = l] \in Run
                       /\ [r EXCEPT !.log = l].pc = r.pc
                       /\ [r EXCEPT !.log = l].log = l
    /\ \A k \in 0..MaxUrls : /\ [r EXCEPT !.left = k] \in Run
                              /\ [r EXCEPT !.left = k].pc = r.pc
                              /\ [r EXCEPT !.left = k].log = r.log
<1> DEFINE PC == Working \cup {"idle", "start", "locked", "drop", "release"}
           U == 0..MaxUrls
<1>1. Run = [pc : PC, conn : Optional, log : Nat, left : U, drop : Optional]
  BY DEF Run
<1>2. \A p \in Working : p \in PC
  OBVIOUS
<1> HIDE DEF PC, U
<1>3. \A r \in Run, p \in Working : /\ [r EXCEPT !.pc = p] \in Run
                                    /\ [r EXCEPT !.pc = p].pc = p
                                    /\ [r EXCEPT !.pc = p].log = r.log
  BY <1>1, <1>2
<1>4. \A r \in Run, l \in Nat : /\ [r EXCEPT !.log = l] \in Run
                                /\ [r EXCEPT !.log = l].pc = r.pc
                                /\ [r EXCEPT !.log = l].log = l
  BY <1>1
<1>5. \A r \in Run, k \in U : /\ [r EXCEPT !.left = k] \in Run
                              /\ [r EXCEPT !.left = k].pc = r.pc
                              /\ [r EXCEPT !.left = k].log = r.log
  BY <1>1
<1> QED
  BY <1>3, <1>4, <1>5 DEF U

(* A thread acquires the lock.                                             *)
LEMMA AcquireType ==
  ASSUME TypeInv, NEW t \in Threads, Acquire(t)
  PROVE  TypeInv'
<1>1. PICK c \in Conns :
        /\ Locks(c)
        /\ run' = [run EXCEPT ![t].pc = IF t \in Cli THEN "log" ELSE "locked", ![t].conn = c]
  BY DEF Acquire
<1>2. UNCHANGED <<lockConn, lost, rows, keeper, cleaner, faults, disorder>>
  BY DEF Acquire
<1> DEFINE pc == IF t \in Cli THEN "log" ELSE "locked"
           r == [run[t] EXCEPT !.pc = pc, !.conn = c]
<1>3. run[t] \in Run /\ run[t].log = 0 /\ run[t].pc = "start"
  BY DEF TypeInv, TypeOK, Shape, Acquire, At
<1>4. r \in Run /\ r.pc = pc /\ r.log = 0
  BY <1>3 DEF Run, Working, Optional
<1>5. run' = [run EXCEPT ![t] = r]
  BY <1>1 DEF TypeInv, TypeOK
<1>6. rows' \in Seq(Row) /\ Len(rows') >= Len(rows)
  BY <1>2, LenProperties DEF TypeInv, TypeOK
<1>7. pc \in {"log", "locked"} /\ (t \in Cli => pc # "locked")
  OBVIOUS
<1>8. run' \in [Threads -> Run] /\ Shape'
  <2> HIDE DEF r, pc
  <2> QED
    BY <1>2, <1>4, <1>5, <1>6, <1>7, SetRun
<1>9. holder' \in Optional /\ session' \in [Conns -> {"closed", "up", "cut"}]
  BY <1>1, LocksType DEF TypeInv
<1> QED
  BY <1>2, <1>8, <1>9 DEF TypeInv, TypeOK

(* It creates its row of scrape_log.                                        *)
LEMMA CreateLogType ==
  ASSUME TypeInv, NEW t \in Threads, CreateLog(t)
  PROVE  TypeInv'
<1>1. PICK n \in 0..MaxUrls :
        run' = [run EXCEPT ![t].pc = "loop", ![t].log = Len(rows) + 1, ![t].left = n]
  BY DEF CreateLog
<1>2. /\ rows' = Append(rows, [status |-> "running", age |-> "young"])
      /\ UNCHANGED <<holder, session, lockConn, lost, keeper, cleaner, faults, disorder>>
  BY DEF CreateLog
<1> DEFINE r == [run[t] EXCEPT !.pc = "loop", !.log = Len(rows) + 1, !.left = n]
<1>3. run[t] \in Run
  BY DEF TypeInv, TypeOK
<1>4. Len(rows) \in Nat
  BY LenProperties DEF TypeInv, TypeOK
<1>5. r \in Run /\ r.pc = "loop" /\ r.log = Len(rows) + 1
  <2> DEFINE q == [run[t] EXCEPT !.pc = "loop"]
             s == [q EXCEPT !.log = Len(rows) + 1]
  <2>1. Len(rows) + 1 \in Nat /\ "loop" \in Working
    BY <1>4 DEF Working
  <2>2. q \in Run /\ q.pc = "loop"
    BY <1>3, <2>1, RunFields, Zenon
  <2>3. s \in Run /\ s.pc = "loop" /\ s.log = Len(rows) + 1
    <3> HIDE DEF q
    <3> QED
      BY <2>1, <2>2, RunFields, Zenon DEF s
  <2>4. r = [s EXCEPT !.left = n]
    OBVIOUS
  <2> HIDE DEF r, s, q
  <2> QED
    BY <2>3, <2>4, RunFields, Zenon
<1>6. run' = [run EXCEPT ![t] = r]
  BY <1>1 DEF TypeInv, TypeOK
<1>7. [status |-> "running", age |-> "young"] \in Row
  BY DEF Row, Ages
<1>8. rows' \in Seq(Row) /\ Len(rows') = Len(rows) + 1
  BY <1>2, <1>7 DEF TypeInv, TypeOK
<1>9. run' \in [Threads -> Run] /\ Shape'
  <2>1. UNCHANGED <<keeper, cleaner>>
    BY <1>2
  <2>2. r.log \in 1..Len(rows') /\ Len(rows') >= Len(rows)
    BY <1>4, <1>5, <1>8
  <2> HIDE DEF r
  <2> QED
    BY <1>5, <1>6, <1>8, <2>1, <2>2, SetRun
<1> QED
  BY <1>2, <1>8, <1>9 DEF TypeInv, TypeOK

(* It fetches a page.                                                      *)
LEMMA FetchedType ==
  ASSUME TypeInv, NEW t \in Threads, Fetched(t)
  PROVE  TypeInv'
<1> DEFINE r == [run[t] EXCEPT !.pc = "loop", !.left = @ - 1]
<1>1. run' = [run EXCEPT ![t] = r]
  BY DEF Fetched, TypeInv, TypeOK
<1>2. UNCHANGED <<holder, session, lockConn, lost, rows, keeper, cleaner, faults, disorder>>
  BY DEF Fetched
<1>3. run[t] \in Run /\ run[t].log \in 1..Len(rows) /\ run[t].left > 0
  BY DEF TypeInv, TypeOK, Shape, Fetched, At
<1>4. r \in Run /\ r.pc = "loop" /\ r.log = run[t].log
  <2> DEFINE q == [run[t] EXCEPT !.pc = "loop"]
  <2>1. run[t].left - 1 \in 0..MaxUrls /\ "loop" \in Working
    BY <1>3, LockAssumption DEF Run, Working
  <2>2. q \in Run /\ q.pc = "loop" /\ q.log = run[t].log
    BY <1>3, <2>1, RunFields, Zenon
  <2>3. r = [q EXCEPT !.left = run[t].left - 1]
    OBVIOUS
  <2> HIDE DEF r, q
  <2> QED
    BY <2>1, <2>2, <2>3, RunFields, Zenon
<1>5. rows' \in Seq(Row) /\ Len(rows') >= Len(rows)
  BY <1>2, LenProperties DEF TypeInv, TypeOK
<1>6. run' \in [Threads -> Run] /\ Shape'
  <2>1. r.log \in 1..Len(rows') /\ UNCHANGED <<keeper, cleaner>>
    BY <1>2, <1>3, <1>4
  <2> HIDE DEF r
  <2> QED
    BY <1>1, <1>4, <1>5, <2>1, SetRun
<1> QED
  BY <1>2, <1>6 DEF TypeInv, TypeOK

(* Its finally block takes the connection to release.                       *)
LEMMA DropType ==
  ASSUME TypeInv, NEW t \in Threads, Drop(t)
  PROVE  TypeInv'
<1>1. PICK m \in Optional : run' = [run EXCEPT ![t].pc = "release", ![t].drop = m]
  <2>1. run[t].conn \in Optional /\ lockConn[ProcOf[t]] \in Optional /\ NoConn \in Optional
    BY LockAssumption DEF TypeInv, TypeOK, Run, Optional
  <2> QED
    BY <2>1 DEF Drop
<1>2. /\ lockConn' \in [Procs -> Optional]
      /\ lost' \in [Procs -> BOOLEAN]
  BY LockAssumption DEF Drop, TypeInv, TypeOK, Optional
<1>3. UNCHANGED <<holder, session, rows, keeper, cleaner, faults, disorder>>
  BY DEF Drop
<1> DEFINE r == [run[t] EXCEPT !.pc = "release", !.drop = m]
<1>4. run[t] \in Run
  BY DEF TypeInv, TypeOK
<1>5. r \in Run /\ r.pc = "release"
  BY <1>4 DEF Run, Working
<1>6. run' = [run EXCEPT ![t] = r]
  BY <1>1 DEF TypeInv, TypeOK
<1>7. rows' \in Seq(Row) /\ Len(rows') >= Len(rows)
  BY <1>3, LenProperties DEF TypeInv, TypeOK
<1>8. run' \in [Threads -> Run] /\ Shape'
  <2>1. UNCHANGED <<keeper, cleaner>>
    BY <1>3
  <2> HIDE DEF r
  <2> QED
    BY <1>5, <1>6, <1>7, <2>1, SetRun
<1> QED
  BY <1>2, <1>3, <1>8 DEF TypeInv, TypeOK

(* Its row is closed.                                                      *)
LEMMA CloseType ==
  ASSUME TypeInv, NEW t \in Threads, Complete(t) \/ Fail(t)
  PROVE  TypeInv'
<1>1. PICK s \in {"completed", "failed"} : Close(t, s)
  BY DEF Complete, Fail
<1>2. run[t].log \in 1..Len(rows)
  BY DEF TypeInv, Shape, Complete, Fail, At
<1>3. rows' \in Seq(Row) /\ Len(rows') = Len(rows)
  BY <1>1, <1>2, SetStatus DEF Close, TypeInv, TypeOK
<1>4. UNCHANGED <<holder, session, lockConn, lost, keeper, cleaner, faults, disorder>>
  BY <1>1 DEF Close
<1> DEFINE r == [run[t] EXCEPT !.pc = "drop"]
<1>5. run[t] \in Run
  BY DEF TypeInv, TypeOK
<1>6. r \in Run /\ r.pc = "drop"
  BY <1>5 DEF Run, Working
<1>7. run' = [run EXCEPT ![t] = r]
  BY <1>1 DEF Close, Goto, TypeInv, TypeOK
<1>8. run' \in [Threads -> Run] /\ Shape'
  <2>1. UNCHANGED <<keeper, cleaner>> /\ Len(rows') >= Len(rows)
    BY <1>3, <1>4, LenProperties DEF TypeInv, TypeOK
  <2> HIDE DEF r
  <2> QED
    BY <1>3, <1>6, <1>7, <2>1, SetRun
<1> QED
  BY <1>3, <1>4, <1>8 DEF TypeInv, TypeOK

(* The steps that move a thread on and write nothing else of the types.       *)
LEMMA MoveType ==
  ASSUME TypeInv, NEW t \in Threads,
         Trigger(t) \/ Publish(t) \/ NextUrl(t) \/ EndLoop(t) \/ Lost(t) \/ Drafts(t) \/ RunRaises(t)
  PROVE  TypeInv'
<1>1. UNCHANGED <<holder, session, rows, keeper, cleaner, disorder>>
  BY DEF Trigger, Publish, NextUrl, EndLoop, Lost, Drafts, RunRaises
<1>2. run[t] \in Run
  BY DEF TypeInv, TypeOK
<1>3. run' \in [Threads -> Run] /\ Shape'
  <2>1. CASE Trigger(t)
    BY <1>1, <2>1, GotoType DEF Trigger, At
  <2>2. CASE Publish(t)
    <3>1. run[t].pc = "locked" /\ Goto(t, "log")
      BY <2>2 DEF Publish, At
    <3>2. run[t].log = 0
      BY <3>1 DEF TypeInv, Shape
    <3> QED
      BY <1>1, <3>1, <3>2, GotoType DEF Working
  <2>3. CASE NextUrl(t)
    BY <1>1, <2>3, GotoType DEF NextUrl, At, Working, TypeInv, Shape
  <2>4. CASE EndLoop(t)
    <3>1. PICK pc \in {"closing", "drafts"} : Goto(t, pc)
      BY <2>4 DEF EndLoop
    <3>2. run[t].log \in 1..Len(rows)
      BY <2>4 DEF EndLoop, At, TypeInv, Shape
    <3> QED
      BY <1>1, <3>1, <3>2, GotoType DEF Working
  <2>5. CASE Lost(t) \/ Drafts(t)
    <3>1. PICK pc \in {"failing", "closing"} : Goto(t, pc)
      BY <2>5 DEF Lost, Drafts
    <3>2. run[t].log \in 1..Len(rows)
      BY <2>5 DEF Lost, Drafts, At, TypeInv, Shape
    <3> QED
      BY <1>1, <3>1, <3>2, GotoType DEF Working
  <2>6. CASE RunRaises(t)
    <3> DEFINE pc == IF run[t].pc = "failing" \/ run[t].log = 0 THEN "drop" ELSE "failing"
    <3>1. Goto(t, pc) /\ pc \in {"drop", "failing"} /\ (pc = "failing" => run[t].log # 0)
      BY <2>6 DEF RunRaises, At, Goto
    <3>2. run[t].log # 0 => run[t].log \in 1..Len(rows)
      BY <2>6 DEF RunRaises, TypeInv, Shape
    <3> QED
      BY <1>1, <3>1, <3>2, GotoType DEF Working
  <2> QED
    BY <2>1, <2>2, <2>3, <2>4, <2>5, <2>6
<1>4. faults' \in 0..MaxFaults
  BY LockAssumption
  DEF Trigger, Publish, NextUrl, EndLoop, Lost, Drafts, RunRaises, Fault, TypeInv, TypeOK
<1>5. lockConn' \in [Procs -> Optional] /\ lost' \in [Procs -> BOOLEAN]
  <2>1. CASE Publish(t)
    BY <1>2, <2>1, LockAssumption DEF Publish, TypeInv, TypeOK, Run
  <2>2. CASE ~Publish(t)
    BY <2>2 DEF Trigger, NextUrl, EndLoop, Lost, Drafts, RunRaises, TypeInv, TypeOK
  <2> QED
    BY <2>1, <2>2
<1> QED
  BY <1>1, <1>3, <1>4, <1>5 DEF TypeInv, TypeOK

(* A run ends: skipped, or its connection released.                         *)
LEMMA EndType ==
  ASSUME TypeInv, NEW t \in Threads, Skip(t) \/ Release(t)
  PROVE  TypeInv'
<1>1. UNCHANGED <<lockConn, lost, rows, keeper, cleaner, faults, disorder>>
  BY DEF Skip, Release
<1>2. run' \in [Threads -> Run] /\ Shape'
  BY <1>1, IdleType DEF Skip, Release
<1>3. holder' \in Optional /\ session' \in [Conns -> {"closed", "up", "cut"}]
  <2>1. run[t].drop \in Optional
    BY DEF TypeInv, TypeOK, Run
  <2>2. CASE Skip(t)
    BY <2>2 DEF Skip, TypeInv, TypeOK
  <2>3. CASE Release(t)
    BY <2>1, <2>3, ReleasesType DEF Release, TypeInv
  <2> QED
    BY <2>2, <2>3
<1> QED
  BY <1>1, <1>2, <1>3 DEF TypeInv, TypeOK

(* The steps of the keepalive thread preserve the types.                     *)
LEMMA KeepaliveType ==
  ASSUME TypeInv, Keepalive
  PROVE  TypeInv'
<1>1. UNCHANGED <<run, rows, cleaner, faults, disorder>>
  BY DEF Keepalive, ReadConn, Ping, Keeping, Reacquire, Swap
<1>2. keeper.old \in Optional /\ keeper.new \in Optional /\ lockConn[Owner] \in Optional
  BY LockAssumption DEF TypeInv, TypeOK
<1>3. NoConn \in Optional
  BY DEF Optional
<1>4. keeper' \in [pc : {"idle", "ping", "reopen", "swap"}, old : Optional, new : Optional]
  <2>1. CASE ReadConn
    BY <1>2, <1>3, <2>1 DEF ReadConn, KeeperIdle
  <2>4. CASE Ping
    BY <1>3, <2>4 DEF Ping, KeeperIdle, TypeInv, TypeOK
  <2>2. CASE Reacquire
    BY <1>2, <2>2 DEF Reacquire, TypeInv, TypeOK, Optional
  <2>3. CASE Swap
    BY <1>3, <2>3 DEF Swap, KeeperIdle
  <2> QED
    BY <2>1, <2>2, <2>3, <2>4 DEF Keepalive
<1>5. /\ keeper'.pc = "idle" => keeper' = KeeperIdle
      /\ keeper'.pc # "idle" => keeper'.old # NoConn
  <2>1. CASE ReadConn
    BY <2>1 DEF ReadConn, KeeperIdle
  <2>4. CASE Ping
    <3>1. keeper' = KeeperIdle \/ (keeper'.pc = "reopen" /\ keeper'.old = keeper.old)
      BY <2>4 DEF Ping, TypeInv, TypeOK
    <3> QED
      BY <2>4, <3>1 DEF Ping, KeeperIdle, TypeInv, Shape
  <2>2. CASE Reacquire
    BY <2>2 DEF Reacquire, TypeInv, TypeOK, Shape
  <2>3. CASE Swap
    BY <2>3 DEF Swap, KeeperIdle
  <2> QED
    BY <2>1, <2>2, <2>3, <2>4 DEF Keepalive
<1>6. Shape'
  BY <1>1, <1>5 DEF TypeInv, Shape
<1>7. holder' \in Optional /\ session' \in [Conns -> {"closed", "up", "cut"}]
  <2>1. CASE ReadConn \/ Ping
    BY <2>1 DEF ReadConn, Ping, Keeping, TypeInv, TypeOK
  <2>2. CASE Reacquire
    <3>1. CASE UNCHANGED <<holder, session>>
      BY <3>1 DEF TypeInv, TypeOK
    <3>2. CASE \E c \in Conns : Locks(c)
      BY <3>2, LocksType DEF TypeInv
    <3> QED
      BY <2>2, <3>1, <3>2 DEF Reacquire
  <2>3. CASE Swap
    BY <1>2, <2>3, ReleasesType DEF Swap, TypeInv
  <2> QED
    BY <2>1, <2>2, <2>3 DEF Keepalive
<1>8. lockConn' \in [Procs -> Optional] /\ lost' \in [Procs -> BOOLEAN]
  <2>1. CASE ReadConn \/ Ping \/ Reacquire
    BY <2>1 DEF ReadConn, Ping, Keeping, Reacquire, TypeInv, TypeOK
  <2>2. CASE Swap
    BY <1>2, <2>2, LockAssumption DEF Swap, TypeInv, TypeOK
  <2> QED
    BY <2>1, <2>2 DEF Keepalive
<1> QED
  BY <1>1, <1>4, <1>6, <1>7, <1>8 DEF TypeInv, TypeOK

(* The steps of the cleanup job preserve the types.                          *)
LEMMA CleanupType ==
  ASSUME TypeInv, Cleanup
  PROVE  TypeInv'
<1>1. UNCHANGED <<lost, run, keeper>> /\ faults' \in 0..MaxFaults
  <2>1. UNCHANGED <<lost, run, keeper>> /\ (faults' = faults \/ Fault)
    BY DEF Cleanup, CleanupStarts, FindOverdue, ForceRelease, ForgetLock, KillRow, CheckLock,
           CheckFails, Sweep
  <2>2. Fault => faults' \in 0..MaxFaults
    BY LockAssumption DEF Fault, TypeInv, TypeOK
  <2> QED
    BY <2>1, <2>2 DEF TypeInv, TypeOK
<1>2. disorder' \subseteq {"cut", "forced", "unchecked"} /\ lockConn' \in [Procs -> Optional]
  BY LockAssumption
  DEF Cleanup, CleanupStarts, FindOverdue, ForceRelease, ForgetLock, KillRow, CheckLock, CheckFails, Sweep,
      TypeInv, TypeOK, Optional
<1>3. holder' \in Optional /\ session' \in [Conns -> {"closed", "up", "cut"}]
  <2>1. CASE ForceRelease
    <3>1. lockConn[Owner] \in Optional
      BY LockAssumption DEF TypeInv, TypeOK
    <3> QED
      BY <2>1, <3>1, ReleasesType DEF ForceRelease, TypeInv
  <2>2. CASE ~ForceRelease
    BY <2>2
    DEF Cleanup, CleanupStarts, FindOverdue, ForgetLock, KillRow, CheckLock, CheckFails, Sweep,
        TypeInv, TypeOK
  <2> QED
    BY <2>1, <2>2
<1>4. rows' \in Seq(Row) /\ Len(rows') = Len(rows)
  <2>1. CASE KillRow
    <3>1. cleaner.row \in 1..Len(rows)
      BY <2>1 DEF KillRow, TypeInv, Shape
    <3> QED
      BY <2>1, <3>1, SetStatus DEF KillRow, TypeInv, TypeOK
  <2>2. CASE Sweep
    <3>1. \A i \in 1..Len(rows) :
            /\ rows[i] \in Row
            /\ [rows[i] EXCEPT !.status = "failed"] \in Row
      BY RowType DEF Row, TypeInv, TypeOK
    <3>2. Len(rows) \in Nat
      BY LenProperties DEF TypeInv, TypeOK
    <3>3. rows' \in [1..Len(rows) -> Row]
      BY <2>2, <3>1 DEF Sweep
    <3> QED
      BY <3>2, <3>3, LenProperties
  <2>3. CASE ~KillRow /\ ~Sweep
    BY <2>3 DEF Cleanup, CleanupStarts, FindOverdue, ForceRelease, ForgetLock, CheckLock, CheckFails,
                TypeInv, TypeOK
  <2> QED
    BY <2>1, <2>2, <2>3
<1>5. /\ cleaner' \in [pc : {"idle", "query", "force", "forget", "kill", "check", "sweep"},
                       row : Nat, held : BOOLEAN, seen : Nat]
      /\ cleaner'.pc \in {"force", "forget", "kill"} => cleaner'.row \in 1..Len(rows)
  <2>1. Len(rows) \in Nat
    BY LenProperties DEF TypeInv, TypeOK
  <2>2. CASE CleanupStarts
    BY <2>2 DEF CleanupStarts, TypeInv, TypeOK
  <2>3. CASE FindOverdue
    <3>1. \A i \in OverdueRows : i \in 1..Len(rows) /\ i \in Nat
      BY <2>1 DEF OverdueRows, RunningRows
    <3> QED
      BY <2>3, <3>1 DEF FindOverdue, TypeInv, TypeOK
  <2>4. CASE ForceRelease \/ ForgetLock \/ KillRow
    BY <2>4 DEF ForceRelease, ForgetLock, KillRow, TypeInv, TypeOK, Shape
  <2>5. CASE CheckLock
    BY <2>1, <2>5 DEF CheckLock
  <2>7. CASE CheckFails
    BY <2>1, <2>7 DEF CheckFails
  <2>6. CASE Sweep
    BY <2>6 DEF Sweep, CleanerIdle
  <2> QED
    BY <2>2, <2>3, <2>4, <2>5, <2>6, <2>7 DEF Cleanup
<1>6. Shape'
  BY <1>1, <1>4, <1>5 DEF TypeInv, Shape
<1> QED
  BY <1>1, <1>2, <1>3, <1>4, <1>5, <1>6 DEF TypeInv, TypeOK

(* A crash of a process preserves the types.                                *)
LEMMA CrashType ==
  ASSUME TypeInv, NEW w \in Procs, Crash(w)
  PROVE  TypeInv'
<1>1. UNCHANGED <<holder, rows, disorder>> /\ faults' \in 0..MaxFaults
  BY LockAssumption DEF Crash, Fault, TypeInv, TypeOK
<1>2. session' \in [Conns -> {"closed", "up", "cut"}]
  BY DEF Crash, TypeInv, TypeOK
<1>3. lockConn' \in [Procs -> Optional] /\ lost' \in [Procs -> BOOLEAN]
  BY DEF Crash, TypeInv, TypeOK, Optional
<1>4. RunIdle \in Run
  BY LockAssumption DEF RunIdle, Run, Optional
<1>5. run' = [t \in Threads |-> IF ProcOf[t] = w THEN RunIdle ELSE run[t]]
  BY DEF Crash
<1>6. run' \in [Threads -> Run]
  BY <1>4, <1>5 DEF TypeInv, TypeOK
<1>7. keeper' \in {keeper, KeeperIdle} /\ cleaner' \in {cleaner, CleanerIdle}
  BY DEF Crash
<1>8. keeper' \in [pc : {"idle", "ping", "reopen", "swap"}, old : Optional, new : Optional]
  BY <1>7 DEF TypeInv, TypeOK, KeeperIdle, Optional
<1>9. cleaner' \in [pc : {"idle", "query", "force", "forget", "kill", "check", "sweep"},
                    row : Nat, held : BOOLEAN, seen : Nat]
  <2>1. 0 \in Nat /\ FALSE \in BOOLEAN
    OBVIOUS
  <2>2. CleanerIdle \in [pc : {"idle", "query", "force", "forget", "kill", "check", "sweep"},
                         row : Nat, held : BOOLEAN, seen : Nat]
    BY <2>1 DEF CleanerIdle
  <2> QED
    BY <1>7, <2>2 DEF TypeInv, TypeOK
<1>10. Shape'
  <2>1. \A t \in Threads : run'[t] \in {run[t], RunIdle}
    BY <1>5
  <2>2. keeper'.pc = "idle" => keeper' = KeeperIdle
    BY <1>7 DEF TypeInv, Shape
  <2>3. keeper'.pc # "idle" => keeper'.old # NoConn
    BY <1>7 DEF TypeInv, Shape, KeeperIdle
  <2>4. cleaner'.pc \in {"force", "forget", "kill"} => cleaner'.row \in 1..Len(rows')
    BY <1>1, <1>7 DEF TypeInv, Shape, CleanerIdle
  <2> QED
    BY <1>1, <2>1, <2>2, <2>3, <2>4 DEF TypeInv, Shape, RunIdle
<1> QED
  BY <1>1, <1>2, <1>3, <1>6, <1>8, <1>9, <1>10 DEF TypeInv, TypeOK

(* Every step preserves the types.                                          *)
LEMMA StepType == TypeInv /\ [Next]_vars => TypeInv'
<1> SUFFICES ASSUME TypeInv, [Next]_vars PROVE TypeInv'
  OBVIOUS
<1>1. CASE UNCHANGED vars
  BY <1>1 DEF vars, TypeInv, TypeOK, Shape
<1>2. ASSUME NEW t \in Threads, Trigger(t) \/ RunSteps(t) \/ Fetched(t) \/ RunRaises(t)
      PROVE  TypeInv'
  <2>1. CASE Acquire(t)
    BY <2>1, AcquireType
  <2>2. CASE CreateLog(t)
    BY <2>2, CreateLogType
  <2>3. CASE Fetched(t)
    BY <2>3, FetchedType
  <2>4. CASE Drop(t)
    BY <2>4, DropType
  <2>5. CASE Complete(t) \/ Fail(t)
    BY <2>5, CloseType
  <2>6. CASE Skip(t) \/ Release(t)
    BY <2>6, EndType
  <2>7. CASE \/ Trigger(t) \/ Publish(t) \/ NextUrl(t) \/ EndLoop(t)
             \/ Lost(t) \/ Drafts(t) \/ RunRaises(t)
    BY <2>7, MoveType
  <2> QED
    BY <1>2, <2>1, <2>2, <2>3, <2>4, <2>5, <2>6, <2>7 DEF RunSteps
<1>3. CASE Server
  BY <1>3, ServerType DEF Server
<1>4. CASE Keepalive
  BY <1>4, KeepaliveType
<1>5. CASE Cleanup
  BY <1>5, CleanupType
<1>6. ASSUME NEW i \in 1..Len(rows), Age(i) PROVE TypeInv'
  BY <1>6, AgeType
<1>7. ASSUME NEW c \in Conns, Cut(c) PROVE TypeInv'
  BY <1>7, ServerType
<1>8. ASSUME NEW w \in Procs, Crash(w) PROVE TypeInv'
  BY <1>8, CrashType
<1> QED
  BY <1>1, <1>2, <1>3, <1>4, <1>5, <1>6, <1>7, <1>8 DEF Next

(* The types and the shape of the threads' variables hold throughout.        *)
THEOREM LockTypeInvariant == Spec => []TypeInv
<1>1. Init => TypeInv
  BY InitType
<1>2. TypeInv /\ [Next]_vars => TypeInv'
  BY StepType
<1> QED
  BY <1>1, <1>2, PTL DEF Spec

(* Type correctness of the lock, its threads and scrape_log.                 *)
THEOREM LockTypeCorrect == Spec => []TypeOK
<1>1. TypeInv => TypeOK
  BY DEF TypeInv
<1> QED
  BY <1>1, LockTypeInvariant, PTL

-------------------------------------------------------------------------------
(* No connection outlives the runs.  The invariant is inductive given the     *)
(* types: what a step must not do is end the run whose process still remembers *)
(* a connection, or remember one for a process that has no run under way.     *)

UnderWay(t) == t \notin Cli /\ run[t].pc \in Working \cup {"drop"}

(* A step that sets no process's connection and ends no run keeps the invariant. *)
LEMMA LeakFrame ==
  ASSUME TypeInv, NoLeakedLock,
         \A w \in Procs : lockConn'[w] \in {lockConn[w], NoConn},
         \A t \in Threads : UnderWay(t) => UnderWay(t)' \/ lockConn'[ProcOf[t]] = NoConn
  PROVE  NoLeakedLock'
<1> SUFFICES ASSUME NEW w \in Procs, lockConn'[w] # NoConn
             PROVE  \E t \in Threads \ Cli : ProcOf[t] = w /\ run'[t].pc \in Working \cup {"drop"}
  BY DEF NoLeakedLock
<1>1. PICK t \in Threads \ Cli : ProcOf[t] = w /\ run[t].pc \in Working \cup {"drop"}
  BY DEF NoLeakedLock
<1>2. UnderWay(t)'
  BY <1>1 DEF UnderWay
<1> QED
  BY <1>1, <1>2 DEF UnderWay

(* The steps of a thread leak no connection.                                 *)
LEMMA RunLeaksNothing ==
  ASSUME TypeInv, NoLeakedLock, NEW t \in Threads,
         Trigger(t) \/ RunSteps(t) \/ Fetched(t) \/ RunRaises(t)
  PROVE  NoLeakedLock'
<1>1. /\ run \in [Threads -> Run] /\ lockConn \in [Procs -> Optional]
      /\ ProcOf \in [Threads -> Procs]
  BY LockAssumption DEF TypeInv, TypeOK
<1>2. \A u \in Threads : u # t => run'[u] = run[u]
  BY <1>1 DEF Trigger, RunSteps, Acquire, Skip, Publish, CreateLog, NextUrl, EndLoop, Lost, Drafts,
              Complete, Fail, Close, Drop, Release, Fetched, RunRaises, Goto
<1>3. CASE Publish(t)
  <2>1. t \notin Cli /\ run'[t].pc = "log" /\ lockConn' = [lockConn EXCEPT ![ProcOf[t]] = run[t].conn]
    BY <1>1, <1>3 DEF Publish, Goto, At, TypeInv, Shape
  <2> SUFFICES ASSUME NEW w \in Procs, lockConn'[w] # NoConn
               PROVE  \E u \in Threads \ Cli : ProcOf[u] = w /\ run'[u].pc \in Working \cup {"drop"}
    BY DEF NoLeakedLock
  <2>2. CASE w = ProcOf[t]
    BY <2>1, <2>2 DEF Working
  <2>3. CASE w # ProcOf[t]
    <3>1. lockConn'[w] = lockConn[w]
      BY <1>1, <2>1, <2>3
    <3>2. PICK u \in Threads \ Cli : ProcOf[u] = w /\ run[u].pc \in Working \cup {"drop"}
      BY <3>1 DEF NoLeakedLock
    <3>3. run'[u] = run[u]
      BY <1>2, <2>3, <3>2
    <3> QED
      BY <3>2, <3>3
  <2> QED
    BY <2>2, <2>3
<1>4. CASE Drop(t)
  <2>1. \A w \in Procs : lockConn'[w] \in {lockConn[w], NoConn}
    BY <1>1, <1>4 DEF Drop
  <2>2. t \notin Cli => lockConn'[ProcOf[t]] = NoConn
    BY <1>1, <1>4 DEF Drop
  <2> QED
    BY <1>2, <2>1, <2>2, LeakFrame DEF UnderWay
<1>5. CASE ~Publish(t) /\ ~Drop(t)
  <2>1. lockConn' = lockConn
    BY <1>5 DEF Trigger, RunSteps, Acquire, Skip, CreateLog, NextUrl, EndLoop, Lost, Drafts,
                Complete, Fail, Close, Release, Fetched, RunRaises
  <2>2. UnderWay(t) => UnderWay(t)'
    <3>1. CASE Trigger(t) \/ Acquire(t) \/ Skip(t) \/ Release(t)
      BY <1>1, <3>1 DEF UnderWay, Working, At, Trigger, Acquire, Skip, Release
    <3>2. CASE CreateLog(t) \/ Fetched(t)
      <4>1. PICK r : run' = [run EXCEPT ![t] = r] /\ r.pc = "loop"
        <5>1. CASE CreateLog(t)
          <6>1. PICK n \in 0..MaxUrls :
                  run' = [run EXCEPT ![t].pc = "loop", ![t].log = Len(rows) + 1, ![t].left = n]
            BY <5>1 DEF CreateLog
          <6> DEFINE r == [run[t] EXCEPT !.pc = "loop", !.log = Len(rows) + 1, !.left = n]
          <6>2. run' = [run EXCEPT ![t] = r]
            BY <6>1
          <6>3. run[t] \in Run
            BY <1>1
          <6>4. r.pc = "loop"
            BY <6>3 DEF Run
          <6> QED
            BY <6>2, <6>4
        <5>2. CASE Fetched(t)
          <6> DEFINE r == [run[t] EXCEPT !.pc = "loop", !.left = @ - 1]
          <6>1. run' = [run EXCEPT ![t] = r]
            BY <5>2 DEF Fetched
          <6>2. run[t] \in Run
            BY <1>1
          <6>3. r.pc = "loop"
            BY <6>2 DEF Run
          <6> QED
            BY <6>1, <6>3
        <5> QED
          BY <3>2, <5>1, <5>2
      <4> QED
        BY <1>1, <4>1 DEF UnderWay, Working
    <3>3. CASE \/ NextUrl(t) \/ EndLoop(t) \/ Lost(t) \/ Drafts(t)
               \/ Complete(t) \/ Fail(t) \/ RunRaises(t)
      <4>1. PICK pc \in Working \cup {"drop"} : run' = [run EXCEPT ![t].pc = pc]
        BY <3>3 DEF Working, Goto, NextUrl, EndLoop, Lost, Drafts, Complete, Fail, Close, RunRaises
      <4>2. run'[t] = [run[t] EXCEPT !.pc = pc] /\ run[t] \in Run
        BY <1>1, <4>1
      <4>3. run'[t].pc = pc
        BY <4>2 DEF Run
      <4> QED
        BY <4>3 DEF UnderWay
    <3> QED
      BY <1>5, <3>1, <3>2, <3>3 DEF RunSteps
  <2> QED
    BY <1>2, <2>1, <2>2, LeakFrame DEF UnderWay
<1> QED
  BY <1>3, <1>4, <1>5

(* The keepalive swaps the connection of a process that has one.              *)
LEMMA KeepaliveLeaksNothing ==
  ASSUME TypeInv, NoLeakedLock, Keepalive
  PROVE  NoLeakedLock'
<1>1. run' = run
  BY DEF Keepalive, ReadConn, Ping, Keeping, Reacquire, Swap
<1>2. CASE Swap /\ lockConn[Owner] = keeper.old
  <2>1. lockConn[Owner] # NoConn
    BY <1>2 DEF Swap, TypeInv, Shape
  <2>2. lockConn' = [lockConn EXCEPT ![Owner] = keeper.new]
    BY <1>2 DEF Swap
  <2>3. \A w \in Procs : lockConn'[w] # NoConn => lockConn[w] # NoConn
    BY <2>1, <2>2 DEF TypeInv, TypeOK
  <2> QED
    BY <1>1, <2>3 DEF NoLeakedLock
<1>3. CASE ~(Swap /\ lockConn[Owner] = keeper.old)
  <2>1. lockConn' = lockConn
    BY <1>3 DEF Keepalive, ReadConn, Ping, Keeping, Reacquire, Swap
  <2> QED
    BY <1>1, <2>1 DEF NoLeakedLock
<1> QED
  BY <1>2, <1>3

(* Every step keeps the invariant.                                           *)
LEMMA StepLeaksNothing == TypeInv /\ NoLeakedLock /\ [Next]_vars => NoLeakedLock'
<1> SUFFICES ASSUME TypeInv, NoLeakedLock, [Next]_vars PROVE NoLeakedLock'
  OBVIOUS
<1>1. CASE UNCHANGED <<run, lockConn>>
  BY <1>1 DEF NoLeakedLock
<1>2. ASSUME NEW t \in Threads, Trigger(t) \/ RunSteps(t) \/ Fetched(t) \/ RunRaises(t)
      PROVE  NoLeakedLock'
  BY <1>2, RunLeaksNothing
<1>3. CASE Keepalive
  BY <1>3, KeepaliveLeaksNothing
<1>4. CASE Cleanup
  <2>1. \A w \in Procs : lockConn'[w] \in {lockConn[w], NoConn}
    BY <1>4 DEF Cleanup, CleanupStarts, FindOverdue, ForceRelease, ForgetLock, KillRow, CheckLock, CheckFails,
                Sweep, TypeInv, TypeOK
  <2>2. run' = run
    BY <1>4 DEF Cleanup, CleanupStarts, FindOverdue, ForceRelease, ForgetLock, KillRow, CheckLock, CheckFails,
                Sweep
  <2> QED
    BY <2>1, <2>2, LeakFrame DEF UnderWay
<1>5. CASE Server \/ (\E i \in 1..Len(rows) : Age(i)) \/ (\E c \in Conns : Cut(c))
  <2>1. UNCHANGED <<run, lockConn>>
    BY <1>5 DEF Server, ServerDrops, Collect, Age, Cut
  <2> QED
    BY <1>1, <2>1
<1>6. ASSUME NEW w \in Procs, Crash(w) PROVE NoLeakedLock'
  <2>1. lockConn' = [lockConn EXCEPT ![w] = NoConn]
    BY <1>6 DEF Crash
  <2>2. \A x \in Procs : lockConn'[x] \in {lockConn[x], NoConn}
    BY <2>1 DEF TypeInv, TypeOK
  <2>3. lockConn'[w] = NoConn
    BY <2>1 DEF TypeInv, TypeOK
  <2>4. \A t \in Threads : ProcOf[t] # w => run'[t] = run[t]
    BY <1>6 DEF Crash
  <2> QED
    BY <2>2, <2>3, <2>4, LeakFrame DEF UnderWay
<1> QED
  BY <1>1, <1>2, <1>3, <1>4, <1>5, <1>6 DEF Next, vars

(* A process remembers a lock connection only while one of its runs is under   *)
(* way, whatever is cut, killed, swapped or force-released.                  *)
THEOREM NoLeak == Spec => []NoLeakedLock
<1>1. Init => NoLeakedLock
  BY DEF Init, NoLeakedLock
<1>2. TypeInv /\ NoLeakedLock /\ [Next]_vars => NoLeakedLock'
  BY StepLeaksNothing
<1> QED
  BY <1>1, <1>2, LockTypeInvariant, PTL DEF Spec

-------------------------------------------------------------------------------
(* One run at a time.  As long as no connection was cut and no lock           *)
(* force-released, the one run under way holds the lock on an open connection, *)
(* no process remembers another, and its row is the newest one; rows the sweep  *)
(* has not seen are young, and the run's is one of them if the lock was free.  *)

HoldsIt(t) == run[t].conn = holder /\ holder \in Conns /\ session[holder] = "up"

Logged(t) == run[t].pc \in Working /\ run[t].log # 0

(* The keepalive may replace a connection whose run ended after it was read: *)
(* it takes the lock only while no run has it, and pinged a connection of a  *)
(* run of its own process.                                                   *)
KeeperApart ==
  /\ keeper.pc \in {"reopen", "swap"} => session[keeper.old] # "up"
  /\ \A t \in Threads : run[t].pc \in Holding =>
       keeper.new = NoConn /\ (run[t].conn = keeper.old => ProcOf[t] = Owner)
  /\ keeper.new # NoConn => holder = keeper.new /\ session[keeper.new] = "up"

Undisturbed ==
  /\ KeeperApart
  /\ cleaner.pc \notin {"forget", "kill"}
  /\ \A t, u \in Threads : run[t].pc \in Holding /\ run[u].pc \in Holding => t = u
  /\ \A t \in Threads : run[t].pc \in Holding => HoldsIt(t)
  /\ \A w \in Procs : lockConn[w] \in {NoConn, holder}
  /\ \A t \in Threads : Logged(t) => run[t].log = Len(rows)
  /\ cleaner.pc = "sweep" =>
       /\ cleaner.seen <= Len(rows)
       /\ \A i \in 1..Len(rows) : i > cleaner.seen => rows[i].age = "young"
       /\ ~cleaner.held => \A t \in Threads : Logged(t) => run[t].log > cleaner.seen

LockInv == disorder = {} => Undisturbed

LEMMA KeeperFrame ==
  ASSUME TypeInv, KeeperApart, UNCHANGED keeper,
         \A t \in Threads : run'[t].pc \in Holding => run[t].pc \in Holding /\ run'[t].conn = run[t].conn,
         \A c \in Conns : session'[c] = "up" => session[c] = "up",
         keeper.new # NoConn => holder' = holder /\ session'[keeper.new] = session[keeper.new]
  PROVE  KeeperApart'
<1>1. keeper.pc \in {"reopen", "swap"} => keeper.old \in Conns
  BY DEF TypeInv, TypeOK, Shape, Optional
<1> QED
  BY <1>1 DEF KeeperApart

(* A step that starts no run and appends no row.                             *)
LEMMA LockFrame ==
  ASSUME TypeInv, Undisturbed,
         KeeperApart', cleaner'.pc \notin {"forget", "kill"},
         \A t \in Threads : run'[t].pc \in Holding => run[t].pc \in Holding /\ HoldsIt(t)',
         \A w \in Procs : lockConn'[w] \in {NoConn, holder'},
         \A t \in Threads : Logged(t)' => Logged(t) /\ run'[t].log = run[t].log,
         Len(rows') = Len(rows),
         cleaner' = cleaner \/ cleaner'.pc # "sweep",
         cleaner'.pc = "sweep" =>
           \A i \in 1..Len(rows) : i > cleaner.seen => rows'[i].age = rows[i].age
  PROVE  Undisturbed'
<1>1. \A t, u \in Threads : run'[t].pc \in Holding /\ run'[u].pc \in Holding => t = u
  BY DEF Undisturbed
<1>2. \A t \in Threads : Logged(t)' => run'[t].log = Len(rows')
  BY DEF Undisturbed
<1>3. cleaner'.pc = "sweep" =>
        /\ cleaner'.seen <= Len(rows')
        /\ \A i \in 1..Len(rows') : i > cleaner'.seen => rows'[i].age = "young"
        /\ ~cleaner'.held => \A t \in Threads : Logged(t)' => run'[t].log > cleaner'.seen
  BY DEF Undisturbed
<1> QED
  BY <1>1, <1>2, <1>3 DEF Undisturbed

(* Every thread that is not about to start one has a run that holds the lock.   *)
LEMMA HoldingPcs ==
  ASSUME TypeInv, NEW t \in Threads
  PROVE  run[t].pc \in Holding \/ run[t].pc \in {"idle", "start"}
  BY DEF TypeInv, TypeOK, Run, Holding

(* A process that remembers a connection has a run of its own under way.       *)
LEMMA Remembered ==
  ASSUME TypeInv, NoLeakedLock, NEW w \in Procs, lockConn[w] # NoConn
  PROVE  \E t \in Threads : ProcOf[t] = w /\ run[t].pc \in Holding \ {"release"}
  BY DEF NoLeakedLock, Holding, Working

(* A thread that only moves on, without ending its run, keeps all of it.       *)
LEMMA MoveUndisturbed ==
  ASSUME TypeInv, Undisturbed, NEW t \in Threads,
         Trigger(t) \/ Publish(t) \/ NextUrl(t) \/ EndLoop(t) \/ Lost(t) \/ Drafts(t)
         \/ Complete(t) \/ Fail(t) \/ RunRaises(t) \/ Fetched(t) \/ Skip(t) \/ Drop(t)
  PROVE  Undisturbed'
<1>1. UNCHANGED <<holder, session, keeper, cleaner>>
  BY DEF Trigger, Publish, NextUrl, EndLoop, Lost, Drafts, Complete, Fail, Close, RunRaises,
         Fetched, Skip, Drop
<1>2. /\ run[t] \in Run /\ run \in [Threads -> Run] /\ lockConn \in [Procs -> Optional]
      /\ ProcOf \in [Threads -> Procs]
  BY LockAssumption DEF TypeInv, TypeOK
<1>3. \A u \in Threads : u # t => run'[u] = run[u]
  BY <1>2 DEF Trigger, Publish, NextUrl, EndLoop, Lost, Drafts, Complete, Fail, Close, RunRaises,
              Fetched, Skip, Drop, Goto
<1>4. /\ run'[t].pc \in Holding =>
           run[t].pc \in Holding /\ run'[t].conn = run[t].conn /\ run'[t].log = run[t].log
      /\ Logged(t)' => Logged(t)
  <2>1. CASE Fetched(t)
    <3> DEFINE r == [run[t] EXCEPT !.pc = "loop", !.left = @ - 1]
    <3>1. run'[t] = r /\ run[t].pc = "fetch"
      BY <1>2, <2>1 DEF Fetched, At
    <3>2. r.pc = "loop" /\ r.conn = run[t].conn /\ r.log = run[t].log
      BY <1>2 DEF Run
    <3> HIDE DEF r
    <3> QED
      BY <3>1, <3>2 DEF Logged, Holding, Working
  <2>2. CASE Skip(t)
    BY <1>2, <2>2 DEF Skip, RunIdle, Logged, Holding, Working
  <2>3. CASE Drop(t)
    <3>1. PICK m : run' = [run EXCEPT ![t].pc = "release", ![t].drop = m]
      BY <2>3 DEF Drop
    <3> DEFINE r == [run[t] EXCEPT !.pc = "release", !.drop = m]
    <3>2. run'[t] = r /\ run[t].pc = "drop"
      BY <1>2, <2>3, <3>1 DEF Drop, At
    <3>3. r.pc = "release" /\ r.conn = run[t].conn /\ r.log = run[t].log
      BY <1>2 DEF Run
    <3> HIDE DEF r
    <3> QED
      BY <3>2, <3>3 DEF Logged, Holding, Working
  <2>4. CASE \/ Trigger(t) \/ Publish(t) \/ NextUrl(t) \/ EndLoop(t) \/ Lost(t) \/ Drafts(t)
             \/ Complete(t) \/ Fail(t) \/ RunRaises(t)
    <3>1. PICK pc : run' = [run EXCEPT ![t].pc = pc] /\ (pc = "start" \/ run[t].pc \in Working \cup {"locked"})
      BY <2>4 DEF Trigger, Publish, NextUrl, EndLoop, Lost, Drafts, Complete, Fail, Close, RunRaises,
                  Goto, At, Working
    <3>2. run'[t] = [run[t] EXCEPT !.pc = pc]
      BY <1>2, <3>1
    <3>3. run'[t].pc = pc /\ run'[t].conn = run[t].conn /\ run'[t].log = run[t].log
      BY <1>2, <3>2 DEF Run
    <3>4. run[t].pc = "locked" => run[t].log = 0
      BY DEF TypeInv, Shape
    <3> QED
      BY <3>1, <3>3, <3>4 DEF Logged, Holding, Working
  <2> QED
    BY <2>1, <2>2, <2>3, <2>4
<1>5. \A u \in Threads : run'[u].pc \in Holding => run[u].pc \in Holding /\ HoldsIt(u)'
  BY <1>1, <1>3, <1>4 DEF Undisturbed, HoldsIt
<1>6. \A u \in Threads : Logged(u)' => Logged(u) /\ run'[u].log = run[u].log
  BY <1>3, <1>4 DEF Logged, Holding
<1>7. \A w \in Procs : lockConn'[w] \in {NoConn, holder'}
  <2>1. CASE Publish(t)
    <3>1. lockConn' = [lockConn EXCEPT ![ProcOf[t]] = run[t].conn] /\ run[t].conn = holder
      BY <2>1 DEF Publish, At, Undisturbed, HoldsIt, Holding
    <3> QED
      BY <1>1, <1>2, <3>1 DEF Undisturbed
  <2>2. CASE Drop(t)
    BY <1>1, <1>2, <2>2 DEF Drop, Undisturbed
  <2>3. CASE ~Publish(t) /\ ~Drop(t)
    BY <1>1, <2>3 DEF Trigger, NextUrl, EndLoop, Lost, Drafts, Complete, Fail, Close, RunRaises,
                      Fetched, Skip, Undisturbed
  <2> QED
    BY <2>1, <2>2, <2>3
<1>8. Len(rows') = Len(rows) /\ \A i \in 1..Len(rows) : rows'[i].age = rows[i].age
  <2>1. CASE Complete(t) \/ Fail(t)
    <3>1. PICK s \in {"completed", "failed"} : Close(t, s)
      BY <2>1 DEF Complete, Fail
    <3>2. run[t].log \in 1..Len(rows)
      BY <2>1 DEF TypeInv, Shape, Complete, Fail, At
    <3>3. Len(rows') = Len(rows)
      BY <3>1, <3>2, SetStatus DEF Close, TypeInv, TypeOK
    <3>4. \A i \in 1..Len(rows) : rows[i] \in Row /\ i \in DOMAIN rows
      BY RowType, LenProperties DEF TypeInv, TypeOK
    <3>5. \A i \in 1..Len(rows) : rows'[i] \in {rows[i], [rows[i] EXCEPT !.status = s]}
      BY <3>1, <3>4 DEF Close
    <3> QED
      BY <3>3, <3>4, <3>5 DEF Row
  <2>2. CASE ~(Complete(t) \/ Fail(t))
    BY <2>2 DEF Trigger, Publish, NextUrl, EndLoop, Lost, Drafts, RunRaises, Fetched, Skip, Drop
  <2> QED
    BY <2>1, <2>2
<1>9. KeeperApart' /\ cleaner'.pc \notin {"forget", "kill"} /\ cleaner' = cleaner
  BY <1>1, <1>3, <1>4, KeeperFrame DEF Undisturbed
<1> QED
  BY <1>5, <1>6, <1>7, <1>8, <1>9, LockFrame

(* The lock is acquired when it is free, and then no run is under way.         *)
LEMMA AcquireUndisturbed ==
  ASSUME TypeInv, Undisturbed, NEW t \in Threads, Acquire(t)
  PROVE  Undisturbed'
<1>1. PICK c \in Conns :
        /\ Locks(c)
        /\ run' = [run EXCEPT ![t].pc = IF t \in Cli THEN "log" ELSE "locked", ![t].conn = c]
  BY DEF Acquire
<1>2. UNCHANGED <<lockConn, rows, keeper, cleaner>>
  BY DEF Acquire
<1> DEFINE r == [run[t] EXCEPT !.pc = IF t \in Cli THEN "log" ELSE "locked", !.conn = c]
<1>3. run' = [run EXCEPT ![t] = r]
  BY <1>1
<1>4. run[t] \in Run /\ run[t].log = 0 /\ run \in [Threads -> Run]
  BY DEF TypeInv, TypeOK, Shape, Acquire, At
<1>5. r.conn = c /\ r.log = 0
  BY <1>4 DEF Run
<1>6. run'[t] = r /\ \A u \in Threads : u # t => run'[u] = run[u]
  BY <1>3, <1>4
<1>7. holder = NoConn /\ holder' = c /\ session' = [session EXCEPT ![c] = "up"]
  BY <1>1 DEF Locks
<1>8. \A u \in Threads : run[u].pc \notin Holding
  BY <1>7, LockAssumption DEF Undisturbed, HoldsIt
<1> HIDE DEF r
<1>9. \A u \in Threads : run'[u].pc \in Holding => u = t
  BY <1>6, <1>8
<1>10. HoldsIt(t)' /\ ~Logged(t)'
  BY <1>5, <1>6, <1>7 DEF HoldsIt, Logged, TypeInv, TypeOK
<1>11. \A u \in Threads : ~Logged(u)'
  BY <1>9, <1>10 DEF Logged, Holding
<1>12. \A w \in Procs : lockConn'[w] \in {NoConn, holder'}
  BY <1>2, <1>7 DEF Undisturbed
<1>13. KeeperApart'
  <2>1. keeper.new = NoConn
    BY <1>7, LockAssumption DEF Undisturbed, KeeperApart
  <2>2. c # keeper.old
    BY <1>1 DEF Locks, Referenced
  <2>3. session'[keeper.old] = session[keeper.old]
    BY <1>7, <2>2 DEF TypeInv, TypeOK
  <2>4. run'[t].conn = c
    BY <1>5, <1>6
  <2> QED
    BY <1>2, <1>9, <2>1, <2>2, <2>3, <2>4 DEF Undisturbed, KeeperApart
<1> QED
  BY <1>2, <1>9, <1>10, <1>11, <1>12, <1>13 DEF Undisturbed

(* The row a run creates is the newest, and no sweep has seen it.              *)
LEMMA CreateLogUndisturbed ==
  ASSUME TypeInv, Undisturbed, NEW t \in Threads, CreateLog(t)
  PROVE  Undisturbed'
<1>1. PICK n \in 0..MaxUrls :
        run' = [run EXCEPT ![t].pc = "loop", ![t].log = Len(rows) + 1, ![t].left = n]
  BY DEF CreateLog
<1>2. UNCHANGED <<holder, session, lockConn, keeper, cleaner>>
  BY DEF CreateLog
<1> DEFINE r == [run[t] EXCEPT !.pc = "loop", !.log = Len(rows) + 1, !.left = n]
<1>3. run' = [run EXCEPT ![t] = r]
  BY <1>1
<1>4. run[t] \in Run /\ run[t].pc = "log" /\ run \in [Threads -> Run]
  BY DEF TypeInv, TypeOK, CreateLog, At
<1>5. Len(rows) \in Nat
  BY LenProperties DEF TypeInv, TypeOK
<1>6. r.conn = run[t].conn /\ r.log = Len(rows) + 1
  BY <1>4 DEF Run
<1>7. run'[t] = r /\ \A u \in Threads : u # t => run'[u] = run[u]
  BY <1>3, <1>4
<1> HIDE DEF r
<1>8. \A u \in Threads : run'[u].pc \in Holding => u = t
  BY <1>4, <1>7 DEF Undisturbed, Holding, Working
<1>9. HoldsIt(t)'
  BY <1>2, <1>4, <1>6, <1>7 DEF Undisturbed, HoldsIt, Holding, Working
<1>10. \A u \in Threads : Logged(u)' => run'[u].log = Len(rows) + 1
  BY <1>6, <1>7, <1>8 DEF Logged, Holding
<1>11. /\ Len(rows') = Len(rows) + 1
       /\ rows'[Len(rows) + 1].age = "young"
       /\ \A i \in 1..Len(rows) : rows'[i] = rows[i]
  <2>1. rows \in Seq(Row) /\ rows' = Append(rows, [status |-> "running", age |-> "young"])
    BY DEF CreateLog, TypeInv, TypeOK
  <2>2. /\ Len(rows') = Len(rows) + 1
        /\ rows'[Len(rows) + 1] = [status |-> "running", age |-> "young"]
        /\ \A i \in 1..Len(rows) : rows'[i] = rows[i]
    BY <2>1, AppendProperties
  <2> QED
    BY <2>2
<1>12. cleaner'.pc = "sweep" =>
         /\ cleaner'.seen <= Len(rows')
         /\ \A i \in 1..Len(rows') : i > cleaner'.seen => rows'[i].age = "young"
         /\ ~cleaner'.held => \A u \in Threads : Logged(u)' => run'[u].log > cleaner'.seen
  <2> SUFFICES ASSUME cleaner.pc = "sweep" PROVE
         /\ cleaner.seen <= Len(rows')
         /\ \A i \in 1..Len(rows') : i > cleaner.seen => rows'[i].age = "young"
         /\ ~cleaner.held => \A u \in Threads : Logged(u)' => run'[u].log > cleaner.seen
    BY <1>2
  <2>1. cleaner.seen \in Nat /\ cleaner.seen <= Len(rows)
    BY DEF Undisturbed, TypeInv, TypeOK
  <2>2. \A i \in 1..Len(rows) : i > cleaner.seen => rows[i].age = "young"
    BY DEF Undisturbed
  <2>3. \A i \in 1..Len(rows') : i \in 1..Len(rows) \/ i = Len(rows) + 1
    BY <1>5, <1>11
  <2> QED
    BY <1>5, <1>10, <1>11, <2>1, <2>2, <2>3
<1>13. KeeperApart'
  <2>1. \A u \in Threads : run'[u].pc \in Holding => run[u].pc \in Holding /\ run'[u].conn = run[u].conn
    BY <1>4, <1>6, <1>7, <1>8 DEF Holding, Working
  <2> QED
    BY <1>2, <2>1, KeeperFrame DEF Undisturbed
<1> QED
  BY <1>2, <1>8, <1>9, <1>10, <1>11, <1>12, <1>13 DEF Undisturbed

(* When a run ends no process remembers a connection, by NoLeakedLock.         *)
LEMMA ReleaseUndisturbed ==
  ASSUME TypeInv, NoLeakedLock, Undisturbed, NEW t \in Threads, Release(t)
  PROVE  Undisturbed'
<1>1. /\ run' = [run EXCEPT ![t] = RunIdle] /\ run[t].pc = "release"
      /\ UNCHANGED <<lockConn, rows, keeper, cleaner>>
  BY DEF Release, At
<1>2. run'[t] = RunIdle /\ \A u \in Threads : u # t => run'[u] = run[u]
  BY <1>1 DEF TypeInv, TypeOK
<1>3. \A u \in Threads : run'[u].pc \notin Holding
  BY <1>1, <1>2 DEF Undisturbed, RunIdle, Holding, Working
<1>4. \A w \in Procs : lockConn[w] = NoConn
  <2> SUFFICES ASSUME NEW w \in Procs, lockConn[w] # NoConn PROVE FALSE
    OBVIOUS
  <2>1. PICK u \in Threads : ProcOf[u] = w /\ run[u].pc \in Holding \ {"release"}
    BY Remembered
  <2> QED
    BY <1>1, <2>1 DEF Undisturbed, Holding
<1>5. \A u \in Threads : ~Logged(u)'
  BY <1>3 DEF Logged, Holding
<1>6. KeeperApart'
  <2>1. keeper.new = NoConn
    BY <1>1 DEF Undisturbed, KeeperApart, Holding
  <2>2. \A x \in Conns : session'[x] = "up" => session[x] = "up"
    BY DEF Release, Releases, TypeInv, TypeOK
  <2> QED
    BY <1>1, <1>3, <2>1, <2>2, KeeperFrame DEF Undisturbed
<1> QED
  BY <1>1, <1>3, <1>4, <1>5, <1>6, LockFrame DEF Undisturbed

(* The server and the clock do not disturb the run.                         *)
LEMMA ServerUndisturbed ==
  ASSUME TypeInv, NoLeakedLock, Undisturbed, Server \/ (\E i \in 1..Len(rows) : Age(i))
  PROVE  Undisturbed'
<1>1. CASE Server
  <2>1. PICK c \in Conns : ServerDrops(c) \/ Collect(c)
    BY <1>1 DEF Server
  <2>2. UNCHANGED <<lockConn, run, rows, keeper, cleaner>>
    BY <2>1 DEF ServerDrops, Collect
  <2>3. ASSUME NEW t \in Threads, run[t].pc \in Holding PROVE HoldsIt(t)' /\ holder' = holder
    <3>1. run[t].conn = holder /\ holder \in Conns /\ session[holder] = "up"
      BY <2>3 DEF Undisturbed, HoldsIt
    <3>2. c # holder
      BY <2>1, <3>1 DEF ServerDrops, Collect, Referenced
    <3>3. holder' = holder /\ session'[holder] = session[holder]
      BY <2>1, <3>1, <3>2 DEF ServerDrops, Collect, Releases, TypeInv, TypeOK
    <3> QED
      BY <2>2, <3>1, <3>3 DEF HoldsIt
  <2>4. \A w \in Procs : lockConn'[w] \in {NoConn, holder'}
    <3> SUFFICES ASSUME NEW w \in Procs, lockConn[w] # NoConn PROVE lockConn[w] = holder'
      BY <2>2
    <3>1. PICK t \in Threads : run[t].pc \in Holding
      BY Remembered
    <3> QED
      BY <2>3, <3>1 DEF Undisturbed
  <2>5. KeeperApart'
    <3>1. \A x \in Conns : session'[x] = "up" => session[x] = "up"
      BY <2>1 DEF ServerDrops, Collect, Releases, TypeInv, TypeOK
    <3>2. ASSUME keeper.new # NoConn
          PROVE  holder' = holder /\ session'[keeper.new] = session[keeper.new]
      <4>1. keeper.new \in Conns /\ holder = keeper.new /\ session[keeper.new] = "up"
        BY <3>2 DEF Undisturbed, KeeperApart, TypeInv, TypeOK, Optional
      <4>2. c # keeper.new
        BY <2>1, <4>1 DEF ServerDrops, Collect, Referenced
      <4> QED
        BY <2>1, <4>1, <4>2 DEF ServerDrops, Collect, Releases, TypeInv, TypeOK
    <3> QED
      BY <2>2, <3>1, <3>2, KeeperFrame DEF Undisturbed
  <2> QED
    BY <2>2, <2>3, <2>4, <2>5, LockFrame DEF Undisturbed, Logged
<1>2. ASSUME NEW i \in 1..Len(rows), Age(i) PROVE Undisturbed'
  <2>1. UNCHANGED <<holder, session, lockConn, run, keeper, cleaner>>
    BY <1>2 DEF Age
  <2>2. PICK a : rows' = [rows EXCEPT ![i].age = a]
    BY <1>2 DEF Age
  <2>3. rows \in [1..Len(rows) -> Row]
    BY LenProperties DEF TypeInv, TypeOK
  <2>4. Len(rows') = Len(rows)
    BY <2>2, <2>3, LenProperties, ExceptSeq DEF TypeInv, TypeOK
  <2>5. \A j \in 1..Len(rows) : j # i => rows'[j] = rows[j]
    BY <2>2, <2>3
  <2>6. cleaner.pc = "sweep" => i <= cleaner.seen
    BY <1>2 DEF Age
  <2>7. cleaner.pc = "sweep" =>
          \A j \in 1..Len(rows) : j > cleaner.seen => rows'[j].age = rows[j].age
    <3>1. cleaner.seen \in Nat
      BY DEF TypeInv, TypeOK
    <3> QED
      BY <2>5, <2>6, <3>1
  <2>8. \A t \in Threads : run'[t].pc \in Holding => run[t].pc \in Holding /\ HoldsIt(t)'
    BY <2>1 DEF Undisturbed, HoldsIt
  <2>9. KeeperApart'
    BY <2>1, KeeperFrame DEF Undisturbed
  <2> QED
    BY <2>1, <2>4, <2>7, <2>8, <2>9, LockFrame DEF Undisturbed, Logged
<1> QED
  BY <1>1, <1>2

(* The keepalive replaces only a connection that no run has any more, and     *)
(* gives up what it took meanwhile.                                          *)
LEMMA KeepaliveUndisturbed ==
  ASSUME TypeInv, NoLeakedLock, Undisturbed, Keepalive
  PROVE  Undisturbed'
<1>0. UNCHANGED <<run, rows, cleaner>>
  BY DEF Keepalive, ReadConn, Ping, Keeping, Reacquire, Swap
<1>1. ASSUME NEW w \in Procs, lockConn[w] # NoConn
      PROVE  \E t \in Threads : ProcOf[t] = w /\ run[t].pc \in Holding /\ HoldsIt(t) /\ lockConn[w] = holder
  BY <1>1, Remembered DEF Undisturbed
<1>2. ASSUME KeeperApart', UNCHANGED lockConn,
             \A t \in Threads : run[t].pc \in Holding => holder' = holder /\ session'[holder] = session[holder]
      PROVE  Undisturbed'
  <2>1. \A t \in Threads : run'[t].pc \in Holding => run[t].pc \in Holding /\ HoldsIt(t)'
    BY <1>0, <1>2 DEF Undisturbed, HoldsIt
  <2>2. \A w \in Procs : lockConn'[w] \in {NoConn, holder'}
    BY <1>1, <1>2
  <2> QED
    BY <1>0, <1>2, <2>1, <2>2, LockFrame DEF Undisturbed, Logged
<1>3. CASE ReadConn
  <2>1. PICK t \in Threads : ProcOf[t] = Owner /\ run[t].pc \in Holding
    BY <1>1, <1>3, LockAssumption DEF ReadConn
  <2>2. \A u \in Threads : run[u].pc \in Holding => ProcOf[u] = Owner
    BY <2>1 DEF Undisturbed
  <2>3. keeper'.pc = "ping" /\ keeper'.new = NoConn
    BY <1>3 DEF ReadConn, KeeperIdle
  <2>4. KeeperApart'
    BY <1>0, <2>2, <2>3 DEF KeeperApart
  <2> QED
    BY <1>2, <1>3, <2>4 DEF ReadConn, Keeping
<1>4. CASE Ping
  <2>1. UNCHANGED <<holder, session, lockConn>>
    BY <1>4 DEF Ping, Keeping
  <2>2. CASE session[keeper.old] = "up"
    <3>1. keeper' = KeeperIdle
      BY <1>4, <2>2 DEF Ping
    <3>2. \A t \in Threads : run[t].pc \in Holding => run[t].conn # NoConn
      BY LockAssumption DEF Undisturbed, HoldsIt
    <3>3. KeeperApart'
      BY <1>0, <3>1, <3>2 DEF KeeperApart, KeeperIdle
    <3> QED
      BY <1>2, <2>1, <3>3
  <2>3. CASE session[keeper.old] # "up"
    <3>1. keeper'.old = keeper.old /\ keeper'.new = keeper.new
      BY <1>4, <2>3 DEF Ping, TypeInv, TypeOK
    <3>2. KeeperApart'
      BY <1>0, <2>1, <2>3, <3>1 DEF KeeperApart, Undisturbed
    <3> QED
      BY <1>2, <2>1, <3>2
  <2> QED
    BY <2>2, <2>3
<1>5. CASE Reacquire
  <2>1. UNCHANGED lockConn /\ keeper.pc = "reopen"
    BY <1>5 DEF Reacquire
  <2>2. ASSUME NEW c \in Conns, Locks(c), keeper' = [keeper EXCEPT !.pc = "swap", !.new = c]
        PROVE  Undisturbed'
    <3>1. \A t \in Threads : run[t].pc \notin Holding
      BY <2>2, LockAssumption DEF Locks, Undisturbed, HoldsIt
    <3>2. keeper'.old = keeper.old /\ keeper'.new = c /\ c # keeper.old
      BY <2>2 DEF Locks, Referenced, TypeInv, TypeOK
    <3>3. holder' = c /\ session'[c] = "up" /\ session'[keeper.old] = session[keeper.old]
      BY <2>2, <3>2 DEF Locks, TypeInv, TypeOK
    <3>4. KeeperApart'
      BY <1>0, <2>1, <3>1, <3>2, <3>3 DEF KeeperApart, Undisturbed
    <3> QED
      BY <1>2, <2>1, <3>1, <3>4
  <2>3. CASE keeper' = [keeper EXCEPT !.pc = "swap"] /\ UNCHANGED <<holder, session>>
    <3>1. keeper'.old = keeper.old /\ keeper'.new = keeper.new
      BY <2>3 DEF TypeInv, TypeOK
    <3>2. KeeperApart'
      BY <1>0, <2>1, <2>3, <3>1 DEF KeeperApart, Undisturbed
    <3> QED
      BY <1>2, <2>1, <2>3, <3>2
  <2> QED
    BY <1>5, <2>2, <2>3 DEF Reacquire
<1>6. CASE Swap
  <2>1. lockConn[Owner] # keeper.old
    <3> SUFFICES ASSUME lockConn[Owner] = keeper.old PROVE FALSE
      OBVIOUS
    <3>1. keeper.old # NoConn /\ session[keeper.old] # "up"
      BY <1>6 DEF Swap, Undisturbed, KeeperApart, TypeInv, Shape
    <3> QED
      BY <1>1, <3>1, LockAssumption DEF HoldsIt
  <2>2. UNCHANGED lockConn /\ Releases(keeper.new) /\ keeper' = KeeperIdle
    BY <1>6, <2>1 DEF Swap
  <2>3. \A t \in Threads : run[t].pc \in Holding =>
          run[t].conn # NoConn /\ keeper.new = NoConn /\ UNCHANGED <<holder, session>>
    BY <2>2, LockAssumption DEF Undisturbed, KeeperApart, HoldsIt, Releases
  <2>4. KeeperApart'
    BY <1>0, <2>2, <2>3 DEF KeeperApart, KeeperIdle
  <2> QED
    BY <1>2, <2>2, <2>3, <2>4
<1> QED
  BY <1>3, <1>4, <1>5, <1>6 DEF Keepalive

(* The cleanup, short of forcing the lock, only looks and sweeps.              *)
LEMMA CleanupUndisturbed ==
  ASSUME TypeInv, Undisturbed, Cleanup, disorder' = {}
  PROVE  Undisturbed'
<1>1. UNCHANGED <<holder, session, lockConn, run, keeper>>
  BY DEF Cleanup, CleanupStarts, FindOverdue, ForceRelease, ForgetLock, KillRow, CheckLock, CheckFails, Sweep,
         Undisturbed
<1>2. \A t \in Threads : run'[t].pc \in Holding => run[t].pc \in Holding /\ HoldsIt(t)'
  BY <1>1 DEF Undisturbed, HoldsIt
<1>3. \A t \in Threads : (Logged(t)' <=> Logged(t)) /\ run'[t] = run[t]
  BY <1>1 DEF Logged
<1>4. \A w \in Procs : lockConn'[w] \in {NoConn, holder'}
  BY <1>1 DEF Undisturbed
<1>5. Len(rows) \in Nat
  BY LenProperties DEF TypeInv, TypeOK
<1>10. KeeperApart'
  BY <1>1, KeeperFrame DEF Undisturbed
<1>6. CASE CheckLock
  <2>1. rows' = rows /\ cleaner' = [pc |-> "sweep", row |-> 0, held |-> holder # NoConn, seen |-> Len(rows)]
    BY <1>6 DEF CheckLock
  <2>2. ~cleaner'.held => \A t \in Threads : ~Logged(t)
    BY <2>1, LockAssumption DEF Undisturbed, HoldsIt, Logged, Holding
  <2>3. /\ cleaner'.seen = Len(rows) /\ cleaner'.pc = "sweep"
    BY <2>1
  <2>4. \A i \in 1..Len(rows) : ~(i > Len(rows))
    BY <1>5
  <2> QED
    BY <1>1, <1>2, <1>3, <1>4, <1>5, <1>10, <2>1, <2>2, <2>3, <2>4 DEF Undisturbed
<1>7. CASE CleanupStarts \/ FindOverdue
  <2>1. rows' = rows /\ cleaner'.pc \notin {"forget", "kill", "sweep"}
    BY <1>7 DEF CleanupStarts, FindOverdue, TypeInv, TypeOK
  <2> QED
    BY <1>1, <1>2, <1>3, <1>4, <1>10, <2>1, LockFrame DEF Undisturbed
<1>8. CASE Sweep
  <2>1. cleaner'.pc = "idle"
    BY <1>8 DEF Sweep, CleanerIdle
  <2>2. Len(rows') = Len(rows)
    BY <1>5, <1>8 DEF Sweep
  <2> QED
    BY <1>1, <1>2, <1>3, <1>4, <1>10, <2>1, <2>2, LockFrame DEF Undisturbed
<1>9. ~CheckFails
  BY DEF CheckFails
<1> QED
  BY <1>6, <1>7, <1>8, <1>9 DEF Cleanup, ForceRelease, ForgetLock, KillRow, Undisturbed

(* A crash cuts only connections of the process that dies.                   *)
LEMMA CrashUndisturbed ==
  ASSUME TypeInv, NoLeakedLock, Undisturbed, NEW w \in Procs, Crash(w)
  PROVE  Undisturbed'
<1>1. UNCHANGED <<holder, rows>>
  BY DEF Crash
<1>2. /\ \A t \in Threads : run'[t] = IF ProcOf[t] = w THEN RunIdle ELSE run[t]
      /\ \A x \in Procs : lockConn'[x] \in {lockConn[x], NoConn}
      /\ keeper' \in {keeper, KeeperIdle} /\ cleaner' \in {cleaner, CleanerIdle}
  BY DEF Crash, TypeInv, TypeOK
<1>3. \A t \in Threads : run'[t].pc \in Holding => run'[t] = run[t] /\ ProcOf[t] # w
  BY <1>2 DEF RunIdle, Holding, Working
<1>4. ASSUME NEW t \in Threads, run'[t].pc \in Holding
      PROVE  HoldsIt(t)'
  <2>1. run'[t] = run[t] /\ ProcOf[t] # w /\ run[t].pc \in Holding
    BY <1>3, <1>4
  <2>2. run[t].conn = holder /\ holder \in Conns /\ session[holder] = "up" /\ holder # NoConn
    BY <2>1, LockAssumption DEF Undisturbed, HoldsIt
  <2>3. lockConn[w] # holder
    <3> SUFFICES ASSUME lockConn[w] = holder PROVE FALSE
      OBVIOUS
    <3>1. PICK u \in Threads : ProcOf[u] = w /\ run[u].pc \in Holding
      BY <2>2, Remembered
    <3> QED
      BY <2>1, <3>1 DEF Undisturbed
  <2>4. \A u \in Threads : ProcOf[u] = w => holder \notin {run[u].conn, run[u].drop}
    <3> SUFFICES ASSUME NEW u \in Threads, ProcOf[u] = w
                 PROVE  holder \notin {run[u].conn, run[u].drop}
      OBVIOUS
    <3>1. run[u].pc \in {"idle", "start"}
      BY <2>1, HoldingPcs DEF Undisturbed
    <3> QED
      BY <2>2, <3>1 DEF TypeInv, Shape
  <2>5. w = Owner => holder \notin {keeper.old, keeper.new}
    BY <2>1, <2>2 DEF Undisturbed, KeeperApart
  <2>6. session'[holder] = "up"
    BY <2>2, <2>3, <2>4, <2>5 DEF Crash
  <2> QED
    BY <1>1, <2>1, <2>2, <2>6 DEF HoldsIt
<1>5. cleaner'.pc \notin {"forget", "kill"}
  BY <1>2 DEF Undisturbed, CleanerIdle
<1>9. KeeperApart'
  <2>1. CASE keeper' = KeeperIdle
    <3>1. \A t \in Threads : run'[t].pc \in Holding => run'[t].conn # NoConn
      BY <1>4, LockAssumption DEF HoldsIt
    <3> QED
      BY <2>1, <3>1 DEF KeeperApart, KeeperIdle
  <2>2. CASE keeper' = keeper /\ w # Owner
    <3>1. \A x \in Conns : session'[x] = "up" => session[x] = "up"
      BY DEF Crash, TypeInv, TypeOK
    <3>2. ASSUME keeper.new # NoConn PROVE session'[keeper.new] = session[keeper.new]
      <4>1. \A t \in Threads : run[t].pc \notin Holding
        BY <3>2 DEF Undisturbed, KeeperApart
      <4>2. lockConn[w] # keeper.new
        BY <3>2, <4>1, Remembered
      <4>3. \A t \in Threads : keeper.new \notin {run[t].conn, run[t].drop}
        BY <3>2, <4>1, HoldingPcs DEF TypeInv, Shape
      <4>4. keeper.new \in Conns
        BY <3>2 DEF TypeInv, TypeOK, Optional
      <4> QED
        BY <2>2, <4>2, <4>3, <4>4 DEF Crash, TypeInv, TypeOK
    <3> QED
      BY <1>1, <1>3, <2>2, <3>1, <3>2, KeeperFrame DEF Undisturbed
  <2> QED
    BY <2>1, <2>2 DEF Crash
<1>6. cleaner' = cleaner \/ cleaner'.pc # "sweep"
  BY <1>2 DEF CleanerIdle
<1>7. \A t \in Threads : Logged(t)' => Logged(t) /\ run'[t].log = run[t].log
  BY <1>3 DEF Logged, Holding
<1>8. \A x \in Procs : lockConn'[x] \in {NoConn, holder'}
  BY <1>1, <1>2 DEF Undisturbed
<1> QED
  BY <1>1, <1>3, <1>4, <1>5, <1>6, <1>7, <1>8, <1>9, LockFrame

(* Every step that disturbs nothing keeps the run alone.                      *)
LEMMA StepUndisturbed == TypeInv /\ NoLeakedLock /\ LockInv /\ [Next]_vars => LockInv'
<1> SUFFICES ASSUME TypeInv, NoLeakedLock, LockInv, [Next]_vars, disorder' = {} PROVE Undisturbed'
  BY DEF LockInv
<1>1. disorder = {}
  BY DEF Next, vars, Server, Keepalive, Cleanup, RunSteps, Trigger, Acquire, Skip, Publish, CreateLog,
     NextUrl, EndLoop, Lost, Drafts, Complete, Fail, Close, Drop, Release, Fetched, RunRaises,
     ServerDrops, Collect, ReadConn, Ping, Keeping, Reacquire, Swap, CleanupStarts, FindOverdue, ForceRelease,
     ForgetLock, KillRow, CheckLock, CheckFails, Sweep, Age, Cut, Crash
<1>2. Undisturbed
  BY <1>1 DEF LockInv
<1>3. CASE UNCHANGED vars
  BY <1>2, <1>3 DEF vars, Undisturbed, KeeperApart, HoldsIt, Logged
<1>4. ASSUME NEW t \in Threads, Trigger(t) \/ RunSteps(t) \/ Fetched(t) \/ RunRaises(t)
      PROVE  Undisturbed'
  <2>1. CASE Acquire(t)
    BY <1>2, <2>1, AcquireUndisturbed
  <2>2. CASE CreateLog(t)
    BY <1>2, <2>2, CreateLogUndisturbed
  <2>3. CASE Release(t)
    BY <1>2, <2>3, ReleaseUndisturbed
  <2>4. CASE ~Acquire(t) /\ ~CreateLog(t) /\ ~Release(t)
    BY <1>2, <1>4, <2>4, MoveUndisturbed DEF RunSteps
  <2> QED
    BY <2>1, <2>2, <2>3, <2>4
<1>5. CASE Server \/ (\E i \in 1..Len(rows) : Age(i))
  BY <1>2, <1>5, ServerUndisturbed
<1>6. CASE Keepalive
  BY <1>2, <1>6, KeepaliveUndisturbed
<1>7. CASE Cleanup
  BY <1>2, <1>7, CleanupUndisturbed
<1>8. ASSUME NEW w \in Procs, Crash(w) PROVE Undisturbed'
  BY <1>2, <1>8, CrashUndisturbed
<1>9. ASSUME NEW c \in Conns, Cut(c) PROVE FALSE
  BY <1>9 DEF Cut
<1> QED
  BY <1>3, <1>4, <1>5, <1>6, <1>7, <1>8, <1>9 DEF Next

(* The invariant of the undisturbed lock holds throughout.                    *)
THEOREM LockInvariant == Spec => [](TypeInv /\ NoLeakedLock /\ LockInv)
<1>1. Init => LockInv
  BY LockAssumption DEF Init, LockInv, Undisturbed, KeeperApart, RunIdle, KeeperIdle, CleanerIdle, Holding, Working,
                        Logged
<1>2. TypeInv /\ NoLeakedLock /\ LockInv /\ [Next]_vars => LockInv'
  BY StepUndisturbed
<1> QED
  BY <1>1, <1>2, LockTypeInvariant, NoLeak, PTL DEF Spec

(* As long as no connection was cut and no lock force-released, whatever        *)
(* crashes or raises, no two runs are between acquiring the lock and dropping   *)
(* it.                                                                     *)
THEOREM OneRunCorrect == Spec => []OneRunAtATime
<1>1. LockInv => OneRunAtATime
  BY DEF LockInv, Undisturbed, OneRunAtATime
<1> QED
  BY <1>1, LockInvariant, PTL

(* Under the same condition the cleanup fails no row of a working run.         *)
THEOREM LiveRowsCorrect == Spec => LiveRowsSpared
<1> DEFINE Spared == disorder' = {} /\ (Sweep \/ KillRow)
                     => \A i \in RunningRows : OwnRow(i) => rows'[i].status = "running"
<1>1. TypeInv /\ LockInv /\ [Next]_vars => [Spared]_vars
  <2> SUFFICES ASSUME TypeInv, LockInv, Next, disorder' = {}, Sweep \/ KillRow,
                      NEW i \in RunningRows, OwnRow(i)
               PROVE  rows'[i].status = "running"
    OBVIOUS
  <2>1. disorder = {}
    BY DEF Sweep, KillRow
  <2>2. Undisturbed /\ Sweep
    BY <2>1 DEF LockInv, Undisturbed, KillRow
  <2>3. i \in 1..Len(rows) /\ rows[i].status = "running" /\ Len(rows) \in Nat
    BY LenProperties DEF RunningRows, Running, TypeInv, TypeOK
  <2>4. PICK t \in Threads : run[t].log = i /\ run[t].pc \in Working
    BY DEF OwnRow
  <2>5. Logged(t) /\ i = Len(rows)
    BY <2>2, <2>3, <2>4 DEF Logged, Undisturbed
  <2>6. cleaner.pc = "sweep" /\ cleaner.seen \in Nat
    BY <2>2 DEF Sweep, TypeInv, TypeOK
  <2>7. CASE cleaner.held
    <3>1. \A j \in RunningRows : ~(i < j)
      BY <2>3, <2>5 DEF RunningRows
    <3>2. ~Zombie(i)
      BY <2>7, <3>1 DEF Zombie
    <3> QED
      BY <2>2, <2>3, <3>2 DEF Sweep
  <2>8. CASE ~cleaner.held
    <3>1. i > cleaner.seen
      BY <2>2, <2>4, <2>5, <2>6, <2>8 DEF Undisturbed
    <3>2. rows[i].age = "young"
      BY <2>2, <2>3, <2>6, <3>1 DEF Undisturbed
    <3>3. ~Zombie(i)
      BY <2>8, <3>2 DEF Zombie
    <3> QED
      BY <2>2, <2>3, <3>3 DEF Sweep
  <2> QED
    BY <2>7, <2>8
<1> QED
  BY <1>1, LockInvariant, PTL DEF Spec, LiveRowsSpared
===============================================================================
