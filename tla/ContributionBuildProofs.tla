---------------------- MODULE ContributionBuildProofs ----------------------
(***************************************************************************)
(* Proofs about ContributionBuild, for any builds, snapshots and branches  *)
(* and every fault: a build answers for its own snapshot only, even among  *)
(* others, and while builds do not overlap the journal can be read and     *)
(* keeps what it synced.                                                   *)
(***************************************************************************)
EXTENDS ContributionBuild, SequenceTheorems, TLAPS

----------------------------------------------------------------------------
(* The inductive invariant. *)

\* A journal with a torn header is empty; every record is its snapshot's.
Consistent(f) ==
  f # NoFile =>
    /\ f.header = Torn => f.records = <<>>
    /\ \A i \in DOMAIN f.records : f.records[i] # Bad => f.records[i].result = f.header

\* Where a build writes after it has seen, or written, the header of its snapshot.
Keyed == {"syncHeader", "truncate", "syncCut", "append", "rest", "syncAppend"}

\* What a build has, wherever it is.
BuildInv(p) ==
  /\ pc[p] # "idle" => snapshot[p] \in Snapshots
  /\ pc[p] \in {"idle", "load"} => results[p] = Nothing /\ ready[p] = {} /\ reported[p] = {}
  /\ \A b \in Branches : results[p][b] # NoResult =>
       results[p][b] = snapshot[p] /\ b \in BranchesOf[snapshot[p]]
  /\ \A b \in ready[p] : b \in BranchesOf[snapshot[p]] /\ results[p][b] = NoResult
  /\ pc[p] \in Saving => cur[p] \in Branches /\ results[p][cur[p]] # NoResult
  /\ pc[p] = "done" => \A b \in BranchesOf[snapshot[p]] : results[p][b] # NoResult
  /\ pc[p] = "header" => file # NoFile /\ file.header = Torn
  /\ pc[p] \in Keyed => file # NoFile /\ file.header = snapshot[p]

SharedInv ==
  /\ TypeOK
  /\ Consistent(file) /\ Consistent(disk)
  /\ \A p \in Builds : BuildInv(p)
  /\ \A p, q \in Builds : pc[p] = "header" /\ pc[q] = "header" => p = q

\* What a build that is alone knows of the journal.
LonelyInv(p) ==
  /\ pc[p] = "truncate" => cut[p] = file.records
  /\ pc[p] \in {"header", "syncHeader", "syncCut", "append"} => file.tail = Whole
  /\ pc[p] = "rest" => file.tail = p
  /\ pc[p] \notin {"idle", "load"} /\ file # NoFile =>
       \A i \in DOMAIN file.records :
         LET b == file.records[i].branch IN
         /\ b \in BranchesOf[snapshot[p]] => results[p][b] # NoResult
         /\ pc[p] \in Saving \ {"syncAppend"} => b # cur[p]
  /\ pc[p] = "syncAppend" => \E i \in DOMAIN file.records : file.records[i] = Record(p)
  /\ \A b \in reported[p] :
       disk # NoFile /\ \E i \in DOMAIN disk.records :
         disk.records[i] = [branch |-> b, result |-> snapshot[p]]

AloneInv ==
  /\ \A p, q \in Builds : pc[p] # "idle" /\ pc[q] # "idle" => p = q
  /\ file # NoFile => Valid(file.records)
  /\ disk # NoFile => Valid(disk.records) /\ file # NoFile /\ IsPart(disk, file)
  /\ \A p \in Builds : LonelyInv(p)

BuildsInv == SharedInv /\ (alone => AloneInv)

----------------------------------------------------------------------------
(* Journals. *)

LEMMA KeysDiffer ==
  /\ Torn \notin Snapshots /\ NoSnapshot \notin Snapshots /\ NoResult \notin Snapshots
  /\ NoBranch \notin Branches /\ Whole \notin Builds /\ Scrap \notin Builds /\ Whole # Scrap
  /\ \A s \in Snapshots : BranchesOf[s] \subseteq Branches
  /\ NoFile \notin Journals /\ Bad \notin Records
  BY BuildAssumption, JournalAssumption

TornJournal == [header |-> Torn, records |-> <<>>, tail |-> Whole]

LEMMA TornIsConsistent ==
  TornJournal \in Journals /\ Consistent(TornJournal) /\ Valid(TornJournal.records)
  BY DEF TornJournal, Journals, Consistent, Valid

\* What is left of a journal that is cut after some line.
LEMMA PrefixIsConsistent ==
  ASSUME NEW f \in Journals, Consistent(f), NEW k \in 0 .. Len(f.records),
         NEW t \in Builds \union {Whole, Scrap}
  PROVE  LET g == [header |-> f.header, records |-> SubSeq(f.records, 1, k), tail |-> t]
         IN /\ g \in Journals /\ Consistent(g) /\ IsPart(g, f)
            /\ Valid(f.records) => Valid(g.records)
  <1> DEFINE S == Records \union {Bad}
             cutTo == SubSeq(f.records, 1, k)
             g == [header |-> f.header, records |-> cutTo, tail |-> t]
  <1>1. f.records \in Seq(S) /\ f.header \in Snapshots \union {Torn} /\ f # NoFile
    BY KeysDiffer DEF Journals
  <1>2. /\ cutTo \in Seq(S) /\ Len(cutTo) = k
        /\ \A i \in 1 .. k : cutTo[i] = f.records[i]
        /\ DOMAIN cutTo = 1 .. k /\ 1 .. k \subseteq DOMAIN f.records
    BY <1>1
  <1> HIDE DEF cutTo
  <1>3. g \in Journals
    BY <1>1, <1>2 DEF Journals
  <1>4. f.header = Torn => cutTo = <<>>
    BY <1>1, <1>2 DEF Consistent
  <1>5. Consistent(g)
    BY <1>1, <1>2, <1>4 DEF Consistent
  <1>6. IsPart(g, f)
    BY <1>2 DEF IsPart
  <1>7. Valid(f.records) => Valid(cutTo)
    BY <1>2 DEF Valid
  <1>8. QED
    BY <1>3, <1>5, <1>6, <1>7 DEF cutTo

\* An unfinished line that loses its writer changes neither header nor records.
LEMMA OrphanedKeeps ==
  ASSUME NEW f \in Journals \union {NoFile}, NEW P \in SUBSET Builds, Consistent(f)
  PROVE  LET g == Orphaned(f, P)
         IN /\ g \in Journals \union {NoFile} /\ Consistent(g)
            /\ g = NoFile <=> f = NoFile
            /\ f # NoFile => /\ g.header = f.header /\ g.records = f.records
                             /\ g.tail = IF f.tail \in P THEN Scrap ELSE f.tail
  BY KeysDiffer DEF Orphaned, Journals, Consistent

----------------------------------------------------------------------------
(* Steps of one build. *)

Same(q) ==
  /\ pc'[q] = pc[q] /\ snapshot'[q] = snapshot[q] /\ results'[q] = results[q]
  /\ ready'[q] = ready[q] /\ cur'[q] = cur[q] /\ reported'[q] = reported[q]

\* Where a build counts on the header of the journal.
HeaderStands ==
  file # NoFile => file' # NoFile /\ file'.header = file.header

LEMMA OneStep ==
  ASSUME SharedInv, NEW p \in Builds, \A q \in Builds \ {p} : Same(q),
         HeaderStands \/ pc[p] = "header",
         TypeOK', Consistent(file)', Consistent(disk)', BuildInv(p)',
         pc'[p] = "header" => pc[p] = "header" \/ file = NoFile
  PROVE  SharedInv'
  <1>1. ASSUME NEW q \in Builds \ {p}
        PROVE  BuildInv(q)'
    <2>1. BuildInv(q) /\ Same(q) /\ q \in Builds
      BY DEF SharedInv
    <2>2. pc[q] \in Keyed \union {"header"} =>
            file # NoFile /\ file' # NoFile /\ file'.header = file.header
      <3>1. CASE HeaderStands
        BY <2>1, <3>1 DEF HeaderStands, BuildInv
      <3>2. CASE pc[p] = "header"
        BY <2>1, <3>2, KeysDiffer DEF SharedInv, BuildInv, Keyed
      <3>3. QED
        BY <3>1, <3>2
    <2>3. QED
      BY <2>1, <2>2 DEF BuildInv, Same
  <1>2. \A q, r \in Builds : pc'[q] = "header" /\ pc'[r] = "header" => q = r
    BY DEF SharedInv, Same, BuildInv
  <1>3. QED
    BY <1>1, <1>2 DEF SharedInv

LEMMA LonelyIdle ==
  ASSUME NEW p \in Builds, pc'[p] = "idle", BuildInv(p)'
  PROVE  LonelyInv(p)'
  BY DEF LonelyInv, BuildInv, Saving

\* Alone, a step of a build is the only thing that can disturb the journal.
LEMMA OneStepAlone ==
  ASSUME SharedInv', NEW p \in Builds, \A q \in Builds \ {p} : Same(q),
         AloneInv, pc[p] # "idle",
         file' # NoFile => Valid(file'.records),
         disk' # NoFile => Valid(disk'.records) /\ file' # NoFile /\ IsPart(disk', file'),
         LonelyInv(p)'
  PROVE  AloneInv'
  <1>1. \A q \in Builds \ {p} : pc[q] = "idle" /\ pc'[q] = "idle"
    BY DEF AloneInv, Same
  <1>2. \A q \in Builds : LonelyInv(q)'
    BY <1>1, LonelyIdle DEF SharedInv
  <1>3. QED
    BY <1>1, <1>2 DEF AloneInv

LEMMA OverStep ==
  ASSUME BuildsInv, NEW p \in Builds, pc[p] # "idle", Over(p)
  PROVE  BuildsInv'
  <1> USE DEF BuildsInv, Over
  <1>1. /\ file' \in Journals \union {NoFile} /\ Consistent(file') /\ HeaderStands
        /\ file' # NoFile => file # NoFile /\ file'.records = file.records
    BY OrphanedKeeps DEF SharedInv, TypeOK, HeaderStands
  <1>2. (\A q \in Builds \ {p} : Same(q)) /\ pc'[p] = "idle" /\ BuildInv(p)'
    BY KeysDiffer DEF Forget, Same, BuildInv, Nothing, Saving, Keyed, SharedInv, TypeOK
  <1>3. TypeOK'
    BY <1>1 DEF Forget, SharedInv, TypeOK, Nothing, Pcs
  <1>4. SharedInv'
    BY <1>1, <1>2, <1>3, OneStep DEF SharedInv
  <1>5. ASSUME alone
        PROVE  AloneInv'
    <2>1. file' # NoFile => Valid(file'.records)
      BY <1>1, <1>5 DEF AloneInv
    <2>2. disk' # NoFile => Valid(disk'.records) /\ file' # NoFile /\ IsPart(disk', file')
      BY <1>1, <1>5, OrphanedKeeps DEF AloneInv, IsPart, SharedInv, TypeOK, HeaderStands
    <2>3. QED
      BY <1>2, <1>4, <1>5, <2>1, <2>2, OneStepAlone, LonelyIdle
  <1>6. QED
    BY <1>4, <1>5 DEF Forget

LEMMA StartStep ==
  ASSUME BuildsInv, NEW p \in Builds, Start(p)
  PROVE  BuildsInv'
  <1> USE DEF BuildsInv, Start, At, Goto, store
  <1>1. /\ \A q \in Builds \ {p} : Same(q) /\ (alone' => pc'[q] = "idle")
        /\ pc[p] = "idle" /\ pc'[p] = "load"
    BY DEF Same, SharedInv, TypeOK
  <1>2. BuildInv(p)'
    BY DEF BuildInv, SharedInv, TypeOK, Saving, Keyed, Nothing
  <1>3. TypeOK' /\ HeaderStands
    BY DEF SharedInv, TypeOK, Pcs, HeaderStands
  <1>4. SharedInv'
    BY <1>1, <1>2, <1>3, OneStep DEF SharedInv
  <1>5. ASSUME alone'
        PROVE  AloneInv'
    <2>1. LonelyInv(p)'
      BY <1>1, <1>2 DEF LonelyInv, BuildInv, Saving
    <2>2. \A q \in Builds : LonelyInv(q)'
      BY <1>1, <1>4, <1>5, <2>1, LonelyIdle DEF SharedInv
    <2>3. QED
      BY <1>1, <1>5, <2>2 DEF AloneInv
  <1>6. QED
    BY <1>4, <1>5

\* A build takes over only what its own snapshot recorded.
LEMMA LoadStep ==
  ASSUME BuildsInv, NEW p \in Builds, Load(p)
  PROVE  BuildsInv'
  <1> DEFINE mine == BranchesOf[snapshot[p]]
             R == [b \in Branches |-> IF b \in mine THEN Completed(p, b) ELSE NoResult]
  <1> USE DEF BuildsInv, Load, At, Goto, store
  <1>1. (\A q \in Builds \ {p} : Same(q)) /\ pc[p] = "load" /\ pc'[p] = "collect"
    BY DEF Same, SharedInv, TypeOK
  <1>2. snapshot[p] \in Snapshots /\ ready[p] = {} /\ reported[p] = {}
    BY <1>1 DEF SharedInv, BuildInv
  <1>3. file # NoFile => /\ file \in Journals /\ file.header = snapshot[p]
                         /\ Valid(file.records)
                         /\ \A i \in DOMAIN file.records : file.records[i].result = snapshot[p]
    BY DEF Usable, SameKey, SharedInv, TypeOK, Consistent, Valid
  <1>4. ASSUME NEW b \in Branches
        PROVE  /\ Completed(p, b) \in {NoResult, snapshot[p]}
               /\ file # NoFile =>
                    \A i \in DOMAIN file.records :
                      file.records[i].branch = b => Completed(p, b) = snapshot[p]
    BY <1>3 DEF Completed, Recorded
  <1>5. results'[p] = R /\ snapshot'[p] = snapshot[p] /\ ready'[p] = {} /\ reported'[p] = {}
    BY <1>2 DEF SharedInv, TypeOK
  <1>6. R \in [Branches -> Snapshots \union {NoResult}]
    BY <1>2, <1>4
  <1>7. BuildInv(p)'
    BY <1>1, <1>2, <1>4, <1>5 DEF BuildInv, Saving, Keyed
  <1>8. TypeOK' /\ HeaderStands
    BY <1>6 DEF SharedInv, TypeOK, Pcs, HeaderStands
  <1>9. SharedInv'
    BY <1>1, <1>7, <1>8, OneStep DEF SharedInv
  <1>10. ASSUME alone
         PROVE  AloneInv'
    <2>1. ASSUME file # NoFile, NEW i \in DOMAIN file.records,
                 file.records[i].branch \in mine
          PROVE  results'[p][file.records[i].branch] # NoResult
      BY <1>2, <1>4, <1>5, <2>1, KeysDiffer
    <2>2. LonelyInv(p)'
      BY <1>1, <1>5, <2>1 DEF LonelyInv, Saving
    <2>3. QED
      BY <1>1, <1>9, <1>10, <2>2, OneStepAlone DEF AloneInv
  <1>11. QED
    BY <1>9, <1>10

LEMMA AnalyseStep ==
  ASSUME BuildsInv, NEW p \in Builds, NEW b \in Branches, Analyse(p, b)
  PROVE  BuildsInv'
  <1> USE DEF BuildsInv, Analyse, store, Unfinished
  <1>1. (\A q \in Builds \ {p} : Same(q)) /\ pc'[p] = pc[p] /\ pc[p] # "idle"
    BY DEF Same, SharedInv, TypeOK, Saving
  <1>2. /\ ready'[p] = ready[p] \union {b} /\ results[p][b] = NoResult
        /\ b \in BranchesOf[snapshot[p]]
    BY DEF SharedInv, TypeOK
  <1>3. BuildInv(p)'
    BY <1>1, <1>2 DEF SharedInv, BuildInv, Saving
  <1>4. TypeOK' /\ HeaderStands
    <2>1. ready' \in [Builds -> SUBSET Branches] /\ failed' \in [Builds -> SUBSET Branches]
      BY DEF SharedInv, TypeOK
    <2>2. QED
      BY <2>1 DEF SharedInv, TypeOK, HeaderStands
  <1>5. SharedInv'
    BY <1>1, <1>3, <1>4, OneStep DEF SharedInv
  <1>6. ASSUME alone
        PROVE  AloneInv'
    <2>1. LonelyInv(p)'
      BY <1>1, <1>6 DEF AloneInv, LonelyInv, Record
    <2>2. QED
      BY <1>1, <1>5, <1>6, <2>1, OneStepAlone DEF AloneInv
  <1>7. QED
    BY <1>5, <1>6

LEMMA CollectStep ==
  ASSUME BuildsInv, NEW p \in Builds, Collect(p)
  PROVE  BuildsInv'
  <1> USE DEF BuildsInv, Collect, At, Goto, store
  <1>1. (\A q \in Builds \ {p} : Same(q)) /\ pc[p] = "collect" /\ pc'[p] = "inspect"
    BY DEF Same, SharedInv, TypeOK
  <1>2. PICK b \in ready[p] \ failed[p] :
          /\ results' = [results EXCEPT ![p][b] = snapshot[p]]
          /\ ready' = [ready EXCEPT ![p] = @ \ {b}]
          /\ cur' = [cur EXCEPT ![p] = b]
    OBVIOUS
  <1>3. /\ b \in Branches /\ b \in BranchesOf[snapshot[p]] /\ results[p][b] = NoResult
        /\ snapshot[p] \in Snapshots
        /\ cur'[p] = b /\ ready'[p] = ready[p] \ {b}
        /\ results'[p] = [results[p] EXCEPT ![b] = snapshot[p]]
        /\ results[p] \in [Branches -> Snapshots \union {NoResult}]
    BY <1>1, <1>2 DEF SharedInv, TypeOK, BuildInv
  <1>4. /\ \A x \in Branches : results'[p][x] = IF x = b THEN snapshot[p] ELSE results[p][x]
        /\ \A x \in ready'[p] : x # b
        /\ snapshot'[p] = snapshot[p] /\ reported'[p] = reported[p]
    BY <1>3
  <1>5. BuildInv(p)'
    BY <1>1, <1>3, <1>4, KeysDiffer DEF SharedInv, BuildInv, TypeOK, Saving, Keyed
  <1>6. TypeOK' /\ HeaderStands
    BY <1>2, <1>3 DEF SharedInv, TypeOK, HeaderStands, Pcs, Saving
  <1>7. SharedInv'
    BY <1>1, <1>5, <1>6, OneStep DEF SharedInv
  <1>8. ASSUME alone
        PROVE  AloneInv'
    <2>1. ASSUME file # NoFile, NEW i \in DOMAIN file.records
          PROVE  LET c == file.records[i].branch IN
                 /\ c \in BranchesOf[snapshot[p]] => results'[p][c] # NoResult
                 /\ c # b
      BY <1>1, <1>3, <1>4, <1>8, <2>1, KeysDiffer DEF AloneInv, LonelyInv
    <2>2. LonelyInv(p)'
      BY <1>1, <1>3, <1>4, <1>8, <2>1 DEF AloneInv, LonelyInv
    <2>3. QED
      BY <1>1, <1>7, <1>8, <2>2, OneStepAlone DEF AloneInv
  <1>9. QED
    BY <1>7, <1>8

LEMMA FinishStep ==
  ASSUME BuildsInv, NEW p \in Builds, Finish(p)
  PROVE  BuildsInv'
  <1> USE DEF BuildsInv, Finish, At, Goto, store, locals
  <1>1. (\A q \in Builds \ {p} : Same(q)) /\ pc[p] = "collect" /\ pc'[p] = "done"
    BY DEF Same, SharedInv, TypeOK
  <1>2. BuildInv(p)'
    BY <1>1 DEF SharedInv, BuildInv, Unfinished, Saving, Keyed
  <1>3. TypeOK' /\ HeaderStands
    BY DEF SharedInv, TypeOK, HeaderStands, Pcs
  <1>4. SharedInv'
    BY <1>1, <1>2, <1>3, OneStep DEF SharedInv
  <1>5. ASSUME alone
        PROVE  AloneInv'
    <2>1. LonelyInv(p)'
      BY <1>1, <1>5 DEF AloneInv, LonelyInv, Saving
    <2>2. QED
      BY <1>1, <1>4, <1>5, <2>1, OneStepAlone DEF AloneInv
  <1>6. QED
    BY <1>4, <1>5

----------------------------------------------------------------------------
(* Steps of a save. *)

LEMMA InspectStep ==
  ASSUME BuildsInv, NEW p \in Builds, Inspect(p)
  PROVE  BuildsInv'
  <1> USE DEF BuildsInv, Inspect, At, Goto, store
  <1>1. /\ \A q \in Builds \ {p} : Same(q)
        /\ pc[p] = "inspect" /\ pc'[p] \in {"create", "append", "truncate"}
        /\ pc'[p] = "create" <=> file = NoFile
        /\ pc'[p] = "append" => file.tail = Whole
        /\ cut'[p] = IF file = NoFile THEN <<>> ELSE file.records
    BY DEF Same, SharedInv, TypeOK
  <1>2. BuildInv(p)'
    BY <1>1 DEF SharedInv, BuildInv, Saving, Keyed, SameKey
  <1>3. TypeOK' /\ HeaderStands
    <2>1. cut' \in [Builds -> Seq(Records \union {Bad})]
      BY DEF SharedInv, TypeOK, Journals
    <2>2. pc' \in [Builds -> Pcs]
      BY <1>1 DEF SharedInv, TypeOK, Pcs, Saving
    <2>3. QED
      BY <2>1, <2>2 DEF SharedInv, TypeOK, HeaderStands
  <1>4. SharedInv'
    BY <1>1, <1>2, <1>3, OneStep DEF SharedInv
  <1>5. ASSUME alone
        PROVE  AloneInv'
    <2>1. LonelyInv(p)'
      BY <1>1, <1>5 DEF AloneInv, LonelyInv, Saving
    <2>2. QED
      BY <1>1, <1>4, <1>5, <2>1, OneStepAlone DEF AloneInv
  <1>6. QED
    BY <1>4, <1>5

LEMMA CreateStep ==
  ASSUME BuildsInv, NEW p \in Builds, Create(p)
  PROVE  BuildsInv'
  <1> USE DEF BuildsInv, Create, At, Goto, locals
  <1>1. /\ \A q \in Builds \ {p} : Same(q)
        /\ pc[p] = "create" /\ pc'[p] = "header" /\ file = NoFile /\ file' = TornJournal
    BY DEF Same, SharedInv, TypeOK, TornJournal
  <1>2. TornJournal # NoFile
    BY TornIsConsistent, KeysDiffer
  <1>3. BuildInv(p)'
    BY <1>1, <1>2 DEF SharedInv, BuildInv, Saving, Keyed, TornJournal
  <1>4. TypeOK' /\ HeaderStands
    BY <1>1, TornIsConsistent DEF SharedInv, TypeOK, HeaderStands, Pcs, Saving
  <1>5. SharedInv'
    BY <1>1, <1>3, <1>4, OneStep, TornIsConsistent DEF SharedInv
  <1>6. ASSUME alone
        PROVE  AloneInv'
    <2>1. LonelyInv(p)'
      BY <1>1, <1>6 DEF AloneInv, LonelyInv, TornJournal
    <2>2. QED
      BY <1>1, <1>5, <1>6, <2>1, OneStepAlone, TornIsConsistent DEF AloneInv
  <1>7. QED
    BY <1>5, <1>6

LEMMA WriteHeaderStep ==
  ASSUME BuildsInv, NEW p \in Builds, WriteHeader(p)
  PROVE  BuildsInv'
  <1> USE DEF BuildsInv, WriteHeader, At, Goto, locals
  <1>1. /\ \A q \in Builds \ {p} : Same(q)
        /\ pc[p] = "header" /\ pc'[p] = "syncHeader"
    BY DEF Same, SharedInv, TypeOK
  <1>2. /\ file \in Journals /\ file # NoFile /\ file.header = Torn /\ file.records = <<>>
        /\ snapshot[p] \in Snapshots
    BY <1>1 DEF SharedInv, TypeOK, BuildInv, Consistent
  <1>3. /\ file' \in Journals /\ file' # NoFile /\ file'.header = snapshot[p]
        /\ file'.records = <<>> /\ file'.tail = file.tail
    BY <1>2, KeysDiffer DEF Journals
  <1>4. Consistent(file') /\ Valid(file'.records)
    BY <1>2, <1>3, KeysDiffer DEF Consistent, Valid
  <1>5. BuildInv(p)'
    BY <1>1, <1>3 DEF SharedInv, BuildInv, Saving, Keyed
  <1>6. TypeOK'
    BY <1>1, <1>3 DEF SharedInv, TypeOK, Pcs, Saving
  <1>7. SharedInv'
    BY <1>1, <1>4, <1>5, <1>6, OneStep DEF SharedInv
  <1>8. ASSUME alone
        PROVE  AloneInv'
    <2>1. LonelyInv(p)'
      BY <1>1, <1>3, <1>8 DEF AloneInv, LonelyInv
    <2>2. disk' # NoFile => Valid(disk'.records) /\ file' # NoFile /\ IsPart(disk', file')
      BY <1>2, <1>3, <1>8 DEF AloneInv, IsPart
    <2>3. QED
      BY <1>1, <1>4, <1>7, <1>8, <2>1, <2>2, OneStepAlone
  <1>9. QED
    BY <1>7, <1>8

LEMMA TruncateStep ==
  ASSUME BuildsInv, NEW p \in Builds, Truncate(p)
  PROVE  BuildsInv'
  <1> USE DEF BuildsInv, Truncate, At, Goto, locals
  <1>1. /\ \A q \in Builds \ {p} : Same(q)
        /\ pc[p] = "truncate" /\ pc'[p] = "syncCut"
    BY DEF Same, SharedInv, TypeOK
  <1>2. /\ file \in Journals /\ file # NoFile /\ Consistent(file)
        /\ file.header = snapshot[p]
        /\ file.records \in Seq(Records \union {Bad}) /\ cut[p] \in Seq(Records \union {Bad})
    BY <1>1 DEF SharedInv, TypeOK, BuildInv, Keyed, Journals
  <1>3. PICK k \in 0 .. Len(file.records), t \in Builds \union {Whole, Scrap} :
          /\ file' = [header |-> file.header, records |-> SubSeq(file.records, 1, k), tail |-> t]
          /\ cut[p] = file.records => SubSeq(file.records, 1, k) = file.records /\ t = Whole
    <2>1. CASE Len(cut[p]) <= Len(file.records) /\ StillThere(p)
      <3>1. file' = [header |-> file.header, records |-> SubSeq(file.records, 1, Len(cut[p])),
                     tail |-> Whole]
        BY <1>2, <2>1 DEF CutOff, StillThere, Journals
      <3>2. Len(cut[p]) \in 0 .. Len(file.records)
        BY <1>2, <2>1
      <3>3. cut[p] = file.records => SubSeq(file.records, 1, Len(cut[p])) = file.records
        BY <2>1 DEF StillThere
      <3>4. QED
        BY <3>1, <3>2, <3>3
    <2>2. CASE ~(Len(cut[p]) <= Len(file.records) /\ StillThere(p))
      <3>1. PICK k \in 0 .. Len(file.records) :
              file' = [file EXCEPT !.records = SubSeq(@, 1, k), !.tail = Scrap]
        BY <2>2 DEF CutOff
      <3>2. file' = [header |-> file.header, records |-> SubSeq(file.records, 1, k),
                     tail |-> Scrap]
        BY <1>2, <3>1 DEF Journals
      <3>3. cut[p] # file.records
        BY <1>2, <2>2, SubSeqFull DEF StillThere
      <3>4. QED
        BY <3>2, <3>3
    <2>3. QED
      BY <2>1, <2>2
  <1>4. file' \in Journals /\ Consistent(file')
    BY <1>2, <1>3, PrefixIsConsistent
  <1>5. file' # NoFile /\ file'.header = file.header /\ HeaderStands
    BY <1>3, <1>4, KeysDiffer DEF HeaderStands
  <1>6. BuildInv(p)'
    BY <1>1, <1>2, <1>5 DEF SharedInv, BuildInv, Saving, Keyed
  <1>7. TypeOK'
    BY <1>1, <1>4 DEF SharedInv, TypeOK, Pcs, Saving
  <1>8. SharedInv'
    BY <1>1, <1>4, <1>5, <1>6, <1>7, OneStep DEF SharedInv
  <1>9. ASSUME alone
        PROVE  AloneInv'
    <2>1. file'.records = file.records /\ file'.tail = Whole
      BY <1>1, <1>3, <1>9 DEF AloneInv, LonelyInv
    <2>2. LonelyInv(p)'
      BY <1>1, <1>2, <1>9, <2>1 DEF AloneInv, LonelyInv, Saving
    <2>3. disk' # NoFile => Valid(disk'.records) /\ file' # NoFile /\ IsPart(disk', file')
      BY <1>5, <1>9, <2>1 DEF AloneInv, IsPart
    <2>4. QED
      BY <1>1, <1>2, <1>8, <1>9, <2>1, <2>2, <2>3, OneStepAlone DEF AloneInv
  <1>10. QED
    BY <1>8, <1>9

LEMMA AppendPartStep ==
  ASSUME BuildsInv, NEW p \in Builds, AppendPart(p)
  PROVE  BuildsInv'
  <1> USE DEF BuildsInv, AppendPart, At, Goto, locals
  <1>1. /\ \A q \in Builds \ {p} : Same(q)
        /\ pc[p] = "append" /\ pc'[p] = "rest"
    BY DEF Same, SharedInv, TypeOK
  <1>2. file \in Journals /\ file # NoFile /\ file.header = snapshot[p]
    BY <1>1 DEF SharedInv, TypeOK, BuildInv, Keyed
  <1>3. /\ file' \in Journals /\ file' # NoFile
        /\ file'.header = file.header /\ file'.records = file.records
        /\ file.tail = Whole => file'.tail = p
    BY <1>2, KeysDiffer DEF Journals
  <1>4. Consistent(file') /\ HeaderStands
    BY <1>2, <1>3 DEF Consistent, HeaderStands, SharedInv
  <1>5. BuildInv(p)'
    BY <1>1, <1>2, <1>3 DEF SharedInv, BuildInv, Saving, Keyed
  <1>6. TypeOK'
    BY <1>1, <1>3 DEF SharedInv, TypeOK, Pcs, Saving
  <1>7. SharedInv'
    BY <1>1, <1>4, <1>5, <1>6, OneStep DEF SharedInv
  <1>8. ASSUME alone
        PROVE  AloneInv'
    <2>1. LonelyInv(p)'
      BY <1>1, <1>2, <1>3, <1>8 DEF AloneInv, LonelyInv, Saving
    <2>2. /\ Valid(file'.records)
          /\ disk' # NoFile => Valid(disk'.records) /\ IsPart(disk', file')
      BY <1>2, <1>3, <1>8 DEF AloneInv, IsPart
    <2>3. QED
      BY <1>1, <1>3, <1>7, <1>8, <2>1, <2>2, OneStepAlone
  <1>9. QED
    BY <1>7, <1>8

\* The record goes behind the others; alone, it is the first of its branch.
LEMMA AppendRestStep ==
  ASSUME BuildsInv, NEW p \in Builds, AppendRest(p)
  PROVE  BuildsInv'
  <1> DEFINE old  == file.records
             line == IF file.tail = p THEN Record(p) ELSE Bad
             n    == Len(old) + 1
             new  == Append(old, line)
  <1> USE DEF BuildsInv
  <1>1. /\ \A q \in Builds \ {p} : Same(q)
        /\ pc[p] = "rest" /\ pc'[p] = "syncAppend"
        /\ pc' = [pc EXCEPT ![p] = "syncAppend"]
        /\ UNCHANGED <<disk, entry, snapshot, results, ready, failed, cur, cut, reported, alone>>
    BY DEF AppendRest, At, Goto, locals, Same, SharedInv, TypeOK
  <1>2. /\ file \in Journals /\ file # NoFile /\ file.header = snapshot[p]
        /\ snapshot[p] \in Snapshots /\ cur[p] \in Branches
        /\ old \in Seq(Records \union {Bad})
    BY <1>1 DEF SharedInv, TypeOK, BuildInv, Keyed, Saving, Journals
  <1>3. Record(p) = [branch |-> cur[p], result |-> snapshot[p]] /\ Record(p) \in Records
    BY <1>1, <1>2 DEF Record, Records, SharedInv, BuildInv, Saving
  <1>4. line \in Records \union {Bad} /\ (line # Bad => line = Record(p))
    BY <1>3
  <1> HIDE DEF line
  <1>5. file' = [header |-> file.header, records |-> new, tail |-> Whole]
    BY <1>2 DEF AppendRest, Journals, line
  <1>6. /\ new \in Seq(Records \union {Bad})
        /\ DOMAIN new = 1 .. n /\ DOMAIN old = 1 .. n - 1 /\ n \in 1 .. n
        /\ \A i \in 1 .. n - 1 : new[i] = old[i]
        /\ new[n] = line
    BY <1>2, <1>4
  <1> HIDE DEF new
  <1>6a. file'.header = file.header /\ file'.records = new /\ file'.tail = Whole
    BY <1>5, Zenon
  <1>7. file' \in Journals /\ file' # NoFile /\ file'.header = file.header
    BY <1>2, <1>5, <1>6, KeysDiffer DEF Journals
  <1>8. Consistent(file')
    BY <1>2, <1>3, <1>4, <1>6, <1>6a, KeysDiffer DEF Consistent, SharedInv
  <1>9. BuildInv(p)'
    BY <1>1, <1>2, <1>7 DEF SharedInv, BuildInv, Saving, Keyed
  <1>10. TypeOK' /\ HeaderStands
    BY <1>1, <1>7 DEF SharedInv, TypeOK, Pcs, Saving, HeaderStands
  <1>11. SharedInv'
    BY <1>1, <1>8, <1>9, <1>10, OneStep DEF SharedInv
  <1>12. ASSUME alone
         PROVE  AloneInv'
    <2>1. line = Record(p)
      BY <1>1, <1>12 DEF AloneInv, LonelyInv, line
    <2>2. \A i \in 1 .. n - 1 :
            /\ old[i].branch # cur[p]
            /\ old[i].branch \in BranchesOf[snapshot[p]] => results[p][old[i].branch] # NoResult
      BY <1>1, <1>2, <1>6, <1>12 DEF AloneInv, LonelyInv, Saving
    <2>3. Valid(new)
      <3>1. Valid(old)
        BY <1>2, <1>12 DEF AloneInv
      <3>2. line # Bad /\ line.branch = cur[p]
        BY <1>3, <2>1, KeysDiffer
      <3>3. QED
        <4>1. \A i \in 1 .. n : i \in 1 .. n - 1 \/ i = n
          BY <1>6
        <4>2. ASSUME NEW i \in 1 .. n
              PROVE  new[i] # Bad
          BY <1>6, <3>1, <3>2, <2>1, <4>1 DEF Valid
        <4>3. ASSUME NEW i \in 1 .. n, NEW j \in 1 .. n, new[i].branch = new[j].branch
              PROVE  i = j
          BY <1>6, <2>1, <2>2, <3>1, <3>2, <4>1, <4>3 DEF Valid
        <4>4. QED
          BY <1>6, <4>2, <4>3 DEF Valid
    <2>4. LonelyInv(p)'
      <3>1. Record(p)' = Record(p)
        BY <1>1 DEF Record
      <3>2. \E i \in DOMAIN file'.records : file'.records[i] = Record(p)'
        BY <1>6, <1>6a, <2>1, <3>1
      <3>3. \A i \in DOMAIN file'.records :
              file'.records[i].branch \in BranchesOf[snapshot[p]] =>
                results[p][file'.records[i].branch] # NoResult
        BY <1>1, <1>3, <1>6, <1>6a, <2>1, <2>2 DEF SharedInv, BuildInv, Saving
      <3>4. ASSUME NEW b \in reported[p]
            PROVE  disk # NoFile /\ \E i \in DOMAIN disk.records :
                     disk.records[i] = [branch |-> b, result |-> snapshot[p]]
        BY <1>12 DEF AloneInv, LonelyInv
      <3>5. QED
        BY <1>1, <3>2, <3>3, <3>4 DEF LonelyInv, Saving
    <2>5. disk' # NoFile => Valid(disk'.records) /\ IsPart(disk', file')
      BY <1>1, <1>2, <1>6, <1>6a, <1>12 DEF AloneInv, IsPart
    <2>6. QED
      BY <1>1, <1>6a, <1>7, <1>11, <1>12, <2>3, <2>4, <2>5, OneStepAlone
  <1>13. QED
    BY <1>1, <1>11, <1>12

LEMMA SyncIsConsistent ==
  ASSUME SharedInv
  PROVE  /\ Synced \in Journals \union {NoFile} /\ Consistent(Synced)
         /\ Synced = NoFile <=> file = NoFile
         /\ file # NoFile => Synced.records = file.records /\ Synced.header = file.header
  BY OrphanedKeeps DEF Synced, SharedInv, TypeOK

LEMMA SyncBeforeStep ==
  ASSUME BuildsInv, NEW p \in Builds, SyncBefore(p)
  PROVE  BuildsInv'
  <1> USE DEF BuildsInv, SyncBefore, Goto, locals
  <1>1. /\ \A q \in Builds \ {p} : Same(q)
        /\ pc[p] \in {"syncHeader", "syncCut"} /\ pc'[p] = "append"
    BY DEF Same, SharedInv, TypeOK
  <1>2. file # NoFile /\ disk' # NoFile /\ disk'.records = file.records
    BY <1>1, SyncIsConsistent DEF SharedInv, BuildInv, Keyed
  <1>3. BuildInv(p)'
    BY <1>1 DEF SharedInv, BuildInv, Saving, Keyed
  <1>4. TypeOK' /\ HeaderStands
    BY <1>1, SyncIsConsistent DEF SharedInv, TypeOK, Pcs, Saving, HeaderStands
  <1>5. SharedInv'
    BY <1>1, <1>3, <1>4, OneStep, SyncIsConsistent DEF SharedInv
  <1>6. ASSUME alone
        PROVE  AloneInv'
    <2>1. \A b \in reported[p] : \E i \in DOMAIN file.records :
            file.records[i] = [branch |-> b, result |-> snapshot[p]]
      BY <1>6 DEF AloneInv, LonelyInv, IsPart
    <2>2. LonelyInv(p)'
      BY <1>1, <1>2, <1>6, <2>1 DEF AloneInv, LonelyInv, Saving
    <2>3. Valid(disk'.records) /\ IsPart(disk', file')
      BY <1>2, <1>6 DEF AloneInv, IsPart
    <2>4. QED
      BY <1>1, <1>2, <1>5, <1>6, <2>2, <2>3, OneStepAlone DEF AloneInv
  <1>7. QED
    BY <1>5, <1>6

LEMMA SyncAppendStep ==
  ASSUME BuildsInv, NEW p \in Builds, SyncAppend(p)
  PROVE  BuildsInv'
  <1> USE DEF BuildsInv, SyncAppend, At, Goto
  <1>1. /\ \A q \in Builds \ {p} : Same(q)
        /\ pc[p] = "syncAppend" /\ pc'[p] = "collect"
        /\ reported'[p] = reported[p] \union {cur[p]}
    BY DEF Same, SharedInv, TypeOK
  <1>2. /\ file # NoFile /\ disk' # NoFile /\ disk'.records = file.records
        /\ cur[p] \in Branches /\ results[p][cur[p]] = snapshot[p]
    BY <1>1, SyncIsConsistent DEF SharedInv, BuildInv, Keyed, Saving
  <1>3. BuildInv(p)'
    BY <1>1 DEF SharedInv, BuildInv, Saving, Keyed
  <1>4. TypeOK' /\ HeaderStands
    <2>1. /\ reported' \in [Builds -> SUBSET Branches]
          /\ cur' \in [Builds -> Branches \union {NoBranch}]
          /\ cut' \in [Builds -> Seq(Records \union {Bad})]
      BY <1>2 DEF SharedInv, TypeOK
    <2>2. QED
      BY <2>1, SyncIsConsistent DEF SharedInv, TypeOK, Pcs, HeaderStands
  <1>5. SharedInv'
    BY <1>1, <1>3, <1>4, OneStep, SyncIsConsistent DEF SharedInv
  <1>6. ASSUME alone
        PROVE  AloneInv'
    <2>1. \A b \in reported[p] : \E i \in DOMAIN file.records :
            file.records[i] = [branch |-> b, result |-> snapshot[p]]
      BY <1>6 DEF AloneInv, LonelyInv, IsPart
    <2>2. \E i \in DOMAIN file.records :
            file.records[i] = [branch |-> cur[p], result |-> snapshot[p]]
      BY <1>1, <1>2, <1>6 DEF AloneInv, LonelyInv, Record
    <2>3. LonelyInv(p)'
      BY <1>1, <1>2, <1>6, <2>1, <2>2 DEF AloneInv, LonelyInv, Saving
    <2>4. Valid(disk'.records) /\ IsPart(disk', file')
      BY <1>2, <1>6 DEF AloneInv, IsPart
    <2>5. QED
      BY <1>1, <1>2, <1>5, <1>6, <2>3, <2>4, OneStepAlone DEF AloneInv
  <1>7. QED
    BY <1>5, <1>6

----------------------------------------------------------------------------
(* A power loss. *)

LEMMA PartsAreConsistent ==
  ASSUME NEW f \in Journals, Consistent(f), NEW g \in Parts(f)
  PROVE  /\ g \in Journals /\ Consistent(g) /\ IsPart(g, f)
         /\ Valid(f.records) => Valid(g.records)
  <1>1. CASE g = TornJournal
    BY <1>1, TornIsConsistent DEF TornJournal, IsPart
  <1>2. CASE g \in Lines(f)
    <2>1. PICK k \in 0 .. Len(f.records), t \in {Whole, Scrap} :
            g = [header |-> f.header, records |-> SubSeq(f.records, 1, k), tail |-> t]
      BY <1>2 DEF Lines
    <2>2. QED
      BY <2>1, PrefixIsConsistent
  <1>3. QED
    BY <1>1, <1>2 DEF Parts, TornJournal

LEMMA SurvivorsAreConsistent ==
  ASSUME SharedInv, NEW g \in Survivors \union {NoFile}
  PROVE  /\ g \in Journals \union {NoFile} /\ Consistent(g)
         /\ alone /\ AloneInv /\ g # NoFile => Valid(g.records) /\ IsPart(disk, g)
  <1>1. CASE g = NoFile
    BY <1>1 DEF Consistent
  <1>2. CASE g = disk
    BY <1>2 DEF SharedInv, TypeOK, AloneInv, IsPart
  <1>3. CASE file # NoFile /\ g = Synced
    BY <1>3, SyncIsConsistent DEF AloneInv, IsPart
  <1>4. CASE file # NoFile /\ g \in Parts(file) /\ (disk # NoFile => disk \in Parts(g))
    <2>1. /\ file \in Journals /\ Consistent(file)
      BY <1>4 DEF SharedInv, TypeOK
    <2>2. /\ g \in Journals /\ Consistent(g)
          /\ Valid(file.records) => Valid(g.records)
      BY <1>4, <2>1, PartsAreConsistent
    <2>3. IsPart(disk, g)
      BY <1>4, <2>2, PartsAreConsistent DEF IsPart
    <2>4. QED
      BY <1>4, <2>2, <2>3 DEF AloneInv
  <1>5. QED
    BY <1>1, <1>2, <1>3, <1>4 DEF Survivors

LEMMA PowerLossStep ==
  ASSUME BuildsInv, PowerLoss
  PROVE  BuildsInv'
  <1> USE DEF BuildsInv, PowerLoss
  <1>1. /\ file' \in Survivors \union {NoFile} /\ disk' = file'
        /\ entry' = (file' # NoFile)
    OBVIOUS
  <1>2. /\ file' \in Journals \union {NoFile} /\ Consistent(file')
        /\ alone /\ file' # NoFile => Valid(file'.records)
    BY <1>1, SurvivorsAreConsistent
  <1>3. \A p \in Builds : pc'[p] = "idle" /\ BuildInv(p)'
    BY KeysDiffer DEF Forget, BuildInv, Nothing, Saving, Keyed
  <1>4. TypeOK'
    BY <1>1, <1>2 DEF Forget, SharedInv, TypeOK, Nothing, Pcs
  <1>5. SharedInv'
    BY <1>1, <1>2, <1>3, <1>4 DEF SharedInv
  <1>6. ASSUME alone
        PROVE  AloneInv'
    <2>1. IsPart(disk, file)' /\ (\A p \in Builds : LonelyInv(p)')
      BY <1>1, <1>3, LonelyIdle DEF IsPart
    <2>2. QED
      BY <1>1, <1>2, <1>3, <1>6, <2>1 DEF AloneInv
  <1>7. QED
    BY <1>5, <1>6 DEF Forget

----------------------------------------------------------------------------

LEMMA BuildsInvInit == Init => BuildsInv
  <1>1. SUFFICES ASSUME Init PROVE BuildsInv
    OBVIOUS
  <1> USE <1>1 DEF Init
  <1>2. TypeOK /\ Consistent(file) /\ Consistent(disk)
    <2>1. <<>> \in Seq(Records \union {Bad})
      OBVIOUS
    <2>2. Nothing \in [Branches -> Snapshots \union {NoResult}]
      BY DEF Nothing
    <2>3. QED
      BY <2>1, <2>2 DEF TypeOK, Consistent, Pcs
  <1>3. \A p \in Builds : BuildInv(p) /\ LonelyInv(p)
    BY KeysDiffer DEF BuildInv, LonelyInv, Nothing, Saving, Keyed
  <1>4. QED
    BY <1>2, <1>3 DEF BuildsInv, SharedInv, AloneInv

LEMMA BuildsStutter == ASSUME BuildsInv, UNCHANGED vars PROVE BuildsInv'
  <1> USE DEF vars, store, locals
  <1>1. TypeOK' /\ Consistent(file)' /\ Consistent(disk)'
    BY DEF BuildsInv, SharedInv, TypeOK
  <1>2. \A p \in Builds : BuildInv(p)'
    BY DEF BuildsInv, SharedInv, BuildInv
  <1>3. alone => \A p \in Builds : LonelyInv(p)'
    BY DEF BuildsInv, AloneInv, LonelyInv, Record
  <1>4. QED
    BY <1>1, <1>2, <1>3 DEF BuildsInv, SharedInv, AloneInv

LEMMA BuildsInvNext == BuildsInv /\ [Next]_vars => BuildsInv'
  <1>1. SUFFICES ASSUME BuildsInv, [Next]_vars PROVE BuildsInv'
    OBVIOUS
  <1>2. ASSUME NEW p \in Builds, Main(p)
        PROVE  BuildsInv'
    <2>1. ASSUME Refuse(p) \/ Fail(p) \/ Exit(p) \/ SaveFails(p)
          PROVE  BuildsInv'
      <3>1. Over(p) /\ pc[p] # "idle"
        BY <2>1 DEF Refuse, Fail, Exit, SaveFails, At, Saving
      <3>2. QED
        BY <1>1, <3>1, OverStep
    <2>2. QED
      BY <1>1, <1>2, <2>1, LoadStep, CollectStep, FinishStep, InspectStep, CreateStep,
         WriteHeaderStep, TruncateStep, AppendPartStep, AppendRestStep, SyncBeforeStep,
         SyncAppendStep DEF Main
  <1>3. ASSUME NEW p \in Builds, Crash(p)
        PROVE  BuildsInv'
    BY <1>1, <1>3, OverStep DEF Crash, At
  <1>4. CASE PowerLoss
    BY <1>1, <1>4, PowerLossStep
  <1>5. CASE UNCHANGED vars
    BY <1>1, <1>5, BuildsStutter
  <1>6. QED
    BY <1>1, <1>2, <1>3, <1>4, <1>5, StartStep, AnalyseStep DEF Next

\* The invariant holds through crashes, failed saves, power losses and, in its first
\* part, through any overlap of builds (contributions.py).
THEOREM BuildsInvAlways == Spec => []BuildsInv
  BY BuildsInvInit, BuildsInvNext, PTL DEF Spec

\* Every variable keeps its type.
THEOREM BuildTypeCorrect == Spec => []TypeOK
  <1>1. BuildsInv => TypeOK
    BY DEF BuildsInv, SharedInv
  <1>2. QED
    BY <1>1, BuildsInvAlways, PTL

\* A journal whose header is complete can be loaded (load_checkpoint).
THEOREM JournalsAreReadable == Spec => []AlwaysReadable
  <1>1. BuildsInv => AlwaysReadable
    BY DEF BuildsInv, AloneInv, AlwaysReadable
  <1>2. QED
    BY <1>1, BuildsInvAlways, PTL

\* Reported progress outlives a power loss that leaves the journal (save_checkpoint).
THEOREM ProgressLasts == Spec => []ProgressIsDurable
  <1>1. BuildsInv => ProgressIsDurable
    BY DEF BuildsInv, AloneInv, LonelyInv, ProgressIsDurable
  <1>2. QED
    BY <1>1, BuildsInvAlways, PTL

\* A build that returns has exactly its own snapshot's results, also when other builds,
\* of other snapshots, write the same journal (build_contributions).
THEOREM BuildsAnswerForThemselves == Spec => []ResultsAreOwn
  <1>1. ASSUME BuildsInv, NEW p \in Builds, At(p, "done")
        PROVE  results[p] = [b \in Branches |->
                 IF b \in BranchesOf[snapshot[p]] THEN snapshot[p] ELSE NoResult]
    <2>1. results[p] \in [Branches -> Snapshots \union {NoResult}]
      BY <1>1 DEF BuildsInv, SharedInv, TypeOK
    <2>2. \A b \in Branches :
            results[p][b] = IF b \in BranchesOf[snapshot[p]] THEN snapshot[p] ELSE NoResult
      BY <1>1 DEF BuildsInv, SharedInv, BuildInv, At
    <2>3. QED
      BY <2>1, <2>2
  <1>2. BuildsInv => ResultsAreOwn
    BY <1>1 DEF ResultsAreOwn
  <1>3. QED
    BY <1>2, BuildsInvAlways, PTL

\* What was synced is never lost from a journal that is still there.
THEOREM SyncedIsKept == Spec => KeptOrGone
  <1>1. ASSUME BuildsInv, [Next]_vars
        PROVE  [alone /\ disk' # NoFile => IsPart(disk, disk')]_disk
    <2>1. SUFFICES ASSUME alone, disk' # NoFile, disk' # disk
                   PROVE  IsPart(disk, disk')
      OBVIOUS
    <2>2. CASE PowerLoss
      BY <1>1, <2>1, <2>2, SurvivorsAreConsistent DEF PowerLoss, BuildsInv
    <2>3. CASE disk' = Synced
      BY <1>1, <2>1, <2>3, SyncIsConsistent DEF BuildsInv, AloneInv, IsPart
    <2>4. PowerLoss \/ disk' = Synced
      BY <1>1, <2>1 DEF Next, Main, Start, Load, Refuse, Analyse, Collect, Fail, Finish,
         Exit, Inspect, Create, WriteHeader, Truncate, AppendPart, AppendRest, SyncBefore,
         SyncAppend, SaveFails, Crash, Over, vars, store
    <2>5. QED
      BY <2>2, <2>3, <2>4
  <1>2. QED
    BY <1>1, BuildsInvAlways, PTL DEF Spec, KeptOrGone
============================================================================
