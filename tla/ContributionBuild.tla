-------------------------- MODULE ContributionBuild --------------------------
(***************************************************************************)
(* contributions.build_contributions with a checkpoint: analyses of the    *)
(* branches finish in any order, and each is appended to a journal that a  *)
(* later build of the same snapshot resumes from.  A save inspects the     *)
(* journal, cuts a torn last line off, appends and syncs.  The directory   *)
(* entry of a new journal is never synced, and nothing keeps two builds    *)
(* apart.                                                                  *)
(***************************************************************************)
EXTENDS Integers, Sequences, FiniteSets

CONSTANTS
  Builds,
  Snapshots,   \* what checkpoint_key tells apart
  Branches,
  BranchesOf,  \* BranchesOf[s]: the branches of snapshot s
  NoFile, NoSnapshot, NoBranch, NoResult,
  Torn,        \* a header without its newline
  Bad,         \* a complete line that is not a record
  Whole, Scrap,
  Faults       \* subset of {"analysis", "save", "crash", "power"}

ASSUME BuildAssumption ==
  /\ BranchesOf \in [Snapshots -> SUBSET Branches]
  /\ Torn \notin Snapshots /\ NoSnapshot \notin Snapshots /\ NoResult \notin Snapshots
  /\ NoBranch \notin Branches
  /\ Whole \notin Builds /\ Scrap \notin Builds /\ Whole # Scrap

\* A result is told by the snapshot it was computed from.
Records  == [branch : Branches, result : Snapshots]
Journals == [header : Snapshots \union {Torn}, records : Seq(Records \union {Bad}),
             tail : Builds \union {Whole, Scrap}]

ASSUME JournalAssumption == NoFile \notin Journals /\ Bad \notin Records

VARIABLES
  file,     \* the journal; its tail says whose unfinished line it ends with
  disk,     \* the journal as far as it is synced
  entry,    \* the directory entry is on disk
  pc,
  snapshot,
  results,  \* branch_results
  ready,    \* analyses that have finished and as_completed has not yielded
  failed,   \* those among them that raised
  cur,      \* the branch being saved
  cut,      \* the complete lines that the inspection read
  reported, \* branches that this build saved and told progress about
  alone     \* history: no two builds have overlapped yet

store  == <<file, disk, entry>>
locals == <<snapshot, results, ready, failed, cur, cut, reported>>
vars   == <<store, pc, locals, alone>>

Nothing == [b \in Branches |-> NoResult]

Init ==
  /\ file = NoFile /\ disk = NoFile /\ entry = FALSE
  /\ pc = [p \in Builds |-> "idle"]
  /\ snapshot = [p \in Builds |-> NoSnapshot]
  /\ results = [p \in Builds |-> Nothing]
  /\ ready = [p \in Builds |-> {}]
  /\ failed = [p \in Builds |-> {}]
  /\ cur = [p \in Builds |-> NoBranch]
  /\ cut = [p \in Builds |-> <<>>]
  /\ reported = [p \in Builds |-> {}]
  /\ alone = TRUE

At(p, here)   == pc[p] = here
Goto(p, next) == pc' = [pc EXCEPT ![p] = next]

Forget(P) ==
  /\ pc'       = [p \in Builds |-> IF p \in P THEN "idle" ELSE pc[p]]
  /\ snapshot' = [p \in Builds |-> IF p \in P THEN NoSnapshot ELSE snapshot[p]]
  /\ results'  = [p \in Builds |-> IF p \in P THEN Nothing ELSE results[p]]
  /\ ready'    = [p \in Builds |-> IF p \in P THEN {} ELSE ready[p]]
  /\ failed'   = [p \in Builds |-> IF p \in P THEN {} ELSE failed[p]]
  /\ cur'      = [p \in Builds |-> IF p \in P THEN NoBranch ELSE cur[p]]
  /\ cut'      = [p \in Builds |-> IF p \in P THEN <<>> ELSE cut[p]]
  /\ reported' = [p \in Builds |-> IF p \in P THEN {} ELSE reported[p]]
  /\ UNCHANGED alone

\* The unfinished line of a build that is over is anybody's.
Orphaned(f, P) == IF f # NoFile /\ f.tail \in P THEN [f EXCEPT !.tail = Scrap] ELSE f

\* The build returns, raises or dies; a pool that is still running only computes.
Over(p) ==
  /\ file' = Orphaned(file, {p})
  /\ Forget({p})
  /\ UNCHANGED <<disk, entry>>

----------------------------------------------------------------------------
(* load_checkpoint.                                                        *)

Bug_AnyKey(p) == file # NoFile => file.header # Torn
SameKey(p)    == file # NoFile => file.header = snapshot[p]

Valid(records) ==
  /\ \A i \in DOMAIN records : records[i] # Bad
  /\ \A i, j \in DOMAIN records : records[i].branch = records[j].branch => i = j

Usable(p) == SameKey(p) /\ (file # NoFile => Valid(file.records))

Start(p) ==
  /\ At(p, "idle")
  /\ \E s \in Snapshots : snapshot' = [snapshot EXCEPT ![p] = s]
  /\ alone' = (alone /\ \A q \in Builds : At(q, "idle"))
  /\ Goto(p, "load")
  /\ UNCHANGED <<store, results, ready, failed, cur, cut, reported>>

Recorded(b) == {i \in DOMAIN file.records : file.records[i].branch = b}

\* A last line without its newline is ignored.
Completed(p, b) ==
  IF file # NoFile /\ Recorded(b) # {}
    THEN file.records[CHOOSE i \in Recorded(b) : TRUE].result ELSE NoResult

Load(p) ==
  /\ At(p, "load") /\ Usable(p)
  /\ results' = [results EXCEPT ![p] =
       [b \in Branches |-> IF b \in BranchesOf[snapshot[p]] THEN Completed(p, b) ELSE NoResult]]
  /\ Goto(p, "collect")
  /\ UNCHANGED <<store, snapshot, ready, failed, cur, cut, reported, alone>>

\* The checkpoint is another snapshot's or malformed, or the index of the main branch fails.
Refuse(p) ==
  /\ At(p, "load")
  /\ Usable(p) => "analysis" \in Faults
  /\ Over(p)

----------------------------------------------------------------------------
(* The analyses and their collection.                                      *)

Saving == {"inspect", "create", "header", "syncHeader", "truncate", "syncCut", "append", "rest", "syncAppend"}

Unfinished(p) == {b \in BranchesOf[snapshot[p]] : results[p][b] = NoResult} \ ready[p]

Analyse(p, b) ==
  /\ pc[p] \in Saving \union {"collect"} /\ b \in Unfinished(p)
  /\ ready' = [ready EXCEPT ![p] = @ \union {b}]
  /\ \/ failed' = failed
     \/ "analysis" \in Faults /\ failed' = [failed EXCEPT ![p] = @ \union {b}]
  /\ UNCHANGED <<store, pc, snapshot, results, cur, cut, reported, alone>>

Collect(p) ==
  /\ At(p, "collect")
  /\ \E b \in ready[p] \ failed[p] :
       /\ results' = [results EXCEPT ![p][b] = snapshot[p]]
       /\ ready' = [ready EXCEPT ![p] = @ \ {b}]
       /\ cur' = [cur EXCEPT ![p] = b]
  /\ Goto(p, "inspect")
  /\ UNCHANGED <<store, snapshot, failed, cut, reported, alone>>

\* future.result raises what the analysis raised.
Fail(p) == At(p, "collect") /\ failed[p] # {} /\ Over(p)

Finish(p) ==
  /\ At(p, "collect") /\ ready[p] = {} /\ Unfinished(p) = {}
  /\ Goto(p, "done")
  /\ UNCHANGED <<store, locals, alone>>

Exit(p) == At(p, "done") /\ Over(p)

----------------------------------------------------------------------------
(* save_checkpoint.                                                        *)

Inspect(p) ==
  /\ At(p, "inspect") /\ SameKey(p)
  /\ Goto(p, IF file = NoFile THEN "create" ELSE IF file.tail = Whole THEN "append" ELSE "truncate")
  /\ cut' = [cut EXCEPT ![p] = IF file = NoFile THEN <<>> ELSE file.records]
  /\ UNCHANGED <<store, snapshot, results, ready, failed, cur, reported, alone>>

Create(p) ==
  /\ At(p, "create") /\ file = NoFile
  /\ file' = [header |-> Torn, records |-> <<>>, tail |-> Whole]
  /\ entry' = FALSE
  /\ Goto(p, "header")
  /\ UNCHANGED <<disk, locals, alone>>

WriteHeader(p) ==
  /\ At(p, "header")
  /\ file' = [file EXCEPT !.header = snapshot[p]]
  /\ Goto(p, "syncHeader")
  /\ UNCHANGED <<disk, entry, locals, alone>>

\* The journal is cut after the last newline that the inspection saw; if another build has
\* cut it since, that may be anywhere, even beyond its end.
Bug_KeepTail(p) == {file}
Bug_CutMore(p)  == {[file EXCEPT !.records = SubSeq(cut[p], 1, Len(cut[p]) - 1), !.tail = Whole]}
StillThere(p)   == SubSeq(file.records, 1, Len(cut[p])) = cut[p]
CutOff(p) ==
  IF Len(cut[p]) <= Len(file.records) /\ StillThere(p)
    THEN {[file EXCEPT !.records = cut[p], !.tail = Whole]}
    ELSE {[file EXCEPT !.records = SubSeq(@, 1, k), !.tail = Scrap] : k \in 0..Len(file.records)}

Truncate(p) ==
  /\ At(p, "truncate")
  /\ file' \in CutOff(p)
  /\ Goto(p, "syncCut")
  /\ UNCHANGED <<disk, entry, locals, alone>>

\* os.write with O_APPEND may write a part of the line first.
AppendPart(p) ==
  /\ At(p, "append")
  /\ file' = [file EXCEPT !.tail = IF @ = Whole THEN p ELSE Scrap]
  /\ Goto(p, "rest")
  /\ UNCHANGED <<disk, entry, locals, alone>>

Record(p) == [branch |-> cur[p], result |-> results[p][cur[p]]]

\* The newline completes whatever line the journal ends with.
AppendRest(p) ==
  /\ At(p, "rest")
  /\ file' = [file EXCEPT !.records = Append(@, IF file.tail = p THEN Record(p) ELSE Bad),
                          !.tail = Whole]
  /\ Goto(p, "syncAppend")
  /\ UNCHANGED <<disk, entry, locals, alone>>

Bug_NoSync == disk
Synced == Orphaned(file, Builds)

SyncBefore(p) ==
  /\ pc[p] \in {"syncHeader", "syncCut"}
  /\ disk' = Synced
  /\ Goto(p, "append")
  /\ UNCHANGED <<file, entry, locals, alone>>

\* The record is on disk, and progress is reported.
SyncAppend(p) ==
  /\ At(p, "syncAppend")
  /\ disk' = Synced
  /\ reported' = [reported EXCEPT ![p] = @ \union {cur[p]}]
  /\ cur' = [cur EXCEPT ![p] = NoBranch]
  /\ cut' = [cut EXCEPT ![p] = <<>>]
  /\ Goto(p, "collect")
  /\ UNCHANGED <<file, entry, snapshot, results, ready, failed, alone>>

\* The header does not fit, somebody else has created the journal, or a write fails.
SaveFails(p) ==
  /\ \/ At(p, "inspect") /\ ~SameKey(p)
     \/ At(p, "create") /\ file # NoFile
     \/ "save" \in Faults /\ pc[p] \in Saving
  /\ Over(p)

----------------------------------------------------------------------------
Crash(p) == "crash" \in Faults /\ ~At(p, "idle") /\ Over(p)

\* What a power loss may leave of a journal: what was synced, and any part of what was
\* written since.
Lines(f) == {[header |-> f.header, records |-> SubSeq(f.records, 1, k), tail |-> t] :
               k \in 0..Len(f.records), t \in {Whole, Scrap}}
Beyond(f) == [header |-> f.header, records |-> f.records, tail |-> Scrap]
Parts(f) ==
  {[header |-> Torn, records |-> <<>>, tail |-> Whole]} \union
  IF f.tail = Whole THEN Lines(f) \ {Beyond(f)} ELSE Lines(f)
Survivors ==
  IF file = NoFile THEN {NoFile}
  ELSE {disk, Synced} \union {g \in Parts(file) : disk # NoFile => disk \in Parts(g)}

PowerLoss ==
  /\ "power" \in Faults
  /\ file' \in Survivors \union (IF entry THEN {} ELSE {NoFile})
  /\ disk' = file'
  /\ entry' = (file' # NoFile)
  /\ Forget(Builds)

Main(p) ==
  \/ Load(p) \/ Refuse(p) \/ Collect(p) \/ Fail(p) \/ Finish(p) \/ Exit(p)
  \/ Inspect(p) \/ Create(p) \/ WriteHeader(p) \/ Truncate(p) \/ AppendPart(p) \/ AppendRest(p)
  \/ SyncBefore(p) \/ SyncAppend(p) \/ SaveFails(p)

Next ==
  \/ \E p \in Builds : Start(p) \/ Main(p) \/ Crash(p)
  \/ \E p \in Builds, b \in Branches : Analyse(p, b)
  \/ PowerLoss

Spec == Init /\ [][Next]_vars

----------------------------------------------------------------------------
Pcs == {"idle", "load", "collect", "done"} \union Saving

\* The variables keep their types.
TypeOK ==
  /\ file \in Journals \union {NoFile}
  /\ disk \in Journals \union {NoFile}
  /\ entry \in BOOLEAN
  /\ pc \in [Builds -> Pcs]
  /\ snapshot \in [Builds -> Snapshots \union {NoSnapshot}]
  /\ results \in [Builds -> [Branches -> Snapshots \union {NoResult}]]
  /\ ready \in [Builds -> SUBSET Branches] /\ failed \in [Builds -> SUBSET Branches]
  /\ cur \in [Builds -> Branches \union {NoBranch}]
  /\ cut \in [Builds -> Seq(Records \union {Bad})]
  /\ reported \in [Builds -> SUBSET Branches]
  /\ alone \in BOOLEAN

\* Whatever crash, failed save or power loss comes between, a journal whose header is
\* complete can be loaded: the header, each line and the absence of duplicates.
AlwaysReadable == alone /\ file # NoFile /\ file.header # Torn => Valid(file.records)

\* A journal that is still there keeps every record that was synced.
IsPart(d, f) == d # NoFile => \A i \in DOMAIN d.records : i \in DOMAIN f.records /\ f.records[i] = d.records[i]
KeptOrGone == [][alone /\ disk' # NoFile => IsPart(disk, disk')]_disk

\* A branch whose progress a build reported is in the journal that a power loss leaves,
\* as long as it leaves one.
ProgressIsDurable ==
  alone => \A p \in Builds : \A b \in reported[p] :
    disk # NoFile /\ \E i \in DOMAIN disk.records : disk.records[i] = [branch |-> b, result |-> snapshot[p]]

\* A build that returns has the result of every branch of its snapshot, whether it was
\* computed now or by an earlier build, and none of another snapshot.
ResultsAreOwn ==
  \A p \in Builds : At(p, "done") =>
    results[p] = [b \in Branches |-> IF b \in BranchesOf[snapshot[p]] THEN snapshot[p] ELSE NoResult]

=============================================================================
