--------------------------- MODULE GitRepository ---------------------------
(***************************************************************************)
(* The repository as jg reads it (git.py): commits never change, while     *)
(* refs, reflogs, worktrees and stashes move under every tool that reads   *)
(* them in more than one command.  A commit is told apart by its history   *)
(* and its tree only.                                                      *)
(***************************************************************************)
EXTENDS Integers, FiniteSets

CONSTANTS
  Branches,   \* names under refs/heads
  Main,       \* the local default branch
  Commits,
  History,    \* [Commits -> SUBSET Commits], a commit and its ancestors
  Printed,    \* [Commits -> [Commits -> Commits]], which of the best common ancestors
              \* git merge-base prints first
  Paths,
  Tree,       \* [Commits -> [Paths -> entry]]
  NoTip,      \* no such ref, no merge base
  NoLog,      \* a ref without a reflog entry
  FirstRefs,  \* the refs a behaviour may start from
  Subjects,   \* forms of a stash's subject: git stash, and with a message
  Settled,    \* bound: branches that nobody but the tools looks at
  MovedTo,    \* bound: commits that others move a ref to
  MaxTime,    \* bound on the clock
  MaxEvents   \* bound on what others do to the repository

\* The common ancestors that no other common ancestor descends from: several of them
\* where branches were merged into each other.
Best(a, b) ==
  LET common == History[a] \cap History[b]
  IN {c \in common : \A d \in common : c \in History[d] => d = c}

ASSUME RepositoryAssumption ==
  /\ Main \in Branches
  /\ NoTip \notin Commits \cup Branches
  /\ \A c \in Commits : c \in History[c] /\ History[c] \subseteq Commits
  \* The commit graph: an ancestor's ancestors are ancestors, and there is no cycle.
  /\ \A c \in Commits : \A d \in History[c] :
       History[d] \subseteq History[c] /\ (c \in History[d] => c = d)
  /\ \A a, b \in Commits : Best(a, b) # {} => Printed[a][b] \in Best(a, b)
  /\ FirstRefs \subseteq [Branches -> Commits \cup {NoTip}]
  /\ \A f \in FirstRefs : f[Main] # NoTip
  /\ Settled \subseteq Branches /\ MovedTo \subseteq Commits /\ Subjects \subseteq {"WIP on", "On"}
  /\ NoLog \notin Int /\ MaxTime \in Nat /\ MaxEvents \in Nat

VARIABLES
  refs,       \* [Branches -> Commits \cup {NoTip}]
  reflog,     \* time of the newest reflog entry of a branch
  worktree,   \* how a branch is checked out
  stashed,    \* stashes, by the branch they name and the form of their subject
  objects,    \* commits in the object database
  now,
  events      \* how much others have done so far

repository == <<refs, reflog, worktree, stashed, objects, now, events>>

Tips == Commits \cup {NoTip}
Times == {NoLog} \cup 0 .. MaxTime

RepositoryTypeOK ==
  /\ refs \in [Branches -> Tips]
  /\ reflog \in [Branches -> Times]
  /\ worktree \in [Branches -> {"none", "clean", "dirty"}]
  /\ stashed \subseteq [branch : Branches, subject : Subjects]
  /\ objects \subseteq Commits
  /\ now \in 0 .. MaxTime
  /\ events \in 0 .. MaxEvents

----------------------------------------------------------------------------
(* Commands on commits. *)

Has(c) == c \in objects

\* Commands that need an object fail without it; merge_base then returns None.  Of
\* several best ancestors git prints one, not always the same for the reverse order.
MergeBase(a, b) ==
  IF Has(a) /\ Has(b) /\ Best(a, b) # {} THEN Printed[a][b] ELSE NoTip

IsAncestor(a, b) == a \in History[b]

ChangedPaths(base, tip) == {p \in Paths : Tree[base][p] # Tree[tip][p]}

\* What the branch changed since the merge base lies at the destination.
SameAt(paths, tip, dest) == \A p \in paths : Tree[tip][p] = Tree[dest][p]

Reachable(f) == UNION {History[c] : c \in {f[b] : b \in Branches} \ {NoTip}}

----------------------------------------------------------------------------
(* What others do between two commands of a tool. *)

Event(b) == b \notin Settled /\ events < MaxEvents /\ events' = events + 1

\* commit, reset, branch -f: the reflog, when the repository keeps one, says so.
MoveRef(b, c) ==
  /\ Event(b)
  /\ c \in objects /\ c # refs[b]
  /\ refs' = [refs EXCEPT ![b] = c]
  /\ \E t \in {now, NoLog} : reflog' = [reflog EXCEPT ![b] = t]
  /\ UNCHANGED <<worktree, stashed, objects, now>>

DeleteRef(b) ==
  /\ Event(b)
  /\ b # Main /\ refs[b] # NoTip /\ worktree[b] = "none"
  /\ refs' = [refs EXCEPT ![b] = NoTip]
  /\ reflog' = [reflog EXCEPT ![b] = NoLog]
  /\ UNCHANGED <<worktree, stashed, objects, now>>

CheckOut(b) ==
  /\ Event(b)
  /\ b # Main /\ refs[b] # NoTip
  /\ \E w \in {"none", "clean", "dirty"} \ {worktree[b]} :
       worktree' = [worktree EXCEPT ![b] = w]
  /\ UNCHANGED <<refs, reflog, stashed, objects, now>>

Stash(b) ==
  /\ Event(b)
  /\ b # Main
  /\ \E s \in [branch : {b}, subject : Subjects] \ stashed : stashed' = stashed \cup {s}
  /\ UNCHANGED <<refs, reflog, worktree, objects, now>>

\* gc removes what no ref reaches any more.
Prune ==
  /\ events < MaxEvents /\ events' = events + 1
  /\ objects' = objects \cap Reachable(refs)
  /\ objects' # objects
  /\ UNCHANGED <<refs, reflog, worktree, stashed, now>>

Tick ==
  /\ now < MaxTime
  /\ now' = now + 1
  /\ UNCHANGED <<refs, reflog, worktree, stashed, objects, events>>
============================================================================
