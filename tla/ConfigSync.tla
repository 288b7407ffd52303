----------------------------- MODULE ConfigSync -----------------------------
\* config sync: the data directory of each machine as a git repository, and the
\* remote that they share (src/core/config_sync.cpp, builtin_config in
\* src/builtins/config.cpp).  Every step is a run of git that may fail.
EXTENDS Naturals, FiniteSets, Functions

CONSTANTS
  Syncers,    \* the shells
  MachineOf,  \* the machine each of them runs on
  SyncFiles,  \* the files of the data directory
  Ignored,    \* those that .gitignore names
  MaxEdits,   \* bound on the changes made to files
  MaxSyncs    \* bound on the pushes and pulls begun

ASSUME SyncAssumption ==
  /\ DOMAIN MachineOf = Syncers /\ Ignored \subseteq SyncFiles /\ MaxEdits \in Nat /\ MaxSyncs \in Nat

VARIABLES
  work,    \* on each machine, the version of each file; 0 when there is none
  staged,  \* the index: the versions added
  head,    \* the commit of master, or None
  repo,    \* the machines whose directory is a repository
  origin,  \* those that have a remote
  remote,  \* the remote's master
  doing,   \* the step of each shell: "prompt", "add", "commit", "push"
  begun,   \* what the directory held when the shell's push began
  edits, syncs

syncVars == <<work, staged, head, repo, origin, remote, doing, begun, edits, syncs>>
machine == <<work, staged, head, repo, origin>>

Machines == Range(MachineOf)
NoFiles == [f \in SyncFiles |-> 0]
\* A commit: its files, and all the commits before it.
None == [tree |-> NoFiles, past |-> {}]

SyncInit ==
  /\ work = [m \in Machines |-> NoFiles] /\ staged = work /\ head = [m \in Machines |-> None]
  /\ repo = {} /\ origin = {} /\ remote = None
  /\ doing = [s \in Syncers |-> "prompt"] /\ begun = [s \in Syncers |-> NoFiles]
  /\ edits = 0 /\ syncs = 0

Idle(s) == doing[s] = "prompt"
Command(s) == Idle(s) /\ syncs < MaxSyncs /\ syncs' = syncs + 1
Here(s) == MachineOf[s]

\* A program changes a file; every change has a number of its own.
Edit(m, f) ==
  /\ edits < MaxEdits /\ edits' = edits + 1 /\ work' = [work EXCEPT ![m][f] = edits']
  /\ UNCHANGED <<staged, head, repo, origin, remote, doing, begun, syncs>>

-----------------------------------------------------------------------------
\* sync_init is git init, which does no harm to a repository, and .gitignore.
SyncInitRepo(s) ==
  /\ Idle(s) /\ repo' = repo \cup {Here(s)}
  /\ UNCHANGED <<work, staged, head, origin, remote, doing, begun, edits, syncs>>

\* sync_set_remote adds the remote, or sets its address where it is there already.
SyncSetRemote(s) ==
  /\ Idle(s) /\ Here(s) \in repo /\ origin' = origin \cup {Here(s)}
  /\ UNCHANGED <<work, staged, head, repo, remote, doing, begun, edits, syncs>>

\* sync_pull: git takes what is ahead of it, if that overwrites nothing that was
\* changed; everything else is refused.
Ahead(m) == head[m] \in remote.past \cup {None} /\ remote # head[m]
Touched(m) == {f \in SyncFiles : remote.tree[f] # head[m].tree[f]}
Clean(m, files) == \A f \in files : work[m][f] = head[m].tree[f] /\ staged[m][f] = head[m].tree[f]

SyncPull(s) ==
  /\ Command(s) /\ Here(s) \in origin /\ remote # None
  /\ LET m == Here(s) IN
       /\ Ahead(m) /\ Clean(m, Touched(m))
       /\ head' = [head EXCEPT ![m] = remote]
       /\ work' = [work EXCEPT ![m] = [f \in SyncFiles |-> IF f \in Touched(m) THEN remote.tree[f] ELSE @[f]]]
       /\ staged' = [staged EXCEPT ![m] = [f \in SyncFiles |-> IF f \in Touched(m) THEN remote.tree[f] ELSE @[f]]]
  /\ UNCHANGED <<repo, origin, remote, doing, begun, edits>>

-----------------------------------------------------------------------------
\* sync_push: git add -A, git commit, git push origin master.  Other shells and
\* programs run between the three.
SyncPush(s) ==
  /\ Command(s) /\ Here(s) \in repo
  /\ doing' = [doing EXCEPT ![s] = "add"] /\ begun' = [begun EXCEPT ![s] = work[Here(s)]]
  /\ UNCHANGED <<machine, remote, edits>>

Then(s, step) == doing' = [doing EXCEPT ![s] = step]

GitAdd(s) ==
  /\ doing[s] = "add" /\ Then(s, "commit")
  /\ staged' = [staged EXCEPT ![Here(s)] = [f \in SyncFiles |-> IF f \in Ignored THEN 0 ELSE work[Here(s)][f]]]
  /\ UNCHANGED <<work, head, repo, origin, remote, begun, edits, syncs>>

GitCommit(s) ==
  /\ doing[s] = "commit" /\ Then(s, "push")
  /\ LET m == Here(s) IN
       /\ staged[m] # head[m].tree
       /\ head' = [head EXCEPT ![m] = [tree |-> staged[m], past |-> @.past \cup {@}]]
  /\ UNCHANGED <<work, staged, repo, origin, remote, begun, edits, syncs>>

\* Mutant: a commit that fails is taken for one that had nothing to do.
AnyFailure(s) == TRUE

\* git says "nothing to commit" when there is nothing to add either.
NothingToCommit(s) ==
  LET m == Here(s) IN
  /\ staged[m] = head[m].tree /\ \A f \in SyncFiles \ Ignored : work[m][f] = staged[m][f]

\* The commit fails, but because there was nothing to do.
NoCommit(s) ==
  /\ doing[s] = "commit" /\ NothingToCommit(s) /\ Then(s, "push")
  /\ UNCHANGED <<machine, remote, begun, edits, syncs>>

GitFails(s) ==
  /\ doing[s] # "prompt" /\ Then(s, "prompt")
  /\ UNCHANGED <<machine, remote, begun, edits, syncs>>

\* The remote takes only what is ahead of it.
GitPush(s) ==
  /\ doing[s] = "push" /\ Then(s, "prompt")
  /\ LET m == Here(s) IN
       /\ m \in origin /\ head[m] # None /\ (remote = head[m] \/ remote \in head[m].past)
       /\ remote' = head[m]
  /\ UNCHANGED <<machine, begun, edits, syncs>>

SyncNext ==
  \/ \E m \in Machines, f \in SyncFiles : Edit(m, f)
  \/ \E s \in Syncers :
       \/ SyncInitRepo(s) \/ SyncSetRemote(s) \/ SyncPull(s)
       \/ SyncPush(s) \/ GitAdd(s) \/ GitCommit(s) \/ NoCommit(s) \/ GitPush(s) \/ GitFails(s)

SyncSpec == SyncInit /\ [][SyncNext]_syncVars

-----------------------------------------------------------------------------
\* Properties

\* A push that reports ok has put there what the directory held when it began, for
\* every file that is not ignored: as it was then, or a later version, which another
\* program or another shell's sync has brought.
PushedIsThere ==
  [][\A s \in Syncers : GitPush(s) =>
       \A f \in SyncFiles \ Ignored : remote'.tree[f] >= begun[s][f]]_syncVars
=============================================================================
