----------------------------- MODULE DaemonLock -----------------------------
(***************************************************************************)
(* src/daemon/lockfile.ts: operating system processes that acquire, hold   *)
(* and release one lock file, with crashes and reused pids.                *)
(*                                                                         *)
(* Here the atomic step is the system call: processes interleave between   *)
(* any two of them, although each runs its code synchronously.             *)
(* writeFileSync(.., 'wx') is two calls, one that creates an empty file    *)
(* and one that writes the pid into the file it created, which may have    *)
(* been unlinked meanwhile.  A process creates at most one file, so the    *)
(* file is named after its creator.                                        *)
(***************************************************************************)
EXTENDS Naturals, FiniteSets

CONSTANTS Daemon,     \* processes that run acquireDaemonLock
          Mortal,     \* those of them that may be killed at any point
          Bystander,  \* other processes of the machine
          PidOf,      \* the pid each gets when it starts; pids are reused
          NoLock

Process == Daemon \cup Bystander

ASSUME ProcessAssumption ==
  /\ Daemon \cap Bystander = {} /\ Mortal \subseteq Daemon
  /\ NoLock \notin Process
  /\ DOMAIN PidOf = Process

VARIABLES at,       \* where each process is
          file,     \* the creator of the file now linked at the path
          written,  \* the daemons that have written their pid
          seen,     \* the creator of the file each daemon last read
          raced     \* history: two acquisitions have overlapped

lockVars == <<at, file, written, seen, raced>>

Acquiring == {"creating", "writing", "reading", "probing", "unlinking", "recreating"}
Releasing == {"checking", "removing"}
Alive(p)  == at[p] \notin {"off", "gone", "killed"}

\* process.kill(pid, 0), of whatever process has the pid now
PidAlive(pid) == \E p \in Process : Alive(p) /\ PidOf[p] = pid

LockInit ==
  /\ at = [p \in Process |-> "off"]
  /\ file = NoLock
  /\ written = {}
  /\ seen = [d \in Daemon |-> NoLock]
  /\ raced = FALSE

Goto(p, from, to) == at[p] = from /\ at' = [at EXCEPT ![p] = to]

-----------------------------------------------------------------------------
Start(p) ==
  /\ ~PidAlive(PidOf[p])
  /\ Goto(p, "off", IF p \in Daemon THEN "creating" ELSE "working")
  /\ raced' = (raced \/ (p \in Daemon /\ \E d \in Daemon : at[d] \in Acquiring))
  /\ UNCHANGED <<file, written, seen>>

(* The first open with 'wx'.                                               *)
Create(d) ==
  /\ IF file = NoLock THEN Goto(d, "creating", "writing") /\ file' = d
                      ELSE Goto(d, "creating", "reading") /\ UNCHANGED file
  /\ UNCHANGED <<written, seen, raced>>

WritePid(d) ==
  /\ Goto(d, "writing", "holding")
  /\ written' = written \cup {d}
  /\ UNCHANGED <<file, seen, raced>>

(* readFileSync and parseInt: no file or an empty one gives no pid.        *)
ReadPid(d) ==
  /\ Goto(d, "reading", IF file \in written THEN "probing" ELSE "unlinking")
  /\ seen' = [seen EXCEPT ![d] = file]
  /\ UNCHANGED <<file, written, raced>>

\* slip: any pid found in the file is taken for a dead one
ProbePidNever(d) ==
  /\ Goto(d, "probing", "unlinking")
  /\ UNCHANGED <<file, written, seen, raced>>

(* isPidAlive: the lock is held, DaemonLockError, or stale.                *)
ProbePid(d) ==
  /\ Goto(d, "probing", IF PidAlive(PidOf[seen[d]]) THEN "refused" ELSE "unlinking")
  /\ UNCHANGED <<file, written, seen, raced>>

(* unlinkSync takes the path: it removes whatever file is there by now.    *)
UnlinkStale(d) ==
  /\ Goto(d, "unlinking", "recreating")
  /\ file' = NoLock
  /\ UNCHANGED <<written, seen, raced>>

CreateAgain(d) ==
  /\ IF file = NoLock THEN Goto(d, "recreating", "writing") /\ file' = d
                      ELSE Goto(d, "recreating", "refused") /\ UNCHANGED file
  /\ UNCHANGED <<written, seen, raced>>

-----------------------------------------------------------------------------
(* release(), or the exit hook of a process that ends while it holds.      *)
BeginRelease(d) ==
  /\ Goto(d, "holding", "checking")
  /\ UNCHANGED <<file, written, seen, raced>>

\* slip: the comparison with the own pid is inverted
CheckOthersPid(d) ==
  /\ Goto(d, "checking",
          IF file \in written /\ PidOf[file] # PidOf[d] THEN "removing" ELSE "done")
  /\ UNCHANGED <<file, written, seen, raced>>

CheckOwnPid(d) ==
  /\ Goto(d, "checking",
          IF file \in written /\ PidOf[file] = PidOf[d] THEN "removing" ELSE "done")
  /\ UNCHANGED <<file, written, seen, raced>>

RemoveOwn(d) ==
  /\ Goto(d, "removing", "done")
  /\ file' = NoLock
  /\ UNCHANGED <<written, seen, raced>>

(* A process that is refused or done ends; a bystander ends when it likes. *)
Exit(p) ==
  /\ at[p] \in {"refused", "done", "working"}
  /\ at' = [at EXCEPT ![p] = "gone"]
  /\ UNCHANGED <<file, written, seen, raced>>

(* SIGKILL, power loss: no exit hook runs, the file stays.                 *)
Kill(d) ==
  /\ d \in Mortal
  /\ Alive(d)
  /\ at' = [at EXCEPT ![d] = "killed"]
  /\ UNCHANGED <<file, written, seen, raced>>

Acquire(d) ==
  \/ Create(d) \/ WritePid(d) \/ ReadPid(d) \/ ProbePid(d)
  \/ UnlinkStale(d) \/ CreateAgain(d)

Release(d) == CheckOwnPid(d) \/ RemoveOwn(d)

LockNext ==
  \/ \E p \in Process : Start(p) \/ Exit(p)
  \/ \E d \in Daemon : Acquire(d) \/ BeginRelease(d) \/ Release(d) \/ Kill(d)

LockSpec == LockInit /\ [][LockNext]_lockVars

-----------------------------------------------------------------------------
Holders == {d \in Daemon : at[d] \in {"holding"} \cup Releasing}

(* Every variable has its type; a pid is probed only if one was read.      *)
TypeOK ==
  /\ at \in [Process -> {"off", "working", "holding", "refused", "done", "gone", "killed"}
                          \cup Acquiring \cup Releasing]
  /\ file \in Daemon \cup {NoLock}
  /\ written \in SUBSET Daemon
  /\ seen \in [Daemon -> Daemon \cup {NoLock}]
  /\ raced \in BOOLEAN
  /\ \A d \in Daemon : at[d] = "probing" => seen[d] \in written

(* While no two acquisitions overlap the lock excludes: crashes at any     *)
(* system call, releases in progress and reused pids included.             *)
SequentialExclusion == ~raced => Cardinality(Holders) <= 1

(* The lock a daemon holds is on disk with its pid up to the unlink of its *)
(* own release: the next one to come can see it.                           *)
HolderMarked == ~raced => \A d \in Holders : file = d /\ d \in written

(* A release removes no lock but its own.                                  *)
ReleaseOwnOnly ==
  [][\A d \in Daemon : ~raced /\ at[d] = "removing" /\ at'[d] = "done" => file = d]_lockVars

(* A lock file without a live process behind it was left by a crash: every *)
(* other end, raced acquisitions and refusals included, cleans up.         *)
NoLitter == file # NoLock /\ ~Alive(file) => at[file] = "killed"

=============================================================================
