------------------------------ MODULE MCDaemons ------------------------------
(* A daemon and its history, and the lock file it takes.  The daemon knows *)
(* the lock as a flag and the lock file knows of a daemon only that it     *)
(* holds, so that one instance checks them next to each other: a behaviour *)
(* is of one part, the state of the other rests.                           *)
(* History: two lives, `state compact` beside them.  Lock: three daemons   *)
(* and one other process; the third daemon and the other process get a pid *)
(* that the first daemon had: a reboot or a container that starts again    *)
(* hands out the same pids.                                                *)
EXTENDS AuditDaemon, DaemonLock, TLC

CONSTANTS d1, d2, d3, b1

VARIABLE part

MCDaemon == {d1, d2, d3}
MCBystander == {b1}
MCPidOf == (d1 :> 1) @@ (d2 :> 2) @@ (d3 :> 1) @@ (b1 :> 1)

MCInit ==
  /\ Init /\ LockInit
  /\ part \in {"history", "lock"} /\ (part = "lock" => exits)

MCNext ==
  \/ part = "history" /\ Next /\ UNCHANGED <<part, lockVars>>
  \/ part = "lock" /\ LockNext /\ UNCHANGED <<part, vars>>

MCSpec == MCInit /\ [][MCNext]_<<part, vars, lockVars>> /\ WF_vars(Proceed)
=============================================================================
