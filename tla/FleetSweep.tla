----------------------------- MODULE FleetSweep -----------------------------
(***************************************************************************)
(* src/fleet/scanner.ts with src/checkpoint/s3-checkpoint.ts: sweeps over  *)
(* the buckets of an account, one after the other, that are cut short and  *)
(* resumed from the checkpoint in S3.  The limiter is the pool of slots    *)
(* that ConcurrencyLimiter implements, with its queue in order.            *)
(***************************************************************************)
EXTENDS Naturals, Sequences, SequencesExt, FiniteSetsExt

CONSTANTS Bucket,
          Listings,     \* what ListBuckets may answer, in its order
          Excluded,     \* the names an exclusion pattern matches
          Errors,       \* the properties an error of an audit can have
          Concurrency,  \* bucketConcurrency
          MaxSweeps     \* bound

ASSUME FleetAssumption ==
  /\ Concurrency \in Nat \ {0}
  /\ IsFiniteSet(Bucket)
  /\ Listings \subseteq Seq(Bucket) /\ \A listing \in Listings : IsInjective(listing)

VARIABLES pc, sweep,
          uri,        \* options.checkpointUri is given
          listing,    \* the buckets still to be looked at
          discovered, \* all that were listed
          completed,  \* checkpointState.completedBuckets
          queue,      \* toAudit, waiting for a slot
          running,    \* audits that hold a slot
          chain,      \* results behind one another in saveChain; slots held too
          reported,   \* bucketResults
          saved,      \* the completedBuckets of the object in S3
          audits,     \* history: how often each bucket was audited
          crashes,    \* history
          unsaved     \* history: a load or a save has failed

sweepVars == <<listing, discovered, completed, queue, running, chain, reported>>
vars == <<pc, sweep, uri, sweepVars, saved, audits, crashes, unsaved>>

Result(bucket, status) == [bucket |-> bucket, status |-> status]
Buckets(results) == {results[i].bucket : i \in DOMAIN results}

Init ==
  /\ pc = "off" /\ sweep = 0 /\ uri \in BOOLEAN
  /\ listing = << >> /\ discovered = << >> /\ completed = << >>
  /\ queue = << >> /\ running = {} /\ chain = << >> /\ reported = << >>
  /\ saved = << >> /\ audits = [b \in Bucket |-> 0] /\ crashes = 0 /\ unsaved = FALSE

-----------------------------------------------------------------------------
Forget ==
  /\ completed' = << >> /\ queue' = << >> /\ running' = {}
  /\ chain' = << >> /\ reported' = << >>

BeginSweep ==
  /\ pc \in {"off", "done"} /\ sweep < MaxSweeps
  /\ sweep' = sweep + 1
  /\ \E answer \in Listings : listing' = answer /\ discovered' = answer
  /\ pc' = IF uri THEN "loading" ELSE "resolving"
  /\ Forget
  /\ UNCHANGED <<uri, saved, audits, crashes, unsaved>>

(* DiscoveryAuthError, whatever the error was.                             *)
ListFails ==
  /\ pc \in {"off", "done"} /\ sweep < MaxSweeps
  /\ sweep' = sweep + 1 /\ pc' = "off"
  /\ UNCHANGED <<uri, sweepVars, saved, audits, crashes, unsaved>>

(* A missing object is an empty checkpoint, and so is one that cannot be   *)
(* read.                                                                   *)
LoadCheckpoint ==
  /\ pc = "loading" /\ pc' = "resolving"
  /\ \/ completed' = saved /\ UNCHANGED unsaved
     \/ completed' = << >> /\ unsaved' = TRUE
  /\ UNCHANGED <<sweep, uri, listing, discovered, queue, running, chain, reported,
                 saved, audits, crashes>>

InCheckpoint(b) == b \in Buckets(completed)

\* the Map of completed buckets keeps the last of several entries
Entry(b) == completed[Max({i \in DOMAIN completed : completed[i].bucket = b})]

Report(result) == reported' = Append(reported, result) /\ UNCHANGED queue

\* slip: the exclusion patterns are matched for the buckets in the checkpoint
\* too, and their results are reported beside
ResolveBoth ==
  /\ pc = "resolving" /\ listing # << >>
  /\ LET b == Head(listing)
     IN \/ /\ InCheckpoint(b) /\ b \in Excluded
           /\ reported' = reported \o <<Entry(b), Result(b, "SKIPPED_EXCLUDED")>> /\ UNCHANGED queue
        \/ InCheckpoint(b) /\ b \notin Excluded /\ Report(Entry(b))
        \/ ~InCheckpoint(b) /\ queue' = Append(queue, b) /\ UNCHANGED reported
  /\ listing' = Tail(listing)
  /\ UNCHANGED <<pc, sweep, uri, discovered, completed, running, chain, saved, audits, crashes, unsaved>>

(* One bucket of the list: known from the checkpoint, excluded by name,    *)
(* its region unknown or excluded, or to be audited.                       *)
Resolve ==
  /\ pc = "resolving" /\ listing # << >>
  /\ LET b == Head(listing)
     IN \/ InCheckpoint(b) /\ Report(Entry(b))
        \/ ~InCheckpoint(b) /\ b \in Excluded /\ Report(Result(b, "SKIPPED_EXCLUDED"))
        \/ /\ ~InCheckpoint(b) /\ b \notin Excluded
           /\ \/ Report(Result(b, "SKIPPED_REGION"))
              \/ queue' = Append(queue, b) /\ UNCHANGED reported
  /\ listing' = Tail(listing)
  /\ UNCHANGED <<pc, sweep, uri, discovered, completed, running, chain, saved, audits, crashes, unsaved>>

Served(n) == IF n < Len(queue) THEN n ELSE Len(queue)

Dispatch ==
  /\ pc = "resolving" /\ listing = << >>
  /\ pc' = "auditing"
  /\ running' = ToSet(SubSeq(queue, 1, Served(Concurrency)))
  /\ queue' = SubSeq(queue, Served(Concurrency) + 1, Len(queue))
  /\ UNCHANGED <<sweep, uri, listing, discovered, completed, chain, reported, saved, audits, crashes, unsaved>>

(* A slot goes to the first of the queue.                                  *)
HandOver(rest) ==
  /\ running' = rest \cup ToSet(SubSeq(queue, 1, Served(1)))
  /\ queue' = SubSeq(queue, Served(1) + 1, Len(queue))

(* classifyS3Error, in the order auditOneBucket asks.                      *)
Classified(error) ==
  IF "payer" \in error THEN "SKIPPED_REQUESTER_PAYS"
  ELSE IF "denied" \in error THEN "SKIPPED_ACCESS_DENIED"
  ELSE IF "missing" \in error THEN "SKIPPED_NOT_FOUND" ELSE "ERROR"

Outcomes == {"AUDITED"} \cup {Classified(e) : e \in Errors}

\* slip: the slot is given back before the save
AuditUnsaved(b, status) ==
  /\ b \in running
  /\ audits' = [audits EXCEPT ![b] = @ + 1]
  /\ HandOver(running \ {b})
  /\ IF uri THEN chain' = Append(chain, Result(b, status)) /\ UNCHANGED reported
     ELSE reported' = Append(reported, Result(b, status)) /\ UNCHANGED chain
  /\ UNCHANGED <<pc, sweep, uri, listing, discovered, completed, saved, crashes, unsaved>>

(* auditOneBucket has answered: its result joins the chain of saves, and   *)
(* its slot is kept until it is saved.                                     *)
Audit(b, status) ==
  /\ b \in running
  /\ audits' = [audits EXCEPT ![b] = @ + 1]
  /\ IF uri
     THEN /\ running' = running \ {b}
          /\ chain' = Append(chain, Result(b, status))
          /\ UNCHANGED <<queue, reported>>
     ELSE /\ HandOver(running \ {b})
          /\ reported' = Append(reported, Result(b, status))
          /\ UNCHANGED chain
  /\ UNCHANGED <<pc, sweep, uri, listing, discovered, completed, saved, crashes, unsaved>>

\* slip: the object holds the new result instead of the list
SaveResultAlone ==
  /\ pc = "auditing" /\ chain # << >>
  /\ completed' = Append(completed, Head(chain))
  /\ saved' = <<Head(chain)>> /\ UNCHANGED unsaved
  /\ chain' = Tail(chain)
  /\ reported' = Append(reported, Head(chain))
  /\ HandOver(running)
  /\ UNCHANGED <<pc, sweep, uri, listing, discovered, audits, crashes>>

(* The first of the chain is pushed and written; a failure is swallowed.   *)
Save ==
  /\ pc = "auditing" /\ chain # << >>
  /\ completed' = Append(completed, Head(chain))
  /\ \/ saved' = completed' /\ UNCHANGED unsaved
     \/ unsaved' = TRUE /\ UNCHANGED saved
  /\ chain' = Tail(chain)
  /\ reported' = Append(reported, Head(chain))
  /\ HandOver(running)
  /\ UNCHANGED <<pc, sweep, uri, listing, discovered, audits, crashes>>

Finish ==
  /\ pc = "auditing" /\ queue = << >> /\ running = {} /\ chain = << >>
  /\ pc' = "done"
  /\ UNCHANGED <<sweep, uri, sweepVars, saved, audits, crashes, unsaved>>

(* The time limit of a Lambda, a kill: what is in memory is gone.          *)
Crash ==
  /\ pc \notin {"off", "done"} /\ pc' = "off" /\ crashes' = crashes + 1
  /\ Forget /\ listing' = << >> /\ discovered' = << >>
  /\ UNCHANGED <<sweep, uri, saved, audits, unsaved>>

Work ==
  \/ LoadCheckpoint \/ Resolve \/ Dispatch \/ Save \/ Finish
  \/ \E b \in Bucket, status \in Outcomes : Audit(b, status)

Next == BeginSweep \/ ListFails \/ Work \/ Crash

Spec == Init /\ [][Next]_vars

-----------------------------------------------------------------------------
(* A finished sweep reports every bucket that was listed once and no other *)
(* one, whatever was in the checkpoint and whoever skipped it.             *)
ReportCoversListing ==
  pc = "done" =>
    /\ Len(reported) = Len(discovered)
    /\ Buckets(reported) = ToSet(discovered)

(* What is in S3 is only ever added to, in the order the audits ended,     *)
(* unless a checkpoint could not be read.                                  *)
CheckpointGrows == [][unsaved' \/ IsPrefix(saved, saved')]_saved

(* With a checkpoint that can be read and written, a crash costs at most   *)
(* the audits that held a slot.                                            *)
Repeated(b) == IF audits[b] > 1 THEN audits[b] - 1 ELSE 0

CrashCostsSlots ==
  uri /\ ~unsaved => SumFunctionOnSet([b \in Bucket |-> Repeated(b)], Bucket) <= Concurrency * crashes

=============================================================================
