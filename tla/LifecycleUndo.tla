---------------------------- MODULE LifecycleUndo ----------------------------
(***************************************************************************)
(* src/remediation/api.ts, `policy apply` of src/cli.ts and src/rollback/: *)
(* commands of several operators that read the lifecycle rules of one      *)
(* bucket, change them and put them back, the manifest each leaves, and    *)
(* the rollback of a manifest, while other clients of the bucket write its *)
(* rules too.  The rules are a set: none at all is the 404 the code turns  *)
(* into a null state.  Two hashes are equal when the sets are.             *)
(***************************************************************************)
EXTENDS Naturals, Sequences

CONSTANTS Operator,     \* who runs the commands, one at a time each
          Target,       \* the versions of rule s3-guardian-abort-mpu
          OtherRule,    \* rules that the guardian does not own
          Policies,     \* rule sets a policy compiles to
          Tries,        \* requests that withRetry makes
          MaxCommands, MaxWrites  \* bounds

ASSUME UndoAssumption ==
  /\ Target # {} /\ Target \intersect OtherRule = {}
  /\ Policies \subseteq SUBSET (Target \union OtherRule) /\ {} \notin Policies
  /\ Tries \in Nat \ {0}

VARIABLES live,       \* the rules of the bucket in S3
          stage, job,    \* of each operator
          seen,       \* preStateCapture of its command
          tries,      \* requests of the Put so far
          manifests,  \* the undo manifests, oldest first
          rolledBack, \* the manifests a REMEDIATION_ROLLED_BACK event names
          commands, writes,
          before,     \* history: the rules when the command's Put was first applied
          dirty       \* history: someone else wrote since the command's Get

rulesVars == <<live, stage, job, seen, tries, manifests, rolledBack, commands, writes,
               before, dirty>>

LifecycleRule == Target \union OtherRule
NoJob == [kind |-> "none"]
Unapplied == [rules |-> {}, known |-> FALSE]

RulesInit ==
  /\ live \in (SUBSET OtherRule) \union {{t} : t \in Target}
  /\ stage = [o \in Operator |-> "idle"] /\ job = [o \in Operator |-> NoJob]
  /\ seen = [o \in Operator |-> {}] /\ tries = [o \in Operator |-> 0]
  /\ manifests = << >> /\ rolledBack = {} /\ commands = 0 /\ writes = 0
  /\ before = [o \in Operator |-> Unapplied] /\ dirty = [o \in Operator |-> FALSE]

-----------------------------------------------------------------------------
\* slip: the clean rule is all that is put
MergeAlone(rules, target) == {target}

(* The rule of this ID is replaced, or the rule is appended.               *)
Merge(rules, target) == (rules \ Target) \union {target}

(* A policy's rules take the place of all rules.                           *)
Written(o) ==
  CASE job[o].kind = "remediate" -> Merge(seen[o], job[o].target)
    [] job[o].kind = "policy"    -> job[o].rules
    [] job[o].kind = "rollback"  -> manifests[job[o].manifest].pre

\* what a command knew goes with it
Ends(o) ==
  /\ stage' = [stage EXCEPT ![o] = "idle"] /\ job' = [job EXCEPT ![o] = NoJob]
  /\ seen' = [seen EXCEPT ![o] = {}] /\ tries' = [tries EXCEPT ![o] = 0]

Begins(o, newJob) ==
  /\ commands < MaxCommands /\ commands' = commands + 1
  /\ seen' = [seen EXCEPT ![o] = live]
  /\ stage' = [stage EXCEPT ![o] = "write"] /\ job' = [job EXCEPT ![o] = newJob]
  /\ UNCHANGED <<live, tries, manifests, rolledBack, writes, before, dirty>>

Remediations == [kind : {"remediate"}, target : Target]
PolicyRuns == [kind : {"policy"}, rules : Policies]

(* captureLifecyclePreState; what follows it up to the Put has no await.   *)
Capture(o) ==
  /\ stage[o] = "idle"
  /\ \E newJob \in Remediations \union PolicyRuns : Begins(o, newJob)

Drifted(m) == live # manifests[m].post

(* The manifest is read and compared with the live rules; --force passes.  *)
CheckDrift(o) ==
  /\ stage[o] = "idle"
  /\ \E m \in DOMAIN manifests, force \in BOOLEAN :
       /\ ~Drifted(m) \/ force
       /\ Begins(o, [kind |-> "rollback", manifest |-> m, force |-> force])

-----------------------------------------------------------------------------
\* how the others' commands, and this one, remember a write of o
Remembered(o) == [p \in Operator |-> dirty[p] \/ (p # o /\ stage[p] = "write")]
First(o) == IF before[o].known THEN before[o] ELSE [rules |-> live, known |-> TRUE]

Answered(o) ==
  /\ stage[o] = "write" /\ live' = Written(o)
  /\ stage' = [stage EXCEPT ![o] = "record"]
  /\ before' = [before EXCEPT ![o] = First(o)] /\ dirty' = Remembered(o)
  /\ UNCHANGED <<job, seen, tries, manifests, rolledBack, commands, writes>>

(* withRetry sends again what was built once; the Puts of a policy and of  *)
(* a rollback are sent once.  The error, or a crash, leaves the command:   *)
(* there is no manifest, although the request may have been carried out.   *)
Unanswered(o) ==
  /\ stage[o] = "write"
  /\ \E applied \in BOOLEAN :
       /\ live' = IF applied THEN Written(o) ELSE live
       /\ \/ /\ job[o].kind = "remediate" /\ tries[o] + 1 < Tries
             /\ tries' = [tries EXCEPT ![o] = @ + 1]
             /\ before' = IF applied THEN [before EXCEPT ![o] = First(o)] ELSE before
             /\ dirty' = IF applied THEN Remembered(o) ELSE dirty
             /\ UNCHANGED <<stage, job, seen>>
          \/ /\ Ends(o) /\ before' = [before EXCEPT ![o] = Unapplied]
             /\ dirty' = [(IF applied THEN Remembered(o) ELSE dirty) EXCEPT ![o] = FALSE]
  /\ UNCHANGED <<manifests, rolledBack, commands, writes>>

\* slip: the manifest is made from the rules as they are after the Put
ManifestLate(o) == [pre |-> live, post |-> Written(o), before |-> before[o].rules, clean |-> ~dirty[o]]

Manifest(o) == [pre |-> seen[o], post |-> Written(o), before |-> before[o].rules, clean |-> ~dirty[o]]

(* createUndoManifest, whose failure remediate reports on stderr only and  *)
(* a policy run ends with; or the event of a rollback, whose failure is    *)
(* swallowed.  A crash leaves neither.                                     *)
Record(o) ==
  /\ stage[o] = "record"
  /\ \/ /\ job[o].kind # "rollback"
        /\ manifests' = Append(manifests, Manifest(o)) /\ UNCHANGED rolledBack
     \/ /\ job[o].kind = "rollback"
        /\ rolledBack' = rolledBack \union {job[o].manifest} /\ UNCHANGED manifests
     \/ UNCHANGED <<manifests, rolledBack>>
  /\ Ends(o) /\ before' = [before EXCEPT ![o] = Unapplied] /\ dirty' = [dirty EXCEPT ![o] = FALSE]
  /\ UNCHANGED <<live, commands, writes>>

(* Another client adds a rule or takes one away.                           *)
OtherOwner ==
  /\ writes < MaxWrites /\ writes' = writes + 1
  /\ \E r \in OtherRule : live' = IF r \in live THEN live \ {r} ELSE live \union {r}
  /\ dirty' = [o \in Operator |-> dirty[o] \/ stage[o] = "write"]
  /\ UNCHANGED <<stage, job, seen, tries, manifests, rolledBack, commands, before>>

Steps(o) == Answered(o) \/ Unanswered(o) \/ Record(o)

RulesNext == OtherOwner \/ \E o \in Operator : Capture(o) \/ CheckDrift(o) \/ Steps(o)

RulesSpec == RulesInit /\ [][RulesNext]_rulesVars

-----------------------------------------------------------------------------
(* A rollback that is not forced, and that nobody writes next to, undoes   *)
(* its own command and nothing else: the bucket has what the command left, *)
(* and is given what it had before, if nobody wrote next to the command.   *)
UndoIsInverse ==
  [][\A o \in Operator :
       (job[o].kind = "rollback" /\ ~job[o].force /\ ~dirty[o] /\ Answered(o)) =>
         LET m == manifests[job[o].manifest]
         IN live = m.post /\ (m.clean => live' = m.before)]_rulesVars

(* A rule of another owner is lost to a remediation, one that is retried   *)
(* after an answer was lost too, only if someone wrote between its Get and *)
(* its last Put.                                                           *)
OtherRulesKept ==
  [][\A o \in Operator :
       (job[o].kind = "remediate" /\ ~dirty[o] /\ (Answered(o) \/ Unanswered(o)))
         => live \intersect OtherRule \subseteq live']_rulesVars

=============================================================================
