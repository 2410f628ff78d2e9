---------------------------- MODULE AccountSweep ----------------------------
(***************************************************************************)
(* src/multi-account/runner.ts over src/auth/sts-pool.ts and               *)
(* src/discovery/organizations.ts: the accounts of an organisation are     *)
(* listed page by page, then swept a few at a time, each with credentials  *)
(* the pool of sessions obtains, shares and keeps.  The pool belongs to    *)
(* the sweep, or to a caller who uses it again and may clear it.           *)
(*                                                                         *)
(* A call is the sweep of one entry of the list; its request to STS, and   *)
(* the promise other calls for the role may wait for, bear its number.     *)
(*                                                                         *)
(* The role's name is relative, and then a role of each account, or a full *)
(* ARN, and then the role of one account for every entry of the list.      *)
(***************************************************************************)
EXTENDS Selection

CONSTANTS Account,
          Directories,   \* what ListAccounts may answer: sequences of pages
          Inactive, ExcludedAccounts,
          AccountConcurrency,  \* 1 to 10
          Roles,         \* the names: None if relative, or the ARN's account
          Lifetimes,     \* what Expiration may leave of a session
          RefreshWindow,
          MaxRetries,
          MaxEntries, MaxTime, MaxRounds,  \* bounds
          None

Call     == 1..MaxEntries
Endings  == {"SUCCESS", "SKIPPED_ACCESS_DENIED"}
Statuses == Endings \cup {"SKIPPED_ASSUME_ROLE_FAILED"}
Session  == [account : Account, until : Nat]

ASSUME SweepAssumption ==
  /\ AccountConcurrency \in 1..10
  /\ RefreshWindow \in Nat /\ Lifetimes \subseteq Nat
  /\ Roles \subseteq Account \cup {None}
  /\ MaxRetries \in Nat /\ MaxEntries \in Nat
  /\ \A d \in Directories : d \in Seq(Seq(Account)) /\ d # << >>
  /\ None \notin Nat \cup Session \cup Statuses \cup Account

VARIABLES phase,    \* "listing", "sweeping", "done" or "failed"
          pages,    \* the pages not read yet
          targets,  \* the accounts to sweep, in order
          role,     \* the name of the role to assume in each
          stage,    \* of each call
          waits,    \* the call whose request each call waits for
          tries,    \* the repeats of its request
          held,     \* the credentials each call sweeps with
          status,   \* of each account result
          cache, inFlight, destroyed,  \* the pool
          owned,    \* it is the sweep's
          now, round,
          cleared,  \* history: clear() was called in this round
          denied,   \* history: the accounts whose role could not be assumed
          threw     \* history: a callback has thrown

\* what getCacheKey tells apart
Keys      == Account \X Roles
pool      == <<cache, inFlight, destroyed>>
callVars  == <<stage, waits, tries, held, status>>
accountVars ==
  <<phase, pages, targets, role, callVars, pool, owned, now, round, cleared, denied, threw>>

NoCalls ==
  /\ stage' = [c \in Call |-> "queued"] /\ waits' = [c \in Call |-> None]
  /\ tries' = [c \in Call |-> 0] /\ held' = [c \in Call |-> None]
  /\ status' = [c \in Call |-> None]

AccountInit ==
  /\ phase = "listing" /\ pages \in Directories /\ targets = << >> /\ role \in Roles
  /\ stage = [c \in Call |-> "queued"] /\ waits = [c \in Call |-> None]
  /\ tries = [c \in Call |-> 0] /\ held = [c \in Call |-> None]
  /\ status = [c \in Call |-> None]
  /\ cache = [k \in Keys |-> None] /\ inFlight = [k \in Keys |-> None]
  /\ destroyed = FALSE /\ owned \in BOOLEAN
  /\ now = 0 /\ round = 1 /\ cleared = FALSE /\ denied = {} /\ threw = FALSE

-----------------------------------------------------------------------------
(* discoverOrganizationAccounts: nothing removes an account listed twice.  *)
ReadPage ==
  /\ phase = "listing" /\ pages # << >>
  /\ targets' = targets \o Filtered(Head(pages), Account \ (Inactive \cup ExcludedAccounts))
  /\ Len(targets') <= MaxEntries
  /\ pages' = Tail(pages)
  /\ phase' = IF pages' = << >> THEN "sweeping" ELSE phase
  /\ UNCHANGED <<role, callVars, pool, owned, now, round, cleared, denied, threw>>

(* OrganizationsDiscoveryError: nothing is swept and no pool is made.      *)
ListingFails ==
  /\ phase = "listing" /\ phase' = "failed" /\ targets' = << >>
  /\ UNCHANGED <<role, pages, callVars, pool, owned, now, round, cleared, denied, threw>>

-----------------------------------------------------------------------------
\* slip: the cache tells accounts apart and not roles
KeyOfAccount(a) == <<a, CHOOSE name \in Roles : TRUE>>

Key(a) == <<a, role>>

\* formatRoleArn: a full ARN is taken as it is
RoleAccount(a) == IF role = None THEN a ELSE role

Target  == DOMAIN targets
Busy    == {c \in Target : stage[c] \in {"asking", "joined", "sweeping"}}
Settled == {c \in Target : stage[c] \in {"done", "rejected"}}

\* the first of the queue, while a slot is free
Startable(c) ==
  /\ phase # "listing" /\ c \in Target /\ stage[c] = "queued"
  /\ Cardinality(Busy) < AccountConcurrency
  /\ \A d \in Target : stage[d] = "queued" => c <= d

(* A callback throws inside the limited function: Promise.all rejects and  *)
(* the pool is destroyed, while other calls go on and queued ones start.   *)
Reject(c) ==
  /\ stage' = [stage EXCEPT ![c] = "rejected"]
  /\ phase' = IF phase = "sweeping" THEN "failed" ELSE phase
  /\ threw' = TRUE
  /\ IF phase = "sweeping" /\ owned
     THEN /\ destroyed' = TRUE
          /\ cache' = [k \in Keys |-> None] /\ inFlight' = [k \in Keys |-> None]
     ELSE UNCHANGED pool

StartThrows(c) ==
  /\ Startable(c) /\ Reject(c)
  /\ UNCHANGED <<pages, targets, role, waits, tries, held, status, owned, now, round, cleared, denied>>

(* assumeRole, up to its first await.                                      *)
AssumeDestroyed(c) ==
  /\ Startable(c) /\ destroyed
  /\ stage' = [stage EXCEPT ![c] = "done"]
  /\ status' = [status EXCEPT ![c] = "SKIPPED_ASSUME_ROLE_FAILED"]
  /\ denied' = denied \cup {targets[c]}
  /\ UNCHANGED <<phase, pages, targets, role, waits, tries, held, pool, owned, now, round, cleared, threw>>

\* slip: any session that has not expired is used
UsableUnexpired(a) == IF cache[Key(a)] = None THEN FALSE ELSE cache[Key(a)].until > now

Usable(a) == IF cache[Key(a)] = None THEN FALSE ELSE cache[Key(a)].until - now > RefreshWindow

AssumeCached(c) ==
  /\ Startable(c) /\ ~destroyed /\ Usable(targets[c])
  /\ stage' = [stage EXCEPT ![c] = "sweeping"]
  /\ held' = [held EXCEPT ![c] = cache[Key(targets[c])]]
  /\ UNCHANGED <<phase, pages, targets, role, waits, tries, status, pool, owned, now, round, cleared, denied, threw>>

AssumeJoin(c) ==
  /\ Startable(c) /\ ~destroyed /\ ~Usable(targets[c]) /\ inFlight[Key(targets[c])] # None
  /\ stage' = [stage EXCEPT ![c] = "joined"]
  /\ waits' = [waits EXCEPT ![c] = inFlight[Key(targets[c])]]
  /\ UNCHANGED <<phase, pages, targets, role, tries, held, status, pool, owned, now, round, cleared, denied, threw>>

\* slip: the request is registered after it has been answered
AssumeAskUnregistered(c) ==
  /\ Startable(c) /\ ~destroyed /\ ~Usable(targets[c]) /\ inFlight[Key(targets[c])] = None
  /\ stage' = [stage EXCEPT ![c] = "asking"]
  /\ waits' = [waits EXCEPT ![c] = c]
  /\ UNCHANGED <<phase, pages, targets, role, tries, held, status, pool, owned, now, round, cleared, denied, threw>>

AssumeAsk(c) ==
  /\ Startable(c) /\ ~destroyed /\ ~Usable(targets[c]) /\ inFlight[Key(targets[c])] = None
  /\ stage' = [stage EXCEPT ![c] = "asking"]
  /\ waits' = [waits EXCEPT ![c] = c]
  /\ inFlight' = [inFlight EXCEPT ![Key(targets[c])] = c]
  /\ UNCHANGED <<phase, pages, targets, role, tries, held, status, cache, destroyed, owned, now, round, cleared, denied, threw>>

Waiting(c) == {d \in Target : stage[d] \in {"asking", "joined"} /\ waits[d] = c}

\* what the callers waited for
Resumed(c) ==
  /\ waits' = [d \in Call |-> IF d \in Waiting(c) THEN None ELSE waits[d]]
  /\ tries' = [tries EXCEPT ![c] = 0]

ThrottledAsk(c) ==
  /\ stage[c] = "asking" /\ tries[c] < MaxRetries
  /\ tries' = [tries EXCEPT ![c] = @ + 1]
  /\ UNCHANGED <<phase, pages, targets, role, stage, waits, held, status, pool, owned, now, round, cleared, denied, threw>>

(* executeAssumeRole fills the cache whatever the Expiration is, the       *)
(* finally block of the first caller removes whatever is registered for    *)
(* the role, and all who wait resume with the same session.                *)
Assumed(c, lifetime) ==
  /\ stage[c] = "asking"
  /\ LET session == [account |-> RoleAccount(targets[c]), until |-> now + lifetime]
     IN /\ cache' = [cache EXCEPT ![Key(targets[c])] = session]
        /\ held' = [d \in Call |-> IF d \in Waiting(c) THEN session ELSE held[d]]
  /\ inFlight' = [inFlight EXCEPT ![Key(targets[c])] = None]
  /\ stage' = [d \in Call |-> IF d \in Waiting(c) THEN "sweeping" ELSE stage[d]]
  /\ Resumed(c)
  /\ UNCHANGED <<phase, pages, targets, role, status, destroyed, owned, now, round, cleared, denied, threw>>

\* slip: the failure of one account ends the sweep of all that wait
NotAssumedAll(c) ==
  /\ stage[c] = "asking"
  /\ inFlight' = [inFlight EXCEPT ![Key(targets[c])] = None]
  /\ LET failed == {d \in Target : stage[d] \in {"asking", "joined"}}
     IN /\ stage' = [d \in Call |-> IF d \in failed THEN "done" ELSE stage[d]]
        /\ status' = [d \in Call |-> IF d \in failed THEN "SKIPPED_ASSUME_ROLE_FAILED" ELSE status[d]]
  /\ denied' = denied \cup {targets[c]}
  /\ UNCHANGED <<phase, pages, targets, role, waits, tries, held, cache, destroyed, owned, now, round, cleared, threw>>

(* An error that is not throttling, or credentials with a part missing.    *)
NotAssumed(c) ==
  /\ stage[c] = "asking"
  /\ inFlight' = [inFlight EXCEPT ![Key(targets[c])] = None]
  /\ stage' = [d \in Call |-> IF d \in Waiting(c) THEN "done" ELSE stage[d]]
  /\ status' = [d \in Call |-> IF d \in Waiting(c) THEN "SKIPPED_ASSUME_ROLE_FAILED" ELSE status[d]]
  /\ Resumed(c)
  /\ denied' = denied \cup {targets[c]}
  /\ UNCHANGED <<phase, pages, targets, role, held, cache, destroyed, owned, now, round, cleared, threw>>

(* scanFleet, the version scans and the account's own client pool, which   *)
(* end well or not; then onAccountComplete.                                *)
Swept(c, outcome) ==
  /\ stage[c] = "sweeping"
  /\ status' = [status EXCEPT ![c] = outcome]
  /\ \/ stage' = [stage EXCEPT ![c] = "done"] /\ UNCHANGED <<phase, pool, threw>>
     \/ Reject(c)
  /\ held' = [held EXCEPT ![c] = None]
  /\ UNCHANGED <<pages, targets, role, waits, tries, owned, now, round, cleared, denied>>

ReportAccounts ==
  /\ phase = "sweeping" /\ \A c \in Target : stage[c] = "done"
  /\ phase' = "done"
  /\ IF owned
     THEN /\ destroyed' = TRUE
          /\ cache' = [k \in Keys |-> None] /\ inFlight' = [k \in Keys |-> None]
     ELSE UNCHANGED pool
  /\ UNCHANGED <<pages, targets, role, callVars, owned, now, round, cleared, denied, threw>>

-----------------------------------------------------------------------------
(* The owner of a shared pool.                                             *)
Clear ==
  /\ ~owned /\ ~cleared /\ cleared' = TRUE
  /\ cache' = [k \in Keys |-> None] /\ inFlight' = [k \in Keys |-> None]
  /\ UNCHANGED <<phase, pages, targets, role, callVars, destroyed, owned, now, round, denied, threw>>

NextRound ==
  /\ phase \in {"done", "failed"} /\ ~owned /\ round < MaxRounds
  /\ Target = Settled
  /\ round' = round + 1 /\ phase' = "listing" /\ targets' = << >>
  /\ pages' \in Directories /\ role' \in Roles
  /\ NoCalls /\ cleared' = FALSE /\ denied' = {} /\ threw' = FALSE
  /\ UNCHANGED <<pool, owned, now>>

Tick ==
  /\ now < MaxTime /\ now' = now + 1
  /\ UNCHANGED <<phase, pages, targets, role, callVars, pool, owned, round, cleared, denied, threw>>

Progress ==
  \/ ReadPage \/ ReportAccounts
  \/ \E c \in Target :
       \/ AssumeDestroyed(c) \/ AssumeCached(c) \/ AssumeJoin(c) \/ AssumeAsk(c)
       \/ ThrottledAsk(c) \/ NotAssumed(c)
       \/ \E lifetime \in Lifetimes : Assumed(c, lifetime)
       \/ \E outcome \in Endings : Swept(c, outcome)

AccountNext ==
  \/ Progress \/ ListingFails \/ Clear \/ NextRound \/ Tick
  \/ \E c \in Target : StartThrows(c)

AccountSpec == AccountInit /\ [][AccountNext]_accountVars

-----------------------------------------------------------------------------
(* A sweep begins with a session of the very role it has named for its     *)
(* account, from the cache, a shared answer or its own, whatever names     *)
(* earlier sweeps of the pool had: of its own account if the name is       *)
(* relative, of the ARN's account, for every entry of the list, if not.    *)
(* One out of the cache outlasts the refresh window; one STS has just      *)
(* handed out is used whatever is left of it.                              *)
RoleCredentials ==
  [][\A c \in Target : stage'[c] = "sweeping" /\ stage[c] # "sweeping" =>
       /\ held'[c].account = RoleAccount(targets[c])
       /\ stage[c] = "queued" => held'[c].until - now > RefreshWindow]_accountVars

(* Concurrent calls for one role send one request, unless the pool was     *)
(* cleared or destroyed under it.                                          *)
OneRequestPerRole ==
  ~cleared /\ ~destroyed =>
    \A c, d \in Target :
      stage[c] = "asking" /\ stage[d] = "asking" /\ targets[c] = targets[d] => c = d

(* A sweep that ends reports every entry of the list, and an account is    *)
(* skipped for its role only if its own role could not be assumed.         *)
FaultsIsolated ==
  /\ phase = "failed" => threw \/ pages # << >>
  /\ phase = "done" =>
       \A c \in Target :
         /\ status[c] # None
         /\ status[c] = "SKIPPED_ASSUME_ROLE_FAILED" => targets[c] \in denied

=============================================================================
