---------------------------- MODULE AuditDaemon ----------------------------
(***************************************************************************)
(* src/daemon/scheduler.ts with src/state/audit-writer.ts and              *)
(* src/state/compaction.ts: a daemon that runs its task, appends to        *)
(* audit.jsonl, compacts it now and then and is stopped by a signal;       *)
(* beside it `s3-guardian state compact`, which takes no lock.             *)
(*                                                                         *)
(* append() resolves once the stream has the line in its buffer: the       *)
(* stream opens the log and writes later, and only logs its errors.        *)
(* close() takes the stream out of the writer and waits for it; a second   *)
(* close() waits for nothing.                                              *)
(*                                                                         *)
(* A file is its index in content; an open stream stays with its file      *)
(* whatever the file is called.  A snapshot says how often it counts each  *)
(* event and bears the number of the file it was made from.                *)
(***************************************************************************)
EXTENDS Naturals, Sequences, FiniteSetsExt

CONSTANTS MaxEvents, MaxRuns, MaxStarts, MaxRotations,  \* bounds
          Beside,   \* processes that run `state compact`
          NoFile, Broken

Event     == 1..MaxEvents
Compactor == Beside \cup {"daemon"}
Holder    == {"writer", "handler", "loop"}  \* who has a stream: the two close it

ASSUME DaemonAssumption ==
  /\ MaxEvents \in Nat /\ "daemon" \notin Beside
  /\ NoFile \notin Nat /\ Broken \notin [Event -> Nat]

VARIABLES pc,        \* the loop: "down" while no process runs
          runs, starts,
          handler,   \* the shutdown handler: "off", "waiting", "closing", "done"
          aborted,   \* effectiveSignal.aborted
          exits,     \* options.exitOnSignal
          lock,
          open,      \* the writer's ~isClosed
          streams,   \* the stream of each holder: its state, file and buffer
          log,       \* the file called audit.jsonl
          content,   \* the events on disk in each file there ever was
          snapshots, \* by number: how often each event counts, or Broken
          job,       \* where each compaction is
          acked,     \* history: the events whose append() resolved
          mishap     \* history: something happened that may cost events

loop   == <<runs, starts, aborted, exits>>
disk   == <<log, content, snapshots>>
writer == <<open, streams>>
vars   == <<pc, handler, lock, writer, job, acked, mishap, loop, disk>>

Idle     == [step |-> "idle", file |-> NoFile, totals |-> NoFile]
NoStream == [state |-> "none", file |-> NoFile, buffer |-> {}]
Opening(events) == [state |-> "opening", file |-> NoFile, buffer |-> events]
FailedStream    == [state |-> "failed", file |-> NoFile, buffer |-> {}]

(* What append() has acknowledged and no file has.                         *)
Unwritten == UNION {streams[h].buffer : h \in Holder}
Settled(h) == streams[h].state # "opening" /\ streams[h].buffer = {}

Ending       == runs >= MaxRuns \/ aborted
EndOfRun     == IF Ending THEN "finally" ELSE "sleep"

NoCounts == [e \in Event |-> 0]
Plus(counts, events) == [e \in Event |-> counts[e] + IF e \in events THEN 1 ELSE 0]

(* readLatestSnapshot: the newest by name, and null if it is not readable. *)
Latest ==
  IF DOMAIN snapshots = {} THEN NoCounts
  ELSE LET newest == snapshots[Max(DOMAIN snapshots)]
       IN IF newest = Broken THEN NoCounts ELSE newest

(* getBucketHistory: the latest snapshot and what is in the log.  It takes *)
(* one aggregate of the snapshot, which is all there is to a bucket whose  *)
(* events name one account, as those of the daemon do.                     *)
Counted == Plus(Latest, IF log = NoFile THEN {} ELSE content[log])

Init ==
  /\ pc = "down" /\ runs = 0 /\ starts = 0
  /\ handler = "off" /\ aborted = FALSE /\ exits \in BOOLEAN /\ lock = FALSE
  /\ open = FALSE /\ streams = [h \in Holder |-> NoStream]
  /\ log = NoFile /\ content = << >> /\ snapshots = << >>
  /\ job = [c \in Compactor |-> Idle]
  /\ acked = {} /\ mishap = FALSE

-----------------------------------------------------------------------------
(* The loop                                                                *)

StartDaemon ==
  /\ pc = "down" /\ starts < MaxStarts
  /\ pc' = "task" /\ runs' = 1 /\ starts' = starts + 1
  /\ handler' = "off" /\ aborted' = FALSE /\ lock' = TRUE
  /\ open' = TRUE /\ UNCHANGED streams
  /\ mishap' = (mishap \/ \E c \in Beside : job[c] # Idle)
  /\ UNCHANGED <<exits, disk, job, acked>>

(* One event, or two if the task saw the circuit breaker trip.             *)
NewEvents == {1..last \ acked : last \in {Cardinality(acked) + 1, Cardinality(acked) + 2}}

(* close(): only the first call has a stream to wait for.                  *)
Close(h) ==
  /\ open' = FALSE
  /\ streams' = IF open
                THEN [streams EXCEPT ![h] = streams["writer"], !["writer"] = NoStream]
                ELSE streams

(* The task throws, or mkdir, or the append is refused: the writer is      *)
(* closed, by a compaction that threw or by the handler, which was waiting *)
(* for the task and resumes between append() and the queued write.         *)
NoAppend ==
  /\ pc = "task" /\ pc' = "check"
  /\ IF handler = "waiting" THEN handler' = "closing" /\ Close("handler")
     ELSE UNCHANGED <<handler, writer>>
  /\ UNCHANGED <<lock, loop, disk, job, acked, mishap>>

(* The first append to a writer waits for mkdir.                           *)
FirstAppend ==
  /\ pc = "task" /\ pc' = "init" /\ acked # Event
  /\ open /\ handler # "waiting" /\ streams["writer"].state = "none"
  /\ UNCHANGED <<handler, lock, writer, loop, disk, job, acked, mishap>>

(* Its stream is opening, and has the line; a writer closed meanwhile      *)
(* rejects the append, and its close() waits for the stream.               *)
OpenStream(events) ==
  /\ pc = "init" /\ pc' = "check" /\ events \subseteq Event
  /\ IF open
     THEN /\ acked' = acked \cup events
          /\ streams' = [streams EXCEPT !["writer"] = Opening(events)]
     ELSE /\ streams' = [streams EXCEPT !["handler"] = Opening({})]
          /\ UNCHANGED acked
  /\ UNCHANGED <<handler, lock, open, loop, disk, job, mishap>>

(* write() to a stream that has failed takes the line too.                 *)
AppendMore(events) ==
  /\ pc = "task" /\ pc' = "check" /\ events \subseteq Event
  /\ open /\ handler # "waiting" /\ streams["writer"].state # "none"
  /\ acked' = acked \cup events
  /\ streams' = [streams EXCEPT !["writer"].buffer =
                    IF streams["writer"].state = "failed" THEN {} ELSE @ \cup events]
  /\ UNCHANGED <<handler, lock, open, loop, disk, job, mishap>>

(* autoCompactIntervalMs has passed, or not.                               *)
CompactionDue ==
  /\ pc = "check" /\ pc' = "compact"
  /\ Cardinality(DOMAIN snapshots) < MaxRotations
  /\ job' = [job EXCEPT !["daemon"].step = "close"]
  /\ Close("loop")
  /\ UNCHANGED <<handler, lock, loop, disk, acked, mishap>>

NotDue ==
  /\ pc = "check" /\ pc' = EndOfRun
  /\ UNCHANGED <<handler, lock, writer, loop, disk, job, acked, mishap>>

\* slip: the sleep does not listen for the abort
WakeDeaf ==
  /\ pc = "sleep" /\ ~aborted
  /\ pc' = "task" /\ runs' = runs + 1
  /\ UNCHANGED <<handler, lock, writer, starts, aborted, exits, disk, job, acked, mishap>>

Wake ==
  /\ pc = "sleep"
  /\ IF aborted THEN pc' = "finally" /\ UNCHANGED runs
     ELSE pc' = "task" /\ runs' = runs + 1
  /\ UNCHANGED <<handler, lock, writer, starts, aborted, exits, disk, job, acked, mishap>>

Finally ==
  /\ pc = "finally" /\ pc' = "ending"
  /\ Close("loop")
  /\ UNCHANGED <<handler, lock, loop, disk, job, acked, mishap>>

Return ==
  /\ pc = "ending" /\ Settled("loop") /\ pc' = "returned"
  /\ lock' = FALSE /\ streams' = [streams EXCEPT !["loop"] = NoStream]
  /\ UNCHANGED <<handler, open, loop, disk, job, acked, mishap>>

-----------------------------------------------------------------------------
(* The streams                                                             *)

Elsewhere == UNCHANGED <<handler, lock, loop, acked>>

(* A stream opens the log, or creates it.                                  *)
StreamOpens(h) ==
  /\ streams[h].state = "opening"
  /\ IF log = NoFile
     THEN log' = Len(content) + 1 /\ content' = Append(content, {})
     ELSE UNCHANGED <<log, content>>
  /\ streams' = [streams EXCEPT ![h] = [@ EXCEPT !.state = "open", !.file = log']]
  /\ Elsewhere /\ UNCHANGED <<pc, open, snapshots, job, mishap>>

(* One line reaches the file, or as many as were in the buffer.            *)
Flush(h) ==
  /\ streams[h].state = "open"
  /\ \E last \in streams[h].buffer :
       LET lines == {e \in streams[h].buffer : e <= last}
       IN /\ content' = [content EXCEPT ![streams[h].file] = @ \cup lines]
          /\ streams' = [streams EXCEPT ![h].buffer = @ \ lines]
  /\ Elsewhere /\ UNCHANGED <<pc, open, log, snapshots, job, mishap>>

(* The open or a write fails: the error is logged.                         *)
StreamFails(h) ==
  /\ ~Settled(h)
  /\ streams' = [streams EXCEPT ![h] = FailedStream]
  /\ mishap' = TRUE
  /\ Elsewhere /\ UNCHANGED <<pc, open, disk, job>>

-----------------------------------------------------------------------------
(* Signals and crashes                                                     *)

Abort ==
  /\ pc # "down" /\ ~aborted /\ aborted' = TRUE
  /\ UNCHANGED <<pc, handler, lock, writer, runs, starts, exits, disk, job, acked, mishap>>

\* slip: the handler does not wait for the task
SignalAtOnce ==
  /\ pc \notin {"down", "returned"} /\ handler = "off" /\ aborted' = TRUE
  /\ handler' = "closing" /\ Close("handler")
  /\ UNCHANGED <<pc, lock, runs, starts, exits, disk, job, acked, mishap>>

Signal ==
  /\ pc \notin {"down", "returned"} /\ handler = "off" /\ aborted' = TRUE
  /\ IF pc = "task" THEN handler' = "waiting" /\ UNCHANGED writer
     ELSE handler' = "closing" /\ Close("handler")
  /\ UNCHANGED <<pc, lock, runs, starts, exits, disk, job, acked, mishap>>

(* With the process go its compaction and what its streams have not        *)
(* written.                                                                *)
Die ==
  /\ pc' = "down" /\ job' = [job EXCEPT !["daemon"] = Idle]
  /\ open' = FALSE /\ streams' = [h \in Holder |-> NoStream]
  /\ mishap' = (mishap \/ job["daemon"] # Idle \/ Unwritten # {})

(* close() has waited for the queue and the stream has ended.              *)
HandlerDone ==
  /\ handler = "closing" /\ pc \notin {"down", "init"} /\ Settled("handler")
  /\ handler' = "done" /\ lock' = FALSE
  /\ IF exits THEN Die
     ELSE /\ streams' = [streams EXCEPT !["handler"] = NoStream]
          /\ UNCHANGED <<pc, open, job, mishap>>
  /\ UNCHANGED <<loop, disk, acked>>

(* After startDaemon the process ends, with an exit code at once.          *)
ProcessEnds ==
  /\ pc = "returned" /\ Die
  /\ UNCHANGED <<handler, lock, loop, disk, acked>>

Crash ==
  /\ pc # "down" /\ starts < MaxStarts
  /\ Die /\ lock' = FALSE
  /\ UNCHANGED <<handler, loop, disk, acked>>

-----------------------------------------------------------------------------
(* compactAuditLog, of the daemon or beside it                             *)

At(c, step) == job[c].step = step
Step(c, step) == job' = [job EXCEPT ![c].step = step]

(* A compaction of the daemon that succeeded gets it a new writer.         *)
EndJob(c, succeeded) ==
  /\ job' = [job EXCEPT ![c] = Idle]
  /\ IF c = "daemon" THEN pc' = EndOfRun /\ open' = (open \/ succeeded)
     ELSE UNCHANGED <<pc, open>>

CompactBeside(c) ==
  /\ c \in Beside /\ At(c, "idle") /\ Cardinality(DOMAIN snapshots) < MaxRotations
  /\ Step(c, "stat")
  /\ mishap' = (mishap \/ pc # "down" \/ \E d \in Compactor : job[d] # Idle)
  /\ Elsewhere /\ UNCHANGED <<pc, writer, disk>>

\* slip: the compaction does not wait for the stream
CloseWriterAtOnce ==
  /\ At("daemon", "close") /\ streams["loop"].state # "failed"
  /\ Step("daemon", "stat")
  /\ mishap' = (mishap \/ ~Settled("handler"))
  /\ Elsewhere /\ UNCHANGED <<pc, writer, disk>>

(* close() came back; if the handler had closed the writer before, its     *)
(* stream may still be writing.                                            *)
CloseWriter ==
  /\ At("daemon", "close") /\ Settled("loop") /\ streams["loop"].state # "failed"
  /\ Step("daemon", "stat")
  /\ streams' = [streams EXCEPT !["loop"] = NoStream]
  /\ mishap' = (mishap \/ ~Settled("handler"))
  /\ Elsewhere /\ UNCHANGED <<pc, open, disk>>

(* close() rejects, and with it the compaction.                            *)
CloseRejects ==
  /\ At("daemon", "close") /\ streams["loop"].state = "failed"
  /\ EndJob("daemon", FALSE)
  /\ streams' = [streams EXCEPT !["loop"] = NoStream]
  /\ Elsewhere /\ UNCHANGED <<disk, mishap>>

HasEvents == IF log = NoFile THEN FALSE ELSE content[log] # {}

NothingToDo(c) ==
  /\ At(c, "stat") /\ ~HasEvents
  /\ EndJob(c, TRUE)
  /\ Elsewhere /\ UNCHANGED <<streams, disk, mishap>>

\* slip: the log is copied, so that open streams keep working
RotateCopy(c) ==
  /\ At(c, "stat") /\ HasEvents
  /\ content' = Append(content, content[log])
  /\ job' = [job EXCEPT ![c] = [@ EXCEPT !.step = "read", !.file = Len(content')]]
  /\ Elsewhere /\ UNCHANGED <<pc, writer, log, snapshots, mishap>>

Rotate(c) ==
  /\ At(c, "stat") /\ HasEvents
  /\ log' = NoFile
  /\ job' = [job EXCEPT ![c] = [@ EXCEPT !.step = "recreate", !.file = log]]
  /\ Elsewhere /\ UNCHANGED <<pc, writer, content, snapshots, mishap>>

(* writeFile creates the log, or empties the one a writer has created.     *)
Recreate(c) ==
  /\ At(c, "recreate") /\ Step(c, "read")
  /\ IF log = NoFile
     THEN log' = Len(content) + 1 /\ content' = Append(content, {})
     ELSE content' = [content EXCEPT ![log] = {}] /\ UNCHANGED log
  /\ Elsewhere /\ UNCHANGED <<pc, writer, snapshots, mishap>>

(* The snapshot is not written by writeAtomic: it has its name before it   *)
(* has its content.                                                        *)
Aggregate(c) ==
  /\ At(c, "read")
  /\ job' = [job EXCEPT ![c] =
       [@ EXCEPT !.step = "write", !.totals = Plus(Latest, content[job[c].file])]]
  /\ snapshots' = [s \in DOMAIN snapshots \cup {job[c].file} |->
                     IF s = job[c].file THEN Broken ELSE snapshots[s]]
  /\ Elsewhere /\ UNCHANGED <<pc, writer, log, content, mishap>>

(* The rotated file is unlinked; the upload to the mirror may still throw. *)
WriteSnapshot(c) ==
  /\ At(c, "write")
  /\ snapshots' = [snapshots EXCEPT ![job[c].file] = job[c].totals]
  /\ \E uploaded \in BOOLEAN : EndJob(c, uploaded)
  /\ Elsewhere /\ UNCHANGED <<streams, log, content, mishap>>

(* The rename, after its retries, or a later read or write fails.          *)
CompactionThrows(c) ==
  /\ job[c].step \in {"stat", "recreate", "read", "write"}
  /\ At(c, "stat") => HasEvents
  /\ EndJob(c, FALSE)
  /\ mishap' = (mishap \/ ~At(c, "stat"))
  /\ Elsewhere /\ UNCHANGED <<streams, disk>>

-----------------------------------------------------------------------------
AppendEvents == \E events \in NewEvents : OpenStream(events) \/ AppendMore(events)

WriteLog == \E h \in Holder : StreamOpens(h) \/ Flush(h) \/ StreamFails(h)

Compact(c) ==
  \/ NothingToDo(c) \/ Rotate(c) \/ Recreate(c) \/ Aggregate(c)
  \/ WriteSnapshot(c) \/ CompactionThrows(c)

Proceed ==
  \/ NoAppend \/ FirstAppend \/ AppendEvents \/ WriteLog
  \/ CompactionDue \/ NotDue \/ Wake \/ Finally \/ Return \/ ProcessEnds
  \/ HandlerDone \/ CloseWriter \/ CloseRejects \/ Compact("daemon")

Next ==
  \/ StartDaemon \/ Proceed \/ Abort \/ Signal \/ Crash
  \/ \E c \in Beside : CompactBeside(c) \/ Compact(c)

Spec == Init /\ [][Next]_vars

(* Timers fire, the task and every system call come back.                  *)
FairSpec == Spec /\ WF_vars(Proceed)

-----------------------------------------------------------------------------
(* No event counts twice in the history, whatever crashes, fails or runs   *)
(* at the same time.                                                       *)
NeverCountedTwice == \A e \in Event : Counted[e] <= 1

(* The file a compaction has taken away and not yet put into a snapshot.   *)
Underway(c) ==
  IF job[c].step \in {"recreate", "read", "write"}
  THEN content[job[c].file] ELSE {}

InHistory(e) ==
  \/ Counted[e] = 1
  \/ \E c \in Compactor : e \in Underway(c) \/ (At(c, "write") /\ job[c].totals[e] = 1)

(* An acknowledged event is in the buffer of a stream, in the history or   *)
(* in the compaction under way, unless a stream failed, the process ended  *)
(* before its streams had written or its compaction was done, or a         *)
(* compaction met another one, a daemon or an open stream.                 *)
HistoryComplete == ~mishap => \A e \in acked : e \in Unwritten \/ InHistory(e)

(* The history is exact: nothing is lost and nothing counts twice.         *)
HistoryExact == NeverCountedTwice /\ HistoryComplete

(* The lock is not given back while a task runs or its append waits for    *)
(* its stream.                                                             *)
LockCoversRun == pc \in {"task", "init"} => lock

(* What AuditLogWriter says of close(), all buffered writes are flushed to *)
(* disk: when the handler has closed the writer, all that was acknowledged *)
(* is on disk.  It is not when the loop had called close() before.         *)
ClosedMeansFlushed == [][HandlerDone => Unwritten = {}]_vars

(* A stop that was asked for comes: the process ends.                      *)
StopEnds == aborted ~> pc = "down"

=============================================================================
