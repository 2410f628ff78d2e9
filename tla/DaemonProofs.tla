---------------------------- MODULE DaemonProofs ----------------------------
(***************************************************************************)
(* The daemon's history and its lock, for any number of events, runs,      *)
(* restarts and compactions beside it.                                     *)
(*                                                                         *)
(* That nothing counts twice rests on where an event may be: in one buffer *)
(* or in one file (BuffersApart, FilesApart), and what a snapshot counts   *)
(* in no buffer and in no file that will still be added to one (Booked).   *)
(* That nothing is lost rests on order: as long as one compaction runs at  *)
(* a time, no stream has anything to write while the log is taken away     *)
(* (QuietStreams), what a buffer has goes to the log, logs become          *)
(* snapshots in the order of their numbers, and the one unreadable         *)
(* snapshot is the newest, whose counts its compaction still holds         *)
(* (InOrder).                                                              *)
(*                                                                         *)
(* AuditDaemon knows the lock as a flag.  The second half is about the     *)
(* lock file of DaemonLock: it excludes as long as acquisitions do not     *)
(* overlap, for any daemons, bystanders and assignment of pids.            *)
(* HolderMarked carries that proof: two holders would both be the creator  *)
(* of the one linked file.  It is inductive once the invariant says what   *)
(* an acquisition under way knows: past its reads nobody holds the lock,   *)
(* while it probes a pid the only possible holder is the one it has seen,  *)
(* and while it writes the linked file is its own.                         *)
(***************************************************************************)
EXTENDS AuditDaemon, DaemonLock, FiniteSetTheorems, TLAPS

(* What a snapshot that can be read says of each event; the files there    *)
(* ever were; a compaction has its file from the rename to the snapshot.   *)
Mark     == [Event -> {0, 1}]
File     == 1..Len(content)
Waiting  == {"recreate", "read"}
InFlight == Waiting \cup {"write"}

JobType == [step : {"idle", "close", "stat"} \cup InFlight,
            file : Nat \cup {NoFile}, totals : Mark \cup {NoFile}]

StreamType == [state : {"none", "opening", "open", "failed"},
               file : Nat \cup {NoFile}, buffer : SUBSET Event]

(* Types of the control state, the mark of a compaction that writes        *)
(* included.                                                               *)
ControlTypes ==
  /\ pc \in {"down", "task", "init", "check", "compact", "sleep", "finally", "ending", "returned"}
  /\ handler \in {"off", "waiting", "closing", "done"}
  /\ open \in BOOLEAN /\ mishap \in BOOLEAN
  /\ job \in [Compactor -> JobType]

(* Only a stream that is open has a file, only one that may still write    *)
(* has a buffer.                                                           *)
StreamsOK ==
  /\ streams \in [Holder -> StreamType]
  /\ \A h \in Holder :
       /\ streams[h].state = "open" <=> streams[h].file # NoFile
       /\ streams[h].state \in {"none", "failed"} => streams[h].buffer = {}

(* The daemon compacts in its loop, with no stream of its own: nothing it  *)
(* has not closed itself is written to a log while it takes it away.  Each *)
(* close() has at most one stream.                                         *)
LoopOK ==
  /\ job["daemon"].step # "idle" <=> pc = "compact"
  /\ pc = "down" => \A h \in Holder : streams[h].state = "none"
  /\ pc = "compact" => open = FALSE
  /\ pc = "init" => streams["writer"].state = "none" /\ streams["handler"].state = "none"
  /\ open = FALSE => streams["writer"].state = "none"
  /\ pc # "ending" /\ job["daemon"].step # "close" => streams["loop"].state = "none"
  /\ handler # "closing" => streams["handler"].state = "none"
  /\ \A c \in Beside : job[c].step # "close"

(* The handler gives the lock back last, and closes nothing while a task   *)
(* runs; after it the loop only ends.                                      *)
LockHeld ==
  /\ pc = "task" => handler \in {"off", "waiting"}
  /\ pc = "init" => handler \in {"off", "closing"}
  /\ pc = "init" /\ open = FALSE => handler = "closing"
  /\ handler = "waiting" => pc \in {"task", "down"}
  /\ handler # "off" /\ pc # "down" => aborted = TRUE
  /\ pc \notin {"down", "returned"} /\ handler # "done" => lock = TRUE

Control == ControlTypes /\ StreamsOK /\ LoopOK /\ LockHeld

(* Files, streams and snapshots belong together, and some snapshot is the  *)
(* newest.                                                                 *)
DiskOK ==
  /\ \E k \in 0..MaxEvents : acked = 1..k
  /\ content \in Seq(SUBSET acked)
  /\ log \in File \cup {NoFile}
  /\ \A h \in Holder : streams[h].file \in File \cup {NoFile} /\ streams[h].buffer \subseteq acked
  /\ DOMAIN snapshots \subseteq File
  /\ \A s \in DOMAIN snapshots : snapshots[s] \in Mark \cup {Broken}
  /\ \A c \in Compactor :
       /\ job[c].step \in InFlight => job[c].file \in File
       /\ job[c].step = "write" => job[c].totals \in Mark
  /\ DOMAIN snapshots # {} => \E s \in DOMAIN snapshots : \A t \in DOMAIN snapshots : t <= s

(* An event that may be counted: it is in no buffer, and in no file still  *)
(* to be added to a snapshot.                                              *)
Booked(e) ==
  /\ e \in acked
  /\ \A h \in Holder : e \notin streams[h].buffer
  /\ log # NoFile => e \notin content[log]
  /\ \A c \in Compactor : job[c].step \in Waiting => e \notin content[job[c].file]

(* No event is in two files, two buffers or one of each, no file has two   *)
(* compactions, and whatever a snapshot counts is booked: nothing counts   *)
(* twice.                                                                  *)
FilesApart == \A f, g \in File : f # g => content[f] \cap content[g] = {}

BuffersApart ==
  /\ \A h \in Holder : \A f \in File : streams[h].buffer \cap content[f] = {}
  /\ \A g, h \in Holder : g # h => streams[g].buffer \cap streams[h].buffer = {}

OneOwner ==
  \A c \in Compactor : job[c].step \in Waiting =>
    /\ job[c].file # log
    /\ \A d \in Compactor : job[d].step \in Waiting /\ job[d].file = job[c].file => c = d

CountedBooked ==
  \A e \in Event :
    /\ \A s \in DOMAIN snapshots : snapshots[s] # Broken /\ snapshots[s][e] = 1 => Booked(e)
    /\ \A c \in Compactor : job[c].step = "write" /\ job[c].totals[e] = 1 => Booked(e)

Apart == FilesApart /\ BuffersApart /\ OneOwner /\ CountedBooked

-----------------------------------------------------------------------------
(* Streams                                                                 *)

(* close() hands the writer's stream over, a stream that has nothing left  *)
(* to write is dropped.                                                    *)
Handed ==
  \/ streams' = streams
  \/ \E h \in {"handler", "loop"} :
       /\ streams[h].state = "none"
       /\ streams' = [streams EXCEPT ![h] = streams["writer"], !["writer"] = NoStream]
  \/ \E h \in Holder : Settled(h) /\ streams' = [streams EXCEPT ![h] = NoStream]

(* The process ends.                                                       *)
Dropped == streams' = [h \in Holder |-> NoStream]

LEMMA NoneIs ==
  ASSUME StreamsOK
  PROVE  \A h \in Holder : streams[h].state = "none" => streams[h] = NoStream
<1> SUFFICES ASSUME NEW h \in Holder, streams[h].state = "none" PROVE streams[h] = NoStream
  OBVIOUS
<1>1. streams[h] \in StreamType /\ streams[h].file = NoFile /\ streams[h].buffer = {}
  BY DEF StreamsOK
<1> QED
  BY <1>1 DEF StreamType, NoStream

(* close() hands over.                                                     *)
LEMMA CloseHands ==
  ASSUME Control, NEW h \in {"handler", "loop"}, streams[h].state = "none", Close(h)
  PROVE  Handed
  BY DEF Close, Handed

(* What a hand-over does to the streams: none is new, none is shared, and  *)
(* no buffer gets lost.                                                    *)
LEMMA HandedFacts ==
  ASSUME StreamsOK, Handed \/ Dropped
  PROVE  /\ StreamsOK'
         /\ \A h \in Holder : streams'[h] = NoStream \/ \E g \in Holder : streams'[h] = streams[g]
         /\ streams'["writer"] \in {NoStream, streams["writer"]}
         /\ \A g, h \in Holder : g # h =>
              \E x, y \in Holder : x # y /\ streams'[g].buffer \subseteq streams[x].buffer
                                         /\ streams'[h].buffer \subseteq streams[y].buffer
         /\ Handed => \A h \in Holder : \E g \in Holder : streams[h].buffer \subseteq streams'[g].buffer
<1> USE DEF Holder
<1>0. NoStream \in StreamType /\ NoStream.state = "none" /\ NoStream.file = NoFile /\ NoStream.buffer = {}
  BY DEF NoStream, StreamType
<1>a. streams \in [Holder -> StreamType]
  BY DEF StreamsOK
<1> HIDE DEF NoStream
<1>1. CASE streams' = streams
  BY <1>1, <1>a DEF StreamsOK
<1>2. CASE Dropped
  <2>1. \A h \in Holder : streams'[h] = NoStream
    BY <1>2 DEF Dropped
  <2>2. streams' \in [Holder -> StreamType]
    BY <1>2, <1>0 DEF Dropped
  <2>3. StreamsOK'
    BY <2>1, <2>2, <1>0 DEF StreamsOK
  <2>4. Handed => \A h \in Holder : \E g \in Holder : streams[h].buffer \subseteq streams'[g].buffer
    <3> SUFFICES ASSUME Handed, NEW h \in Holder PROVE \E g \in Holder : streams[h].buffer \subseteq streams'[g].buffer
      OBVIOUS
    <3>1. CASE streams' = streams
      BY <3>1
    <3>2. CASE \E i \in Holder : Settled(i) /\ streams' = [streams EXCEPT ![i] = NoStream]
      <4>1. PICK i \in Holder : Settled(i) /\ streams' = [streams EXCEPT ![i] = NoStream]
        BY <3>2
      <4>2. CASE i = h
        BY <4>1, <4>2 DEF Settled
      <4>3. CASE i # h
        BY <4>1, <4>3, <1>a
      <4> QED
        BY <4>2, <4>3
    <3>3. CASE \E i \in {"handler", "loop"} :
                 /\ streams[i].state = "none"
                 /\ streams' = [streams EXCEPT ![i] = streams["writer"], !["writer"] = NoStream]
      <4>1. PICK i \in {"handler", "loop"} :
                 /\ streams[i].state = "none"
                 /\ streams' = [streams EXCEPT ![i] = streams["writer"], !["writer"] = NoStream]
        BY <3>3
      <4>2. streams'[i] = streams["writer"] /\ \A g \in Holder : g \notin {i, "writer"} => streams'[g] = streams[g]
        BY <4>1, <1>a
      <4>3. streams[i].buffer = {}
        BY <4>1 DEF StreamsOK
      <4> QED
        BY <4>2, <4>3
    <3> QED
      BY <3>1, <3>2, <3>3 DEF Handed
  <2> QED
    BY <2>1, <2>3, <2>4, <1>0
<1>3. ASSUME NEW i \in Holder, Settled(i), streams' = [streams EXCEPT ![i] = NoStream]
      PROVE  /\ StreamsOK'
             /\ \A h \in Holder : streams'[h] = NoStream \/ \E g \in Holder : streams'[h] = streams[g]
             /\ streams'["writer"] \in {NoStream, streams["writer"]}
             /\ \A g, h \in Holder : g # h =>
                  \E x, y \in Holder : x # y /\ streams'[g].buffer \subseteq streams[x].buffer
                                             /\ streams'[h].buffer \subseteq streams[y].buffer
             /\ \A h \in Holder : \E g \in Holder : streams[h].buffer \subseteq streams'[g].buffer
  <2>1. streams'[i] = NoStream /\ \A g \in Holder : g # i => streams'[g] = streams[g]
    BY <1>3, <1>a
  <2>2. streams' \in [Holder -> StreamType]
    BY <1>3, <1>a, <1>0
  <2>3. StreamsOK'
    BY <2>1, <2>2, <1>0 DEF StreamsOK
  <2>4. \A h \in Holder : streams'[h].buffer \subseteq streams[h].buffer
    BY <2>1, <1>0
  <2>5. streams[i].buffer = {}
    BY <1>3 DEF Settled
  <2>6. \A h \in Holder : streams[h].buffer \subseteq streams'[h].buffer
    BY <2>1, <2>5
  <2> QED
    BY <2>1, <2>3, <2>4, <2>6
<1>4. ASSUME NEW i \in {"handler", "loop"}, streams[i].state = "none",
             streams' = [streams EXCEPT ![i] = streams["writer"], !["writer"] = NoStream]
      PROVE  /\ StreamsOK'
             /\ \A h \in Holder : streams'[h] = NoStream \/ \E g \in Holder : streams'[h] = streams[g]
             /\ streams'["writer"] \in {NoStream, streams["writer"]}
             /\ \A g, h \in Holder : g # h =>
                  \E x, y \in Holder : x # y /\ streams'[g].buffer \subseteq streams[x].buffer
                                             /\ streams'[h].buffer \subseteq streams[y].buffer
             /\ \A h \in Holder : \E g \in Holder : streams[h].buffer \subseteq streams'[g].buffer
  <2>1. /\ streams'[i] = streams["writer"] /\ streams'["writer"] = NoStream
        /\ \A g \in Holder : g \notin {i, "writer"} => streams'[g] = streams[g]
    BY <1>4, <1>a
  <2>2. streams' \in [Holder -> StreamType]
    BY <1>4, <1>a, <1>0
  <2>3. StreamsOK'
    BY <2>1, <2>2, <1>0 DEF StreamsOK
  <2>4. streams[i].buffer = {}
    BY <1>4 DEF StreamsOK
  <2>5. \A h \in Holder : \E g \in Holder : streams[h].buffer \subseteq streams'[g].buffer
    BY <2>1, <2>4
  <2> DEFINE from(h) == IF h = i THEN "writer" ELSE IF h = "writer" THEN i ELSE h
  <2>6. \A h \in Holder : streams'[h].buffer \subseteq streams[from(h)].buffer /\ from(h) \in Holder
    BY <2>1, <1>0
  <2>7. \A g, h \in Holder : g # h => from(g) # from(h)
    OBVIOUS
  <2> HIDE DEF from
  <2>8. \A g, h \in Holder : g # h =>
          \E x, y \in Holder : x # y /\ streams'[g].buffer \subseteq streams[x].buffer
                                     /\ streams'[h].buffer \subseteq streams[y].buffer
    BY <2>6, <2>7
  <2>9. \A h \in Holder : streams'[h] = NoStream \/ \E g \in Holder : streams'[h] = streams[g]
    BY <2>1
  <2> QED
    BY <2>1, <2>3, <2>5, <2>8, <2>9
<1> QED
  BY <1>1, <1>2, <1>3, <1>4 DEF Handed

(* Which steps hand streams over, ...                                      *)
LEMMA StepHands ==
  ASSUME Control,
         \/ StartDaemon \/ NoAppend \/ FirstAppend \/ CompactionDue \/ NotDue \/ Wake \/ Finally
         \/ Return \/ Abort \/ Signal \/ CloseWriter \/ UNCHANGED vars
         \/ \E c \in Beside : CompactBeside(c)
         \/ \E c \in Compactor : Compact(c)
  PROVE  Handed
<1> USE DEF writer, loop, disk
<1>1. CASE StartDaemon \/ FirstAppend \/ NotDue \/ Wake \/ Abort \/ UNCHANGED vars
  BY <1>1 DEF StartDaemon, FirstAppend, NotDue, Wake, Abort, vars, Handed
<1>2. CASE NoAppend
  <2>1. handler = "waiting" => streams["handler"].state = "none"
    BY DEF Control, LoopOK
  <2> QED
    BY <1>2, <2>1, CloseHands DEF NoAppend, Handed
<1>3. CASE CompactionDue \/ Finally
  <2>1. pc \in {"check", "finally"} /\ Close("loop")
    BY <1>3 DEF CompactionDue, Finally
  <2>2. streams["loop"].state = "none"
    BY <2>1 DEF Control, LoopOK
  <2> QED
    BY <2>1, <2>2, CloseHands
<1>4. CASE Signal
  <2>1. streams["handler"].state = "none"
    BY <1>4 DEF Signal, Control, LoopOK
  <2> QED
    BY <1>4, <2>1, CloseHands DEF Signal, Handed
<1>5. CASE Return \/ CloseWriter
  BY <1>5 DEF Return, CloseWriter, Handed, Holder
<1>6. CASE \E c \in Beside : CompactBeside(c)
  BY <1>6 DEF CompactBeside, Handed
<1>7. CASE \E c \in Compactor : Compact(c)
  BY <1>7 DEF Compact, NothingToDo, Rotate, Recreate, Aggregate, WriteSnapshot, CompactionThrows, Handed
<1> QED
  BY <1>1, <1>2, <1>3, <1>4, <1>5, <1>6, <1>7

(* ... also the ones that give up a stream that has failed, or end the     *)
(* process.                                                                *)
LEMMA StepDrops ==
  ASSUME Control, HandlerDone \/ ProcessEnds \/ Crash \/ CloseRejects
  PROVE  Handed \/ Dropped
<1>1. CASE CloseRejects
  <2>1. streams["loop"].state = "failed" /\ streams["loop"].buffer = {} /\ "loop" \in Holder
    BY <1>1 DEF CloseRejects, Control, StreamsOK, Holder
  <2> QED
    BY <1>1, <2>1 DEF CloseRejects, Handed, Settled
<1>2. CASE HandlerDone
  BY <1>2 DEF HandlerDone, Die, Handed, Dropped, Holder
<1>3. CASE ProcessEnds \/ Crash
  BY <1>3 DEF ProcessEnds, Crash, Die, Dropped
<1> QED
  BY <1>1, <1>2, <1>3

(* One stream changes.                                                     *)
LEMMA StreamSet ==
  ASSUME StreamsOK, NEW h \in Holder, NEW s \in StreamType,
         s.state = "open" <=> s.file # NoFile,
         s.state \in {"none", "failed"} => s.buffer = {},
         streams' = [streams EXCEPT ![h] = s]
  PROVE  StreamsOK' /\ streams'[h] = s /\ \A g \in Holder : g # h => streams'[g] = streams[g]
<1>1. streams \in [Holder -> StreamType]
  BY DEF StreamsOK
<1>2. streams'[h] = s /\ \A g \in Holder : g # h => streams'[g] = streams[g]
  BY <1>1
<1>3. streams' \in [Holder -> StreamType]
  BY <1>1
<1> QED
  BY <1>2, <1>3 DEF StreamsOK

(* What each of the other steps does to its stream.                        *)
LEMMA OpenStreamSets ==
  ASSUME Control, NEW events, OpenStream(events)
  PROVE  \E h \in Holder : \E new \in SUBSET Event :
           /\ StreamsOK' /\ streams'[h] = Opening(new)
           /\ \A g \in Holder : g # h => streams'[g] = streams[g]
           /\ acked' = acked \cup new /\ new \in {events, {}}
           /\ open = TRUE => h = "writer"
           /\ open = FALSE => h = "handler"
           /\ streams[h].state = "none"
<1>0. \A new \in SUBSET Event : /\ Opening(new) \in StreamType /\ Opening(new).state = "opening"
                                /\ Opening(new).file = NoFile
  BY DEF Opening, StreamType
<1>1. events \in SUBSET Event /\ pc = "init" /\ open \in BOOLEAN
  BY DEF OpenStream, Control, ControlTypes
<1>a. streams["writer"].state = "none" /\ streams["handler"].state = "none"
  BY <1>1 DEF Control, LoopOK
<1>2. CASE open = TRUE
  <2>1. acked' = acked \cup events /\ streams' = [streams EXCEPT !["writer"] = Opening(events)]
    BY <1>2 DEF OpenStream
  <2>2. "writer" \in Holder /\ StreamsOK
    BY DEF Holder, Control
  <2>3. /\ StreamsOK' /\ streams'["writer"] = Opening(events)
        /\ \A g \in Holder : g # "writer" => streams'[g] = streams[g]
    BY <1>0, <1>1, <2>1, <2>2, StreamSet
  <2> QED
    BY <1>1, <1>2, <1>a, <2>1, <2>2, <2>3
<1>3. CASE open = FALSE
  <2>1. acked' = acked \cup {} /\ streams' = [streams EXCEPT !["handler"] = Opening({})]
    BY <1>3 DEF OpenStream
  <2>2. "handler" \in Holder /\ StreamsOK /\ {} \in SUBSET Event
    BY DEF Holder, Control
  <2>3. /\ StreamsOK' /\ streams'["handler"] = Opening({})
        /\ \A g \in Holder : g # "handler" => streams'[g] = streams[g]
    BY <1>0, <2>1, <2>2, StreamSet
  <2> QED
    BY <1>1, <1>3, <1>a, <2>1, <2>2, <2>3
<1> QED
  BY <1>1, <1>2, <1>3

LEMMA AppendMoreSets ==
  ASSUME Control, NEW events, AppendMore(events)
  PROVE  /\ StreamsOK' /\ streams'["writer"].file = streams["writer"].file
         /\ streams'["writer"].state = streams["writer"].state
         /\ streams["writer"].state # "none"
         /\ streams'["writer"].buffer = IF streams["writer"].state = "failed" THEN {}
                                        ELSE streams["writer"].buffer \cup events
         /\ \A g \in Holder : g # "writer" => streams'[g] = streams[g]
<1> DEFINE s   == streams["writer"]
           buf == IF s.state = "failed" THEN {} ELSE s.buffer \cup events
           t   == [s EXCEPT !.buffer = buf]
<1>1. streams' = [streams EXCEPT !["writer"] = t] /\ s.state # "none" /\ events \subseteq Event
  BY DEF AppendMore
<1>2. s \in StreamType /\ (s.state = "open" <=> s.file # NoFile) /\ StreamsOK /\ "writer" \in Holder
  BY DEF Control, StreamsOK, Holder
<1>3. buf \in SUBSET Event /\ (s.state = "failed" => buf = {})
  BY <1>1, <1>2 DEF StreamType
<1> HIDE DEF buf
<1>4. t \in StreamType /\ t.state = s.state /\ t.file = s.file /\ t.buffer = buf
  BY <1>2, <1>3 DEF StreamType
<1> HIDE DEF t
<1>5. StreamsOK' /\ streams'["writer"] = t /\ \A g \in Holder : g # "writer" => streams'[g] = streams[g]
  BY <1>1, <1>2, <1>3, <1>4, StreamSet
<1> QED
  BY <1>1, <1>4, <1>5 DEF buf

LEMMA StreamOpensSets ==
  ASSUME Control, log \in Nat \cup {NoFile}, Len(content) \in Nat, NEW h \in Holder, StreamOpens(h)
  PROVE  /\ StreamsOK' /\ streams'[h].file = log' /\ streams'[h].state = "open" /\ log' # NoFile
         /\ streams'[h].buffer = streams[h].buffer
         /\ \A g \in Holder : g # h => streams'[g] = streams[g]
<1> DEFINE s == streams[h]
           t == [s EXCEPT !.state = "open", !.file = log']
<1>1. streams' = [streams EXCEPT ![h] = t]
  BY DEF StreamOpens
<1>2. s \in StreamType /\ StreamsOK
  BY DEF Control, StreamsOK
<1>3. log' \in Nat /\ log' # NoFile
  BY DaemonAssumption DEF StreamOpens
<1>4. t \in StreamType /\ t.state = "open" /\ t.file = log' /\ t.buffer = s.buffer
  BY <1>2, <1>3 DEF StreamType
<1> HIDE DEF t
<1>5. StreamsOK' /\ streams'[h] = t /\ \A g \in Holder : g # h => streams'[g] = streams[g]
  BY <1>1, <1>2, <1>3, <1>4, StreamSet
<1> QED
  BY <1>3, <1>4, <1>5

LEMMA FlushSets ==
  ASSUME Control, NEW h \in Holder, Flush(h)
  PROVE  \E lines \in SUBSET streams[h].buffer :
           /\ content' = [content EXCEPT ![streams[h].file] = @ \cup lines]
           /\ StreamsOK' /\ streams'[h].file = streams[h].file /\ streams[h].file # NoFile
           /\ streams'[h].state = "open" /\ streams[h].state = "open" /\ streams[h].buffer # {}
           /\ streams'[h].buffer = streams[h].buffer \ lines
           /\ \A g \in Holder : g # h => streams'[g] = streams[g]
<1>1. PICK last \in streams[h].buffer :
        LET lines == {e \in streams[h].buffer : e <= last}
        IN  /\ content' = [content EXCEPT ![streams[h].file] = @ \cup lines]
            /\ streams' = [streams EXCEPT ![h].buffer = @ \ lines]
  BY DEF Flush
<1> DEFINE lines == {e \in streams[h].buffer : e <= last}
           s       == streams[h]
           t       == [s EXCEPT !.buffer = s.buffer \ lines]
<1>2. lines \in SUBSET s.buffer /\ streams' = [streams EXCEPT ![h] = t]
      /\ content' = [content EXCEPT ![streams[h].file] = @ \cup lines]
  BY <1>1
<1>3. s \in StreamType /\ StreamsOK /\ s.state = "open" /\ s.file # NoFile
  BY DEF Control, StreamsOK, Flush
<1> HIDE DEF lines
<1>4. t \in StreamType /\ t.state = "open" /\ t.file = s.file /\ t.buffer = s.buffer \ lines
  BY <1>3 DEF StreamType
<1> HIDE DEF t
<1>5. StreamsOK' /\ streams'[h] = t /\ \A g \in Holder : g # h => streams'[g] = streams[g]
  BY <1>2, <1>3, <1>4, StreamSet
<1> QED
  BY <1>1, <1>2, <1>3, <1>4, <1>5

LEMMA StreamFailsSets ==
  ASSUME Control, NEW h \in Holder, StreamFails(h)
  PROVE  /\ StreamsOK' /\ streams'[h] = FailedStream
         /\ streams[h].state # "none"
         /\ \A g \in Holder : g # h => streams'[g] = streams[g]
<1>1. FailedStream \in StreamType /\ FailedStream.state = "failed" /\ FailedStream.file = NoFile
      /\ FailedStream.buffer = {}
  BY DEF FailedStream, StreamType
<1>2. StreamsOK /\ streams' = [streams EXCEPT ![h] = FailedStream]
  BY DEF Control, StreamFails
<1>3. streams[h].state # "none"
  BY DEF StreamFails, Settled, Control, StreamsOK
<1> QED
  BY <1>1, <1>2, <1>3, StreamSet

(* The counts a compaction is about to write.                              *)
AggregateIsMark ==
  \A c \in Compactor :
    job[c].step = "read" => Plus(Latest, content[job[c].file]) \in Mark

(* Every step keeps the streams, ...                                       *)
LEMMA NextStreams ==
  Control /\ log \in Nat \cup {NoFile} /\ Len(content) \in Nat /\ [Next]_vars => StreamsOK'
<1> SUFFICES ASSUME Control, log \in Nat \cup {NoFile}, Len(content) \in Nat, [Next]_vars
             PROVE  StreamsOK'
  OBVIOUS
<1>0. StreamsOK
  BY DEF Control
<1>1. ASSUME Handed \/ Dropped PROVE StreamsOK'
  BY <1>0, <1>1, HandedFacts
<1>2. ASSUME NEW events \in NewEvents, OpenStream(events) \/ AppendMore(events) PROVE StreamsOK'
  BY <1>2, OpenStreamSets, AppendMoreSets
<1>3. ASSUME NEW h \in Holder, StreamOpens(h) \/ Flush(h) \/ StreamFails(h) PROVE StreamsOK'
  BY <1>3, StreamOpensSets, FlushSets, StreamFailsSets
<1>4. "daemon" \in Compactor
  BY DEF Compactor
<1>5. \A c \in Beside : c \in Compactor
  BY DEF Compactor
<1> QED
  BY <1>1, <1>2, <1>3, <1>4, <1>5, StepHands, StepDrops
  DEF Next, Proceed, AppendEvents, WriteLog

(* ... and the control state.                                              *)
LEMMA NextControl ==
  Control /\ log \in Nat \cup {NoFile} /\ Len(content) \in Nat /\ AggregateIsMark /\ [Next]_vars
    => Control'
<1> SUFFICES ASSUME Control, log \in Nat \cup {NoFile}, Len(content) \in Nat, AggregateIsMark,
                    [Next]_vars
             PROVE  ControlTypes' /\ LoopOK' /\ LockHeld'
  BY NextStreams DEF Control
<1> USE DaemonAssumption
    DEF Control, ControlTypes, LoopOK, LockHeld, Compactor, JobType, Waiting, InFlight, Holder
<1>0. NoStream.state = "none" /\ FailedStream.state = "failed" /\ \A ev : Opening(ev).state = "opening"
  BY DEF NoStream, FailedStream, Opening
<1>a. streams \in [Holder -> StreamType]
  BY DEF StreamsOK
<1>1. CASE StartDaemon
  BY <1>1 DEF StartDaemon, disk
<1>2. ASSUME NEW events, OpenStream(events) PROVE ControlTypes' /\ LoopOK' /\ LockHeld'
  BY <1>0, <1>a, <1>2 DEF OpenStream, loop
<1>3. ASSUME NEW events, AppendMore(events) PROVE ControlTypes' /\ LoopOK' /\ LockHeld'
  <2>1. /\ streams["writer"].state # "none"
        /\ \A g \in Holder : g # "writer" => streams'[g] = streams[g]
    BY <1>3, AppendMoreSets
  <2>2. streams["handler"].state = streams'["handler"].state /\ streams["loop"].state = streams'["loop"].state
    BY <2>1
  <2> QED
    BY <2>1, <2>2, <1>3 DEF AppendMore, loop
<1>4. CASE NoAppend
  BY <1>0, <1>a, <1>4 DEF NoAppend, Close, loop, writer
<1>5. CASE FirstAppend
  BY <1>5 DEF FirstAppend, loop, writer
<1>6. ASSUME NEW h \in Holder, StreamOpens(h) \/ Flush(h) \/ StreamFails(h)
      PROVE ControlTypes' /\ LoopOK' /\ LockHeld'
  <2>1. streams[h].state # "none" /\ \A g \in Holder : g # h => streams'[g] = streams[g]
    <3>1. CASE StreamOpens(h)
      BY <3>1, StreamOpensSets DEF StreamOpens
    <3>2. CASE Flush(h)
      BY <3>2, FlushSets
    <3>3. CASE StreamFails(h)
      BY <3>3, StreamFailsSets
    <3> QED
      BY <1>6, <3>1, <3>2, <3>3
  <2>2. \A g \in Holder : streams[g].state = "none" => streams'[g].state = "none"
    BY <2>1
  <2>3. UNCHANGED <<pc, handler, lock, open, job, aborted>> /\ mishap' \in {mishap, TRUE}
    BY <1>6 DEF StreamOpens, Flush, StreamFails, Elsewhere, loop
  <2>4. LoopOK'
    BY <2>2, <2>3
  <2> QED
    BY <2>3, <2>4
<1>7. CASE CompactionDue
  BY <1>0, <1>a, <1>7 DEF CompactionDue, Close, loop
<1>8. CASE NotDue \/ Wake
  BY <1>8 DEF NotDue, Wake, EndOfRun, Ending, loop, writer
<1>9. CASE Finally
  BY <1>0, <1>a, <1>9 DEF Finally, Close, loop
<1>10. CASE Return
  BY <1>0, <1>a, <1>10 DEF Return, loop
<1>b. CASE Die /\ lock' \in {lock, FALSE} /\ handler' \in {handler, "done"}
       /\ (handler' # handler => handler # "waiting") /\ UNCHANGED aborted
  <2>1. \A h \in Holder : streams'[h].state = "none"
    BY <1>b, <1>0 DEF Die
  <2>2. job' = [job EXCEPT !["daemon"] = Idle] /\ pc' = "down" /\ open' = FALSE /\ mishap' \in BOOLEAN
    BY <1>b DEF Die
  <2> QED
    BY <1>b, <2>1, <2>2 DEF Idle
<1>11. CASE HandlerDone
  <2>1. CASE exits
    BY <1>11, <2>1, <1>b DEF HandlerDone, loop
  <2>2. CASE ~exits
    BY <1>0, <1>a, <1>11, <2>2 DEF HandlerDone, loop
  <2> QED
    BY <2>1, <2>2
<1>12. CASE ProcessEnds \/ Crash
  BY <1>12, <1>b DEF ProcessEnds, Crash, loop
<1>13. CASE Abort
  BY <1>13 DEF Abort, writer
<1>14. CASE Signal
  BY <1>0, <1>a, <1>14 DEF Signal, Close, writer
<1>15. CASE CloseWriter
  BY <1>0, <1>a, <1>15 DEF CloseWriter, At, Step, Elsewhere, loop
<1>16. CASE CloseRejects
  BY <1>0, <1>a, <1>16 DEF CloseRejects, EndJob, EndOfRun, Ending, Idle, At, Elsewhere, loop
<1>17. ASSUME NEW c \in Beside, CompactBeside(c) PROVE ControlTypes' /\ LoopOK' /\ LockHeld'
  BY <1>17 DEF CompactBeside, At, Step, Elsewhere, loop, writer
<1>18. ASSUME NEW c \in Compactor, Compact(c) PROVE ControlTypes' /\ LoopOK' /\ LockHeld'
  <2> USE DEF At, Step, Elsewhere, loop
  <2>1. ASSUME NEW succeeded \in BOOLEAN, job[c].step # "idle", job[c].step # "close",
               EndJob(c, succeeded), Elsewhere, UNCHANGED streams, mishap' \in BOOLEAN
        PROVE ControlTypes' /\ LoopOK' /\ LockHeld'
    BY <2>1 DEF EndJob, EndOfRun, Ending, Idle
  <2>2. CASE NothingToDo(c)
    BY <2>1, <2>2 DEF NothingToDo
  <2>3. CASE WriteSnapshot(c)
    BY <2>1, <2>3 DEF WriteSnapshot
  <2>4. CASE CompactionThrows(c)
    BY <2>1, <2>4 DEF CompactionThrows
  <2>5. CASE Rotate(c)
    BY <2>5 DEF Rotate, writer
  <2>6. CASE Recreate(c)
    BY <2>6 DEF Recreate, writer
  <2>7. CASE Aggregate(c)
    <3> DEFINE totals == Plus(Latest, content[job[c].file])
    <3>1. totals \in Mark
      BY <2>7 DEF Aggregate, AggregateIsMark
    <3>2. job' = [job EXCEPT ![c] = [@ EXCEPT !.step = "write", !.totals = totals]]
      BY <2>7 DEF Aggregate
    <3>3. At(c, "read") /\ UNCHANGED <<pc, open, streams, mishap>> /\ Elsewhere
      BY <2>7 DEF Aggregate, writer
    <3> HIDE DEF totals
    <3> QED
      BY <3>1, <3>2, <3>3
  <2> QED
    BY <1>18, <2>2, <2>3, <2>4, <2>5, <2>6, <2>7 DEF Compact
<1>19. CASE UNCHANGED vars
  BY <1>19 DEF vars, loop, writer
<1> QED
  BY <1>1, <1>2, <1>3, <1>4, <1>5, <1>6, <1>7, <1>8, <1>9, <1>10, <1>11, <1>12, <1>13, <1>14,
     <1>15, <1>16, <1>17, <1>18, <1>19
  DEF Next, Proceed, AppendEvents, WriteLog

-----------------------------------------------------------------------------
(* Operators                                                               *)

(* Max of FiniteSetsExt is the greatest element where there is one.        *)
LEMMA MaxIs ==
  ASSUME NEW S \in SUBSET Nat, NEW m \in S, \A x \in S : x <= m
  PROVE  Max(S) = m
<1>1. \A x \in S : m >= x
  OBVIOUS
<1>2. \A y \in S : (\A x \in S : y >= x) => y = m
  BY <1>1
<1> QED
  BY <1>1, <1>2 DEF Max

(* Adding events that do not count yet.                                    *)
LEMMA PlusMark ==
  ASSUME NEW counts \in Mark, NEW events, \A e \in Event : e \in events => counts[e] = 0
  PROVE  /\ Plus(counts, events) \in Mark
         /\ \A e \in Event : Plus(counts, events)[e] = 1 <=> counts[e] = 1 \/ e \in events
  BY DEF Plus, Mark

(* readLatestSnapshot gives some snapshot that can be read, or nothing.    *)
LEMMA LatestKnown ==
  ASSUME DiskOK
  PROVE  /\ Latest \in Mark
         /\ \/ Latest = NoCounts
            \/ \E s \in DOMAIN snapshots : snapshots[s] # Broken /\ Latest = snapshots[s]
<1>1. NoCounts \in Mark
  BY DEF NoCounts, Mark
<1>2. CASE DOMAIN snapshots = {}
  BY <1>1, <1>2 DEF Latest
<1>3. CASE DOMAIN snapshots # {}
  <2>1. PICK m \in DOMAIN snapshots : \A t \in DOMAIN snapshots : t <= m
    BY <1>3 DEF DiskOK
  <2>2. DOMAIN snapshots \in SUBSET Nat
    BY DEF DiskOK, File
  <2>3. Max(DOMAIN snapshots) = m
    BY <2>1, <2>2, MaxIs
  <2> QED
    BY <1>1, <1>3, <2>1, <2>3 DEF Latest, DiskOK
<1> QED
  BY <1>2, <1>3

(* What the latest snapshot counts is in no file still to be counted.      *)
LEMMA LatestBooked ==
  ASSUME DiskOK, Apart, NEW e \in Event, Latest[e] = 1
  PROVE  Booked(e)
<1>1. NoCounts[e] = 0
  BY DEF NoCounts
<1> QED
  BY <1>1, LatestKnown DEF Apart, CountedBooked

(* So a compaction counts nothing twice, ...                               *)
LEMMA AggregateFits == DiskOK /\ Apart => AggregateIsMark
<1> SUFFICES ASSUME DiskOK, Apart, NEW c \in Compactor, job[c].step = "read"
             PROVE  Plus(Latest, content[job[c].file]) \in Mark
  BY DEF AggregateIsMark
<1>1. \A e \in Event : e \in content[job[c].file] => Latest[e] = 0
  BY LatestBooked, LatestKnown DEF Booked, Waiting, Mark
<1> QED
  BY <1>1, LatestKnown, PlusMark

(* ... and neither does getBucketHistory.                                  *)
LEMMA CountedIs ==
  ASSUME DiskOK, Apart
  PROVE  /\ NeverCountedTwice
         /\ \A e \in Event : Counted[e] = 1 <=> Latest[e] = 1 \/ (log # NoFile /\ e \in content[log])
<1> DEFINE logged == IF log = NoFile THEN {} ELSE content[log]
<1>1. \A e \in Event : e \in logged => Latest[e] = 0
  BY LatestBooked, LatestKnown DEF Booked, Mark
<1>2. Counted = Plus(Latest, logged)
  BY DEF Counted
<1> HIDE DEF logged
<1>3. /\ Plus(Latest, logged) \in Mark
      /\ \A e \in Event : Plus(Latest, logged)[e] = 1 <=> Latest[e] = 1 \/ e \in logged
  BY <1>1, LatestKnown, PlusMark
<1>4. \A e \in Event : Counted[e] \in {0, 1}
  BY <1>2, <1>3 DEF Mark
<1>5. NeverCountedTwice
  BY <1>4 DEF NeverCountedTwice
<1> QED
  BY <1>2, <1>3, <1>5 DEF logged

(* New events are in no file yet and follow the ones acknowledged.         *)
LEMMA FreshEvents ==
  ASSUME DiskOK, NEW events \in NewEvents, events \subseteq Event
  PROVE  events \cap acked = {} /\ \E k \in 0..MaxEvents : acked \cup events = 1..k
<1>1. PICK k \in 0..MaxEvents : acked = 1..k
  BY DEF DiskOK
<1>2. k \in Nat /\ MaxEvents \in Nat
  BY DaemonAssumption
<1>3. Cardinality(acked) = k
  BY <1>1, <1>2, FS_Interval
<1>4. PICK last \in {k + 1, k + 2} : events = 1..last \ acked
  BY <1>3 DEF NewEvents
<1>5. last \in Nat /\ last \in events
  BY <1>1, <1>2, <1>4
<1>6. last \in 0..MaxEvents
  BY <1>5, <1>2 DEF Event
<1>7. acked \cup events = 1..last
  BY <1>1, <1>2, <1>4, <1>5
<1> QED
  BY <1>4, <1>6, <1>7

(* One file of a sequence of files changes, or one is added.               *)
LEMMA FileWritten ==
  ASSUME NEW A, NEW s \in Seq(SUBSET A), NEW B, A \subseteq B, NEW g \in 1..Len(s), NEW x \in SUBSET B,
         NEW t, t = [s EXCEPT ![g] = x]
  PROVE  /\ t \in Seq(SUBSET B) /\ Len(t) = Len(s)
         /\ \A f \in 1..Len(s) : t[f] = IF f = g THEN x ELSE s[f]
<1>1. \A f \in 1..Len(s) : s[f] \in SUBSET B
  OBVIOUS
<1>2. t \in [1..Len(s) -> SUBSET B]
  BY <1>1
<1> QED
  BY <1>2

LEMMA FileAdded ==
  ASSUME NEW A, NEW s \in Seq(SUBSET A), NEW B, A \subseteq B, NEW x \in SUBSET B,
         NEW t, t = Append(s, x)
  PROVE  /\ t \in Seq(SUBSET B) /\ Len(t) = Len(s) + 1 /\ Len(s) \in Nat
         /\ \A f \in 1..Len(t) : t[f] = IF f = Len(t) THEN x ELSE s[f]
<1>1. s \in Seq(SUBSET B)
  <2>1. \A f \in 1..Len(s) : s[f] \in SUBSET B
    OBVIOUS
  <2> QED
    BY <2>1
<1> QED
  BY <1>1

-----------------------------------------------------------------------------
(* Nothing counts twice                                                    *)

(* Streams that have the log, or what other streams had, and write nothing *)
(* that is not theirs.                                                     *)
Follow ==
  /\ \A h \in Holder :
       streams'[h].file \in {NoFile, log'} \/ \E g \in Holder : streams'[h].file = streams[g].file
  /\ \A g, h \in Holder : g # h =>
       \E x, y \in Holder : x # y /\ streams'[g].buffer \subseteq streams[x].buffer
                                  /\ streams'[h].buffer \subseteq streams[y].buffer

LEMMA FollowBuffers ==
  ASSUME Follow
  PROVE  \A h \in Holder : \E x \in Holder : streams'[h].buffer \subseteq streams[x].buffer
<1> SUFFICES ASSUME NEW h \in Holder PROVE \E x \in Holder : streams'[h].buffer \subseteq streams[x].buffer
  OBVIOUS
<1>1. \E g \in Holder : g # h
  BY DEF Holder
<1> QED
  BY <1>1 DEF Follow

(* So do the streams of a hand-over, ...                                   *)
LEMMA HandedFollow ==
  ASSUME StreamsOK, Handed \/ Dropped
  PROVE  Follow
<1>1. NoStream.file = NoFile
  BY DEF NoStream
<1>2. \A h \in Holder : streams'[h].file = NoFile \/ \E g \in Holder : streams'[h].file = streams[g].file
  BY <1>1, HandedFacts
<1> QED
  BY <1>2, HandedFacts DEF Follow

(* ... and one whose buffer only shrinks.                                  *)
LEMMA ShrinkFollow ==
  ASSUME NEW h \in Holder, \A g \in Holder : g # h => streams'[g] = streams[g],
         streams'[h].file \in {NoFile, log', streams[h].file},
         streams'[h].buffer \subseteq streams[h].buffer
  PROVE  Follow
<1>1. \A g \in Holder : streams'[g].buffer \subseteq streams[g].buffer
  OBVIOUS
<1>2. \A g \in Holder : streams'[g].file \in {NoFile, log', streams[g].file}
  OBVIOUS
<1> QED
  BY <1>1, <1>2 DEF Follow

(* A step that touches no file and starts no compaction beyond its stat.   *)
Bystanding ==
  /\ UNCHANGED <<log, content, snapshots, acked>>
  /\ Follow
  /\ \A c \in Compactor : job'[c] = job[c] \/ job'[c].step \notin InFlight

LEMMA BystandingKeeps ==
  ASSUME DiskOK, Apart, Bystanding
  PROVE  DiskOK' /\ Apart'
<1>3. \A c \in Compactor : job'[c].step \in InFlight => job'[c] = job[c]
  BY DEF Bystanding
<1>a. \A h \in Holder : \E x \in Holder : streams'[h].buffer \subseteq streams[x].buffer
  BY FollowBuffers DEF Bystanding
<1>1. DiskOK'
  <2>1. \A c \in Compactor :
          /\ job'[c].step \in InFlight => job'[c].file \in File
          /\ job'[c].step = "write" => job'[c].totals \in Mark
    BY <1>3 DEF DiskOK, InFlight
  <2>2. \A h \in Holder : streams'[h].file \in File \cup {NoFile}
    BY DEF DiskOK, Bystanding, Follow
  <2>3. \A h \in Holder : streams'[h].buffer \subseteq acked
    BY <1>a DEF DiskOK
  <2> QED
    BY <2>1, <2>2, <2>3 DEF DiskOK, Bystanding, File
<1>2. \A e \in Event : Booked(e) => Booked(e)'
  BY <1>3, <1>a DEF Booked, Bystanding, InFlight
<1>4. FilesApart' /\ OneOwner'
  BY <1>3 DEF Apart, FilesApart, OneOwner, Bystanding, File, InFlight
<1>b. BuffersApart'
  <2>1. \A h \in Holder : \A f \in File : streams'[h].buffer \cap content[f] = {}
    BY <1>a DEF Apart, BuffersApart
  <2>2. ASSUME NEW g \in Holder, NEW h \in Holder, g # h
        PROVE  streams'[g].buffer \cap streams'[h].buffer = {}
    <3>1. PICK x, y \in Holder : x # y /\ streams'[g].buffer \subseteq streams[x].buffer
                                       /\ streams'[h].buffer \subseteq streams[y].buffer
      BY <2>2 DEF Bystanding, Follow
    <3> QED
      BY <3>1 DEF Apart, BuffersApart
  <2> QED
    BY <2>1, <2>2 DEF BuffersApart, Bystanding, File
<1>5. CountedBooked'
  BY <1>2, <1>3 DEF Apart, CountedBooked, Bystanding, InFlight
<1> QED
  BY <1>1, <1>4, <1>b, <1>5 DEF Apart

(* Fresh events go to a buffer.                                            *)
LEMMA BufferedKeeps ==
  ASSUME DiskOK, Apart, NEW events, events \cap acked = {},
         \E k \in 0..MaxEvents : acked \cup events = 1..k,
         acked' = acked \cup events, UNCHANGED <<log, content, snapshots, job>>,
         NEW h \in Holder, \A g \in Holder : g # h => streams'[g] = streams[g],
         streams'[h].file \in {NoFile, streams[h].file},
         streams'[h].buffer \subseteq streams[h].buffer \cup events
  PROVE  DiskOK' /\ Apart'
<1>1. content \in Seq(SUBSET acked) /\ \A f \in File : content[f] \subseteq acked
  BY DEF DiskOK, File
<1>2. \A g \in Holder : streams'[g].buffer \subseteq streams[g].buffer \cup events
                      /\ streams[g].buffer \subseteq acked
  BY DEF DiskOK
<1>3. DiskOK'
  <2>1. content \in Seq(SUBSET (acked \cup events))
    BY <1>1
  <2>2. \A g \in Holder : streams'[g].file \in File \cup {NoFile}
    BY DEF DiskOK
  <2>3. \A g \in Holder : streams'[g].buffer \subseteq acked'
    BY <1>2
  <2> QED
    BY <2>1, <2>2, <2>3 DEF DiskOK, File
<1>4. \A e \in Event : Booked(e) => Booked(e)'
  BY <1>2 DEF Booked
<1>5. BuffersApart'
  <2>1. \A g \in Holder : \A f \in File : streams'[g].buffer \cap content[f] = {}
    BY <1>1, <1>2 DEF Apart, BuffersApart
  <2>2. ASSUME NEW g \in Holder, NEW i \in Holder, g # i
        PROVE  streams'[g].buffer \cap streams'[i].buffer = {}
    <3>1. CASE g # h /\ i # h
      BY <2>2, <3>1 DEF Apart, BuffersApart
    <3>2. CASE g = h
      BY <1>2, <2>2, <3>2 DEF Apart, BuffersApart
    <3>3. CASE i = h
      BY <1>2, <2>2, <3>3 DEF Apart, BuffersApart
    <3> QED
      BY <3>1, <3>2, <3>3
  <2> QED
    BY <2>1, <2>2 DEF BuffersApart, File
<1>6. FilesApart' /\ OneOwner'
  BY DEF Apart, FilesApart, OneOwner, File
<1>7. CountedBooked'
  BY <1>4 DEF Apart, CountedBooked
<1> QED
  BY <1>3, <1>5, <1>6, <1>7 DEF Apart

(* Events go from the buffer of a stream to its file.                      *)
LEMMA WrittenKeeps ==
  ASSUME DiskOK, Apart, NEW h \in Holder, NEW lines \in SUBSET streams[h].buffer,
         NEW g \in File, content' = [content EXCEPT ![g] = @ \cup lines],
         UNCHANGED <<acked, log, snapshots, job>>,
         streams'[h].file = streams[h].file,
         streams'[h].buffer = streams[h].buffer \ lines,
         \A i \in Holder : i # h => streams'[i] = streams[i]
  PROVE  DiskOK' /\ Apart'
<1>0. lines \subseteq acked
  BY DEF DiskOK
<1>1. /\ content' \in Seq(SUBSET acked) /\ Len(content') = Len(content)
      /\ \A f \in File : content'[f] = IF f = g THEN content[g] \cup lines ELSE content[f]
  <2>1. content \in Seq(SUBSET acked)
    BY DEF DiskOK
  <2>2. content[g] \cup lines \in SUBSET acked
    BY <1>0, <2>1 DEF File
  <2> DEFINE new == content[g] \cup lines
  <2>3. content' = [content EXCEPT ![g] = new]
    OBVIOUS
  <2>4. new \in SUBSET acked
    BY <2>2
  <2> HIDE DEF new
  <2>5. /\ content' \in Seq(SUBSET acked) /\ Len(content') = Len(content)
        /\ \A f \in File : content'[f] = IF f = g THEN new ELSE content[f]
    <3>1. g \in 1..Len(content)
      BY DEF File
    <3>2. content \in [1..Len(content) -> SUBSET acked] /\ Len(content) \in Nat
      BY <2>1
    <3>3. /\ content' \in [1..Len(content) -> SUBSET acked]
          /\ \A f \in 1..Len(content) : content'[f] = IF f = g THEN new ELSE content[f]
      BY <2>3, <2>4, <3>1, <3>2
    <3>4. content' \in Seq(SUBSET acked) /\ Len(content') = Len(content)
      BY <3>2, <3>3
    <3> QED
      BY <3>3, <3>4 DEF File
  <2> QED
    BY <2>5 DEF new
<1>2. File' = File
  BY <1>1 DEF File
<1>a. \A i \in Holder : streams'[i].buffer \subseteq streams[i].buffer /\ streams'[i].file = streams[i].file
  OBVIOUS
<1>4. DiskOK'
  <2>1. \A i \in Holder : streams'[i].file \in File \cup {NoFile} /\ streams'[i].buffer \subseteq acked
    BY <1>a DEF DiskOK
  <2> QED
    BY <1>1, <1>2, <2>1 DEF DiskOK
<1>5. \A c \in Compactor : job[c].step \in Waiting => job[c].file \in File
  BY DEF DiskOK, InFlight
<1>6. \A e \in Event : Booked(e) => Booked(e)'
  <2> SUFFICES ASSUME NEW e \in Event, Booked(e) PROVE Booked(e)'
    OBVIOUS
  <2>1. e \in acked /\ e \notin lines /\ \A i \in Holder : e \notin streams'[i].buffer
    BY <1>a DEF Booked
  <2>2. log # NoFile => e \notin content'[log]
    BY <1>1, <2>1 DEF Booked, DiskOK
  <2>3. \A c \in Compactor : job[c].step \in Waiting => e \notin content'[job[c].file]
    BY <1>1, <1>5, <2>1 DEF Booked
  <2> QED
    BY <2>1, <2>2, <2>3 DEF Booked
<1>7. FilesApart'
  <2> SUFFICES ASSUME NEW f \in File, NEW i \in File, f # i PROVE content'[f] \cap content'[i] = {}
    BY <1>2 DEF FilesApart
  <2>1. \A j \in File : lines \cap content[j] = {}
    BY DEF Apart, BuffersApart
  <2> QED
    BY <1>1, <2>1 DEF Apart, FilesApart
<1>b. BuffersApart'
  <2>1. ASSUME NEW i \in Holder, NEW f \in File PROVE streams'[i].buffer \cap content'[f] = {}
    <3>1. streams'[i].buffer \cap content[f] = {}
      BY <1>a DEF Apart, BuffersApart
    <3>2. streams'[i].buffer \cap lines = {}
      BY DEF Apart, BuffersApart
    <3> QED
      BY <1>1, <3>1, <3>2
  <2>2. \A i, j \in Holder : i # j => streams'[i].buffer \cap streams'[j].buffer = {}
    BY <1>a DEF Apart, BuffersApart
  <2> QED
    BY <1>2, <2>1, <2>2 DEF BuffersApart
<1>8. OneOwner'
  BY DEF Apart, OneOwner
<1>9. CountedBooked'
  BY <1>6 DEF Apart, CountedBooked
<1> QED
  BY <1>4, <1>7, <1>b, <1>8, <1>9 DEF Apart

(* A step of a compaction after which it still has its file.               *)
Recreated(c) ==
  \/ job' = job
  \/ /\ job[c].step = "recreate"
     /\ job' = [job EXCEPT ![c].step = "read"]

(* Such a step changes nothing of what a compaction has.                   *)
LEMMA RecreatedJobs ==
  ASSUME Control, NEW c \in Compactor, Recreated(c)
  PROVE  \A d \in Compactor :
           /\ job'[d].step \in Waiting <=> job[d].step \in Waiting
           /\ job'[d].step \in InFlight <=> job[d].step \in InFlight
           /\ job'[d].step = "write" <=> job[d].step = "write"
           /\ job'[d].file = job[d].file /\ job'[d].totals = job[d].totals
  BY DEF Control, ControlTypes, JobType, Recreated, Waiting, InFlight

(* A new log, for a stream or in the place of the old one.                 *)
LEMMA CreatedKeeps ==
  ASSUME Control, DiskOK, Apart,
         log = NoFile, log' = Len(content) + 1, content' = Append(content, {}),
         UNCHANGED <<acked, snapshots>>, NEW c \in Compactor, Recreated(c), Follow
  PROVE  DiskOK' /\ Apart'
<1>1. /\ content' \in Seq(SUBSET acked) /\ Len(content') = Len(content) + 1 /\ Len(content) \in Nat
      /\ \A f \in 1..Len(content') : content'[f] = IF f = Len(content') THEN {} ELSE content[f]
  <2>1. content \in Seq(SUBSET acked) /\ {} \in SUBSET acked
    BY DEF DiskOK
  <2> QED
    BY <2>1, FileAdded
<1> DEFINE new == Len(content')
<1>2. File' = File \cup {new} /\ new \notin File /\ log' = new
  BY <1>1 DEF File
<1>a. \A f \in File : content'[f] = content[f]
  BY <1>1, <1>2 DEF File
<1>b. content'[new] = {} /\ new # NoFile
  BY <1>1, DaemonAssumption
<1>3. \A h \in Holder : \E x \in Holder : streams'[h].buffer \subseteq streams[x].buffer
  BY FollowBuffers
<1>c. content' \in Seq(SUBSET acked')
  BY <1>1
<1> HIDE DEF new
<1>4. DiskOK'
  <2>1. \A h \in Holder : streams'[h].file \in File' \cup {NoFile} /\ streams'[h].buffer \subseteq acked'
    <3>1. \A h \in Holder : streams'[h].buffer \subseteq acked'
      BY <1>3 DEF DiskOK
    <3>2. \A h \in Holder : streams'[h].file \in File' \cup {NoFile}
      BY <1>2 DEF DiskOK, Follow
    <3> QED
      BY <3>1, <3>2
  <2> QED
    BY <1>c, <1>2, <2>1, RecreatedJobs DEF DiskOK
<1>5. \A d \in Compactor : job[d].step \in Waiting => job[d].file \in File
  BY DEF DiskOK, InFlight
<1>6. \A e \in Event : Booked(e) => Booked(e)'
  BY <1>2, <1>3, <1>a, <1>b, <1>5, RecreatedJobs DEF Booked
<1>7. FilesApart'
  <2> SUFFICES ASSUME NEW f \in File', NEW h \in File', f # h PROVE content'[f] \cap content'[h] = {}
    BY DEF FilesApart
  <2> QED
    BY <1>2, <1>a, <1>b DEF Apart, FilesApart
<1>d. BuffersApart'
  <2>1. \A h \in Holder : \A f \in File' : streams'[h].buffer \cap content'[f] = {}
    BY <1>2, <1>3, <1>a, <1>b DEF Apart, BuffersApart
  <2>2. ASSUME NEW g \in Holder, NEW h \in Holder, g # h
        PROVE  streams'[g].buffer \cap streams'[h].buffer = {}
    <3>1. PICK x, y \in Holder : x # y /\ streams'[g].buffer \subseteq streams[x].buffer
                                       /\ streams'[h].buffer \subseteq streams[y].buffer
      BY <2>2 DEF Follow
    <3> QED
      BY <3>1 DEF Apart, BuffersApart
  <2> QED
    BY <2>1, <2>2 DEF BuffersApart
<1>8. OneOwner'
  BY <1>2, <1>5, RecreatedJobs DEF Apart, OneOwner
<1>9. CountedBooked'
  BY <1>6, RecreatedJobs DEF Apart, CountedBooked
<1> QED
  BY <1>4, <1>7, <1>d, <1>8, <1>9 DEF Apart

(* writeFile empties the log that is there.                                *)
LEMMA EmptiedKeeps ==
  ASSUME Control, DiskOK, Apart, log # NoFile, content' = [content EXCEPT ![log] = {}],
         UNCHANGED <<log, acked, snapshots, streams>>,
         NEW c \in Compactor, Recreated(c)
  PROVE  DiskOK' /\ Apart'
<1>1. /\ content' \in Seq(SUBSET acked) /\ Len(content') = Len(content)
      /\ \A f \in File : content'[f] = IF f = log THEN {} ELSE content[f]
  <2>1. content \in Seq(SUBSET acked) /\ log \in File
    BY DEF DiskOK
  <2> QED
    BY <2>1, FileWritten DEF File
<1>2. File' = File
  BY <1>1 DEF File
<1>4. DiskOK'
  BY <1>1, <1>2, RecreatedJobs DEF DiskOK
<1>5. \A d \in Compactor : job[d].step \in Waiting => job[d].file \in File
  BY DEF DiskOK, InFlight
<1>6. \A e \in Event : Booked(e) => Booked(e)'
  BY <1>1, <1>5, RecreatedJobs DEF Booked, DiskOK
<1>7. FilesApart'
  BY <1>1, <1>2 DEF Apart, FilesApart
<1>a. BuffersApart'
  BY <1>1, <1>2 DEF Apart, BuffersApart
<1>8. OneOwner'
  BY RecreatedJobs DEF Apart, OneOwner
<1>9. CountedBooked'
  BY <1>6, RecreatedJobs DEF Apart, CountedBooked
<1> QED
  BY <1>4, <1>7, <1>a, <1>8, <1>9 DEF Apart

(* The log becomes the file of one compaction.                             *)
LEMMA RotateKeeps ==
  ASSUME Control, DiskOK, Apart, NEW c \in Compactor, Rotate(c)
  PROVE  DiskOK' /\ Apart'
<1>1. /\ log # NoFile /\ log' = NoFile /\ job[c].step = "stat"
      /\ UNCHANGED <<content, snapshots, acked, streams>>
  BY DEF Rotate, At, HasEvents, Elsewhere, writer
<1>2. /\ job'[c].step = "recreate" /\ job'[c].file = log
      /\ \A d \in Compactor : d # c => job'[d] = job[d]
  BY DEF Rotate, Control, ControlTypes, JobType
<1>3. log \in File
  BY <1>1 DEF DiskOK
<1>4. DiskOK'
  BY <1>1, <1>2, <1>3 DEF DiskOK, InFlight, File
<1>6. \A e \in Event : Booked(e) => Booked(e)'
  BY <1>1, <1>2 DEF Booked
<1>7. FilesApart'
  BY <1>1 DEF Apart, FilesApart, File
<1>a. BuffersApart'
  BY <1>1 DEF Apart, BuffersApart, File
<1>8. OneOwner'
  <2>1. \A d \in Compactor : job'[d].step \in Waiting => job'[d].file \in File
    BY <1>2, <1>3 DEF DiskOK, InFlight
  <2>2. NoFile \notin File
    BY DaemonAssumption DEF File
  <2> QED
    BY <1>1, <1>2, <2>1, <2>2 DEF Apart, OneOwner
<1>9. CountedBooked'
  BY <1>1, <1>2, <1>6 DEF Apart, CountedBooked
<1> QED
  BY <1>4, <1>7, <1>a, <1>8, <1>9 DEF Apart

(* A compaction counts its file: its snapshot is there and not readable.   *)
LEMMA AggregateKeeps ==
  ASSUME Control, DiskOK, Apart, NEW c \in Compactor, Aggregate(c)
  PROVE  DiskOK' /\ Apart'
<1> DEFINE own    == job[c].file
           totals == Plus(Latest, content[own])
<1>1. /\ job[c].step = "read"
      /\ UNCHANGED <<content, log, acked, streams>>
  BY DEF Aggregate, At, Elsewhere, writer
<1>2. /\ job'[c].step = "write" /\ job'[c].file = own /\ job'[c].totals = totals
      /\ \A d \in Compactor : d # c => job'[d] = job[d]
  BY DEF Aggregate, Control, ControlTypes, JobType
<1>3. own \in File
  BY <1>1 DEF DiskOK, InFlight, Waiting
<1>4. /\ DOMAIN snapshots' = DOMAIN snapshots \cup {own}
      /\ snapshots'[own] = Broken
      /\ \A s \in DOMAIN snapshots : s # own => snapshots'[s] = snapshots[s]
  BY DEF Aggregate
<1>5. totals \in Mark /\ \A e \in Event : totals[e] = 1 => Latest[e] = 1 \/ e \in content[own]
  <2>1. \A e \in Event : e \in content[own] => Latest[e] = 0
    BY <1>1, LatestBooked, LatestKnown DEF Booked, Waiting, Mark
  <2> QED
    BY <2>1, LatestKnown, PlusMark
<1> HIDE DEF totals, own
<1>6. DiskOK'
  <2>1. \E s \in DOMAIN snapshots' : \A t \in DOMAIN snapshots' : t <= s
    <3>1. CASE DOMAIN snapshots = {}
      BY <1>3, <1>4, <3>1 DEF File
    <3>2. CASE DOMAIN snapshots # {}
      <4>1. PICK m \in DOMAIN snapshots : \A t \in DOMAIN snapshots : t <= m
        BY <3>2 DEF DiskOK
      <4>2. \A t \in DOMAIN snapshots : t \in Nat
        BY DEF DiskOK, File
      <4>3. own \in Nat
        BY <1>3 DEF File
      <4>4. CASE own <= m
        BY <1>4, <4>1, <4>4
      <4>5. CASE ~(own <= m)
        <5>1. \A t \in DOMAIN snapshots' : t <= own
          BY <1>4, <4>1, <4>2, <4>3, <4>5
        <5> QED
          BY <1>4, <5>1
      <4> QED
        BY <4>4, <4>5
    <3> QED
      BY <3>1, <3>2
  <2>2. \A d \in Compactor :
          /\ job'[d].step \in InFlight => job'[d].file \in File
          /\ job'[d].step = "write" => job'[d].totals \in Mark
    BY <1>2, <1>3, <1>5 DEF DiskOK
  <2>3. \A s \in DOMAIN snapshots' : s \in File /\ snapshots'[s] \in Mark \cup {Broken}
    BY <1>3, <1>4 DEF DiskOK
  <2> QED
    BY <1>1, <2>1, <2>2, <2>3 DEF DiskOK, File
<1>7. \A e \in Event : Booked(e) => Booked(e)'
  BY <1>1, <1>2 DEF Booked, Waiting
<1>8. FilesApart'
  BY <1>1 DEF Apart, FilesApart, File
<1>a. BuffersApart'
  BY <1>1 DEF Apart, BuffersApart, File
<1>9. OneOwner'
  BY <1>1, <1>2 DEF Apart, OneOwner, Waiting
<1>10. \A e \in Event : e \in content[own] => Booked(e)'
  <2> SUFFICES ASSUME NEW e \in Event, e \in content[own] PROVE Booked(e)'
    OBVIOUS
  <2>1. e \in acked
    BY <1>3 DEF DiskOK, File
  <2>2. own # log /\ \A d \in Compactor : job[d].step \in Waiting /\ d # c => job[d].file # own
    BY <1>1 DEF Apart, OneOwner, Waiting, own
  <2>3. log # NoFile => e \notin content[log]
    BY <1>3, <2>2 DEF DiskOK, Apart, FilesApart
  <2>4. \A d \in Compactor : job[d].step \in Waiting /\ d # c => e \notin content[job[d].file]
    BY <1>3, <2>2 DEF DiskOK, Apart, FilesApart, InFlight
  <2>5. \A h \in Holder : e \notin streams[h].buffer
    BY <1>3 DEF Apart, BuffersApart
  <2> QED
    BY <1>1, <1>2, <2>1, <2>3, <2>4, <2>5 DEF Booked, Waiting
<1>11. CountedBooked'
  <2>1. \A e \in Event : totals[e] = 1 => Booked(e)'
    BY <1>5, <1>7, <1>10, LatestBooked
  <2>2. \A s \in DOMAIN snapshots' : snapshots'[s] # Broken => s \in DOMAIN snapshots /\ snapshots'[s] = snapshots[s]
    BY <1>4
  <2> QED
    BY <1>2, <1>7, <2>1, <2>2 DEF Apart, CountedBooked
<1> QED
  BY <1>6, <1>8, <1>a, <1>9, <1>11 DEF Apart

(* The end of a compaction leaves the others where they are.               *)
LEMMA EndJobFacts ==
  ASSUME Control, NEW c \in Compactor, NEW succeeded, EndJob(c, succeeded)
  PROVE  /\ job'[c] = Idle /\ \A d \in Compactor : d # c => job'[d] = job[d]
         /\ c # "daemon" => UNCHANGED <<pc, open>>
  BY DEF Control, ControlTypes, EndJob

(* The snapshot of one compaction gets its content.                        *)
LEMMA WriteSnapshotKeeps ==
  ASSUME Control, DiskOK, Apart, NEW c \in Compactor, WriteSnapshot(c)
  PROVE  DiskOK' /\ Apart'
<1> DEFINE own    == job[c].file
           totals == job[c].totals
<1>1. job[c].step = "write" /\ UNCHANGED <<content, log, acked, streams>>
  BY DEF WriteSnapshot, At, Elsewhere
<1>2. /\ job'[c] = Idle /\ \A d \in Compactor : d # c => job'[d] = job[d]
  BY EndJobFacts DEF WriteSnapshot
<1>3. own \in File /\ totals \in Mark
  BY <1>1 DEF DiskOK, InFlight
<1>4. /\ DOMAIN snapshots' = DOMAIN snapshots
      /\ \A s \in DOMAIN snapshots : snapshots'[s] = IF s = own THEN totals ELSE snapshots[s]
  BY DEF WriteSnapshot
<1>5. \A e \in Event : totals[e] = 1 => Booked(e)
  BY <1>1 DEF Apart, CountedBooked
<1> HIDE DEF totals, own
<1>6. \A d \in Compactor : job'[d].step \in InFlight => d # c /\ job'[d] = job[d]
  BY <1>2 DEF Idle, InFlight, Waiting
<1>7. DiskOK'
  <2>1. \A d \in Compactor :
          /\ job'[d].step \in InFlight => job'[d].file \in File
          /\ job'[d].step = "write" => job'[d].totals \in Mark
    BY <1>6 DEF DiskOK, InFlight
  <2>2. \A s \in DOMAIN snapshots' : snapshots'[s] \in Mark \cup {Broken}
    BY <1>3, <1>4 DEF DiskOK
  <2> QED
    BY <1>1, <1>4, <2>1, <2>2 DEF DiskOK, File
<1>8. \A e \in Event : Booked(e) => Booked(e)'
  BY <1>1, <1>6 DEF Booked, InFlight
<1>9. FilesApart' /\ BuffersApart' /\ OneOwner'
  BY <1>1, <1>6 DEF Apart, FilesApart, BuffersApart, OneOwner, File, InFlight
<1>10. CountedBooked'
  BY <1>4, <1>5, <1>6, <1>8 DEF Apart, CountedBooked, InFlight
<1> QED
  BY <1>7, <1>9, <1>10 DEF Apart

(* Every step of the daemon and of the compactions beside it.              *)
LEMMA NextDisk == Control /\ DiskOK /\ Apart /\ [Next]_vars => DiskOK' /\ Apart'
<1> SUFFICES ASSUME Control, DiskOK, Apart, [Next]_vars PROVE DiskOK' /\ Apart'
  OBVIOUS
<1>0. StreamsOK /\ log \in Nat \cup {NoFile} /\ Len(content) \in Nat
  BY DEF Control, DiskOK, File
<1>a. (\E k \in 0..MaxEvents : acked \cup {} = 1..k) /\ {} \cap acked = {}
  BY DEF DiskOK
<1> USE DEF loop, disk
<1>b. ASSUME Handed \/ Dropped, UNCHANGED <<disk, acked>>,
             \A c \in Compactor : job'[c] = job[c] \/ job'[c].step \notin InFlight
      PROVE  DiskOK' /\ Apart'
  BY <1>0, <1>b, HandedFollow, BystandingKeeps DEF Bystanding
<1>1. CASE StartDaemon \/ NoAppend \/ FirstAppend \/ NotDue \/ Wake \/ Finally \/ Return
            \/ Abort \/ Signal \/ UNCHANGED vars
  BY <1>1, <1>b, StepHands
  DEF StartDaemon, NoAppend, FirstAppend, NotDue, Wake, Finally, Return, Abort, Signal, vars
<1>2. ASSUME NEW events \in NewEvents, OpenStream(events) PROVE DiskOK' /\ Apart'
  <2>1. events \cap acked = {} /\ \E k \in 0..MaxEvents : acked \cup events = 1..k
    BY <1>2, FreshEvents DEF OpenStream
  <2>2. PICK h \in Holder : \E new \in SUBSET Event :
           /\ streams'[h] = Opening(new) /\ acked' = acked \cup new /\ new \in {events, {}}
           /\ \A g \in Holder : g # h => streams'[g] = streams[g]
    BY <1>2, OpenStreamSets
  <2>2a. PICK new \in SUBSET Event :
           /\ streams'[h] = Opening(new) /\ acked' = acked \cup new /\ new \in {events, {}}
           /\ \A g \in Holder : g # h => streams'[g] = streams[g]
    BY <2>2
  <2>3. new \cap acked = {} /\ \E k \in 0..MaxEvents : acked \cup new = 1..k
    BY <1>a, <2>1, <2>2a
  <2>4. UNCHANGED <<log, content, snapshots, job>>
    BY <1>2 DEF OpenStream
  <2>5. /\ streams'[h].file \in {NoFile, streams[h].file}
        /\ streams'[h].buffer \subseteq streams[h].buffer \cup new
        /\ \A g \in Holder : g # h => streams'[g] = streams[g]
    BY <2>2a DEF Opening
  <2>6. acked' = acked \cup new
    BY <2>2a
  <2> QED
    BY <2>3, <2>4, <2>5, <2>6, BufferedKeeps
<1>3. ASSUME NEW events \in NewEvents, AppendMore(events) PROVE DiskOK' /\ Apart'
  <2>1. events \cap acked = {} /\ \E k \in 0..MaxEvents : acked \cup events = 1..k
    BY <1>3, FreshEvents DEF AppendMore
  <2>2. UNCHANGED <<log, content, snapshots, job>> /\ acked' = acked \cup events /\ "writer" \in Holder
    BY <1>3 DEF AppendMore, Holder
  <2> QED
    <3>1. /\ streams'["writer"].file = streams["writer"].file
          /\ streams'["writer"].buffer \subseteq streams["writer"].buffer \cup events
          /\ \A g \in Holder : g # "writer" => streams'[g] = streams[g]
      BY <1>3, AppendMoreSets
    <3> QED
      BY <2>1, <2>2, <3>1, BufferedKeeps
<1>4. ASSUME NEW h \in Holder, StreamOpens(h) PROVE DiskOK' /\ Apart'
  <2>1. /\ streams'[h].file = log' /\ streams'[h].buffer = streams[h].buffer
        /\ \A g \in Holder : g # h => streams'[g] = streams[g]
    BY <1>0, <1>4, StreamOpensSets
  <2>2. Follow
    BY <2>1, ShrinkFollow
  <2>3. UNCHANGED <<acked, snapshots, job>> /\ "daemon" \in Compactor
    BY <1>4 DEF StreamOpens, Elsewhere, Compactor
  <2>4. CASE log = NoFile
    BY <1>4, <2>2, <2>3, <2>4, CreatedKeeps DEF StreamOpens, Recreated
  <2>5. CASE log # NoFile
    BY <1>4, <2>2, <2>3, <2>5, BystandingKeeps DEF StreamOpens, Bystanding
  <2> QED
    BY <2>4, <2>5
<1>5. ASSUME NEW h \in Holder, Flush(h) PROVE DiskOK' /\ Apart'
  <2>1. PICK lines \in SUBSET streams[h].buffer :
           /\ content' = [content EXCEPT ![streams[h].file] = @ \cup lines]
           /\ streams'[h].file = streams[h].file /\ streams[h].file # NoFile
           /\ streams'[h].buffer = streams[h].buffer \ lines
           /\ \A g \in Holder : g # h => streams'[g] = streams[g]
    BY <1>5, FlushSets
  <2>2. streams[h].file \in File
    BY <2>1 DEF DiskOK
  <2>3. UNCHANGED <<acked, log, snapshots, job>>
    BY <1>5 DEF Flush, Elsewhere
  <2> QED
    BY <2>1, <2>2, <2>3, WrittenKeeps
<1>6. ASSUME NEW h \in Holder, StreamFails(h) PROVE DiskOK' /\ Apart'
  <2>1. streams'[h] = FailedStream /\ \A g \in Holder : g # h => streams'[g] = streams[g]
    BY <1>6, StreamFailsSets
  <2>2. Follow
    BY <2>1, ShrinkFollow DEF FailedStream
  <2> QED
    BY <1>6, <2>2, BystandingKeeps DEF StreamFails, Elsewhere, Bystanding
<1>7. CASE CompactionDue \/ CloseWriter
  <2>1. \A c \in Compactor : job'[c] = job[c] \/ job'[c].step \notin InFlight
    BY <1>7 DEF CompactionDue, CloseWriter, At, Step, Control, ControlTypes, JobType, InFlight, Waiting
  <2>2. UNCHANGED <<disk, acked>>
    BY <1>7 DEF CompactionDue, CloseWriter, Elsewhere
  <2> QED
    BY <1>7, <1>b, <2>1, <2>2, StepHands
<1>8. CASE HandlerDone \/ ProcessEnds \/ Crash \/ CloseRejects
  <2>1. \A c \in Compactor : job'[c] = job[c] \/ job'[c].step \notin InFlight
    BY <1>8 DEF HandlerDone, ProcessEnds, Crash, Die, CloseRejects, EndJob, Idle, Control, ControlTypes,
       JobType, InFlight, Waiting
  <2>2. UNCHANGED <<disk, acked>>
    BY <1>8 DEF HandlerDone, ProcessEnds, Crash, CloseRejects, Elsewhere
  <2> QED
    BY <1>8, <1>b, <2>1, <2>2, StepDrops
<1>9. ASSUME NEW c \in Beside, CompactBeside(c) PROVE DiskOK' /\ Apart'
  <2>1. \A d \in Compactor : job'[d] = job[d] \/ job'[d].step \notin InFlight
    BY <1>9 DEF CompactBeside, Step, Control, ControlTypes, JobType, InFlight, Waiting
  <2>2. UNCHANGED <<disk, acked>>
    BY <1>9 DEF CompactBeside, Elsewhere
  <2> QED
    BY <1>9, <1>b, <2>1, <2>2, StepHands
<1>10. ASSUME NEW c \in Compactor, Compact(c) PROVE DiskOK' /\ Apart'
  <2>1. CASE NothingToDo(c) \/ CompactionThrows(c)
    <3>1. \A d \in Compactor : job'[d] = job[d] \/ job'[d].step \notin InFlight
      <4>1. EndJob(c, TRUE) \/ EndJob(c, FALSE)
        BY <2>1 DEF NothingToDo, CompactionThrows
      <4>2. job'[c] = Idle /\ Idle.step = "idle"
        BY <4>1, EndJobFacts DEF Idle
      <4> QED
        BY <4>1, <4>2, EndJobFacts DEF InFlight, Waiting
    <3>2. UNCHANGED <<disk, acked>>
      BY <2>1 DEF NothingToDo, CompactionThrows, Elsewhere
    <3> QED
      BY <1>10, <1>b, <3>1, <3>2, StepHands
  <2>2. CASE Recreate(c)
    <3>1. Recreated(c) /\ UNCHANGED <<acked, snapshots, streams>>
      BY <2>2 DEF Recreate, Recreated, At, Step, Elsewhere, writer
    <3>2. CASE log = NoFile
      <4>1. log' = Len(content) + 1 /\ content' = Append(content, {})
        BY <2>2, <3>2 DEF Recreate
      <4>2. Follow
        BY <1>0, <3>1, HandedFollow DEF Handed
      <4> QED
        BY <3>1, <3>2, <4>1, <4>2, CreatedKeeps
    <3>3. CASE log # NoFile
      BY <2>2, <3>1, <3>3, EmptiedKeeps DEF Recreate
    <3> QED
      BY <3>2, <3>3
  <2> QED
    BY <1>10, <2>1, <2>2, RotateKeeps, AggregateKeeps, WriteSnapshotKeeps DEF Compact
<1> QED
  BY <1>1, <1>2, <1>3, <1>4, <1>5, <1>6, <1>7, <1>8, <1>9, <1>10
  DEF Next, Proceed, AppendEvents, WriteLog, Compactor

-----------------------------------------------------------------------------
(* Nothing is lost                                                         *)

(* An event is in a buffer, in the history, or in the hands of a           *)
(* compaction.                                                             *)
Kept(e) ==
  \/ \E h \in Holder : e \in streams[h].buffer
  \/ Latest[e] = 1
  \/ log # NoFile /\ e \in content[log]
  \/ \E c \in Compactor :
       \/ job[c].step \in Waiting /\ e \in content[job[c].file]
       \/ job[c].step = "write" /\ job[c].totals[e] = 1

(* Without a mishap one compaction runs at a time, and `state compact`     *)
(* only while no daemon does; ...                                          *)
OneJob ==
  /\ \A c, d \in Compactor : job[c].step # "idle" /\ job[d].step # "idle" => c = d
  /\ \A c \in Beside : job[c].step # "idle" => pc = "down"

(* ... no stream fails, and none has anything to write while a compaction  *)
(* is past its close().                                                    *)
QuietStreams ==
  /\ \A h \in Holder : streams[h].state # "failed"
  /\ \A c \in Compactor : job[c].step \notin {"idle", "close"} => \A h \in Holder : Settled(h)

Solo == OneJob /\ QuietStreams

(* Then files become snapshots in the order they were logs, a stream that  *)
(* will write writes to the log, and the newest snapshot alone can be      *)
(* unreadable.                                                             *)
InOrder ==
  /\ \A h \in Holder :
       streams[h].file # NoFile /\ (h = "writer" \/ streams[h].buffer # {}) => streams[h].file = log
  /\ log # NoFile => \A s \in DOMAIN snapshots : s < log
  /\ \A c \in Compactor :
       /\ job[c].step = "recreate" => log = NoFile
       /\ job[c].step \in Waiting =>
            /\ log # NoFile => job[c].file < log
            /\ \A s \in DOMAIN snapshots : s < job[c].file
       /\ job[c].step = "write" =>
            /\ job[c].file \in DOMAIN snapshots /\ snapshots[job[c].file] = Broken
            /\ \A s \in DOMAIN snapshots : s <= job[c].file
  /\ \A s \in DOMAIN snapshots : snapshots[s] = Broken =>
       \E c \in Compactor : job[c].step = "write" /\ job[c].file = s

AllKept == \A e \in acked : Kept(e)

Orderly == mishap = FALSE => Solo /\ InOrder /\ AllKept

(* What happens once has happened.                                         *)
LEMMA NextMishap == Control /\ [Next]_vars /\ mishap' = FALSE => mishap = FALSE
<1> SUFFICES ASSUME Control, [Next]_vars, mishap = TRUE PROVE mishap' = TRUE
  BY DEF Control, ControlTypes
<1>1. ASSUME NEW c \in Compactor, Compact(c) PROVE mishap' = TRUE
  BY <1>1 DEF Compact, NothingToDo, Rotate, Recreate, Aggregate, WriteSnapshot, CompactionThrows
<1>2. ASSUME \/ NoAppend \/ FirstAppend \/ AppendEvents \/ WriteLog \/ CompactionDue \/ NotDue
             \/ Wake \/ Finally \/ Return \/ Abort \/ Signal \/ UNCHANGED vars
      PROVE  mishap' = TRUE
  BY <1>2 DEF NoAppend, FirstAppend, AppendEvents, OpenStream, AppendMore, WriteLog, StreamOpens, Flush,
     StreamFails, CompactionDue, NotDue, Wake, Finally, Return, Abort, Signal, vars
<1>3. ASSUME \/ StartDaemon \/ HandlerDone \/ ProcessEnds \/ Crash \/ CloseWriter \/ CloseRejects
             \/ \E c \in Beside : CompactBeside(c)
      PROVE  mishap' = TRUE
  BY <1>3 DEF StartDaemon, HandlerDone, ProcessEnds, Crash, Die, CloseWriter, CloseRejects, CompactBeside
<1> QED
  BY <1>1, <1>2, <1>3 DEF Next, Proceed, Compactor

(* A second compaction is a mishap.                                        *)
LEMMA NextOneJob ==
  Control /\ OneJob /\ [Next]_vars /\ mishap = FALSE /\ mishap' = FALSE => OneJob'
<1> SUFFICES ASSUME Control, OneJob, [Next]_vars, mishap = FALSE, mishap' = FALSE
             PROVE  OneJob'
  OBVIOUS
<1> USE DaemonAssumption DEF OneJob, loop
<1>0. ASSUME \A c \in Compactor : job'[c].step # "idle" => job[c].step # "idle",
             pc' = "down" \/ pc # "down"
      PROVE  OneJob'
  BY <1>0 DEF Compactor
<1>1. CASE StartDaemon
  <2>0. \A c \in Beside : job[c] = Idle
    BY <1>1 DEF StartDaemon
  <2>1. \A c \in Beside : job[c].step = "idle"
    BY <2>0 DEF Idle
  <2> QED
    BY <1>1, <2>1 DEF StartDaemon
<1>2. CASE AppendEvents \/ WriteLog
  BY <1>0, <1>2 DEF AppendEvents, OpenStream, AppendMore, WriteLog, StreamOpens, Flush, StreamFails
<1>4. CASE NoAppend \/ FirstAppend \/ NotDue \/ Wake \/ Finally \/ Return \/ Abort \/ Signal
  BY <1>0, <1>4 DEF NoAppend, FirstAppend, NotDue, Wake, Finally, Return, Abort, Signal
<1>5. CASE CompactionDue
  <2>1. pc = "check" /\ \A c \in Compactor : c # "daemon" => job'[c] = job[c]
    BY <1>5 DEF CompactionDue, Control, ControlTypes
  <2> QED
    BY <2>1, <1>5 DEF Compactor, CompactionDue
<1>6. CASE CloseWriter
  BY <1>0, <1>6 DEF CloseWriter, At, Step, Control, ControlTypes, LoopOK
<1>7. CASE HandlerDone \/ ProcessEnds \/ Crash
  <2>1. job' \in {job, [job EXCEPT !["daemon"] = Idle]} /\ pc' \in {pc, "down"}
    BY <1>7 DEF HandlerDone, ProcessEnds, Crash, Die
  <2>2. \A c \in Compactor : job'[c].step # "idle" => job[c].step # "idle"
    BY <2>1 DEF Idle, Control, ControlTypes
  <2> QED
    BY <1>0, <2>1, <2>2
<1>8. ASSUME NEW c \in Beside, CompactBeside(c) PROVE OneJob'
  <2>1. pc = "down" /\ \A d \in Compactor : job[d] = Idle
    BY <1>8 DEF CompactBeside
  <2>2. \A d \in Compactor : d # c => job'[d].step = "idle"
    BY <1>8, <2>1 DEF CompactBeside, Step, Control, ControlTypes, Idle
  <2> QED
    BY <1>8, <2>1, <2>2 DEF CompactBeside
<1>9. ASSUME NEW c \in Compactor, job[c].step # "idle", NEW succeeded, EndJob(c, succeeded)
      PROVE  OneJob'
  <2>1. job'[c].step = "idle"
    BY <1>9, EndJobFacts DEF Idle
  <2>2. c # "daemon" => pc' = pc
    BY <1>9, EndJobFacts
  <2> QED
    BY <1>9, <2>1, <2>2, EndJobFacts DEF Compactor
<1>10. ASSUME NEW c \in Compactor, Compact(c) PROVE OneJob'
  <2>2. job[c].step # "idle"
    BY <1>10 DEF Compact, NothingToDo, Rotate, Recreate, Aggregate, WriteSnapshot, CompactionThrows, At
  <2>3. CASE Rotate(c) \/ Recreate(c) \/ Aggregate(c)
    <3>1. \A d \in Compactor : d # c => job'[d] = job[d]
      BY <2>3 DEF Rotate, Recreate, Aggregate, Step, Control, ControlTypes
    <3>2. pc' = pc
      BY <2>3 DEF Rotate, Recreate, Aggregate
    <3>3. \A d \in Compactor : job'[d].step # "idle" => job[d].step # "idle"
      BY <2>2, <3>1
    <3> QED
      BY <1>0, <3>2, <3>3
  <2> QED
    BY <1>10, <1>9, <2>2, <2>3 DEF Compact, NothingToDo, WriteSnapshot, CompactionThrows
<1>11. CASE CloseRejects
  <2>1. job["daemon"].step # "idle" /\ "daemon" \in Compactor
    BY <1>11 DEF CloseRejects, At, Compactor
  <2> QED
    BY <1>9, <1>11, <2>1 DEF CloseRejects
<1>12. CASE UNCHANGED vars
  BY <1>0, <1>12 DEF vars
<1> QED
  BY <1>1, <1>2, <1>4, <1>5, <1>6, <1>7, <1>8, <1>10, <1>11, <1>12
  DEF Next, Proceed, Compactor

(* A job that is past its close().                                         *)
Past(c) == job[c].step \notin {"idle", "close"}

(* A hand-over opens nothing and fails nothing.                            *)
LEMMA HandedQuiet ==
  ASSUME StreamsOK, Handed \/ Dropped, \A h \in Holder : streams[h].state # "failed"
  PROVE  /\ \A h \in Holder : streams'[h].state # "failed"
         /\ (\A h \in Holder : Settled(h)) => \A h \in Holder : Settled(h)'
<1>1. NoStream.state = "none" /\ NoStream.buffer = {}
  BY DEF NoStream
<1> QED
  BY <1>1, HandedFacts DEF Settled

(* So is a stream that still writes when a compaction takes the log away.  *)
LEMMA NextQuietStreams ==
  Control /\ Solo /\ [Next]_vars /\ mishap = FALSE /\ mishap' = FALSE => QuietStreams'
<1> SUFFICES ASSUME Control, Solo, [Next]_vars, mishap = FALSE, mishap' = FALSE
             PROVE  QuietStreams'
  OBVIOUS
<1> USE DEF loop, writer
<1>0. StreamsOK /\ \A h \in Holder : streams[h].state # "failed"
  BY DEF Control, Solo, QuietStreams
<1>1. ASSUME Handed \/ Dropped, \A c \in Compactor : Past(c)' => Past(c)
      PROVE  QuietStreams'
  BY <1>0, <1>1, HandedQuiet DEF Solo, QuietStreams, Past
<1>2. ASSUME pc \in {"task", "init"}, UNCHANGED job, \A h \in Holder : streams'[h].state # "failed"
      PROVE  QuietStreams'
  <2>1. \A c \in Compactor : job[c].step = "idle"
    BY <1>2 DEF Solo, OneJob, Control, LoopOK, Compactor
  <2> QED
    BY <1>2, <2>1 DEF QuietStreams
<1>3. ASSUME NEW events, OpenStream(events) PROVE QuietStreams'
  <2>1. \A h \in Holder : streams'[h].state # "failed"
    <3>1. PICK h \in Holder : \E new \in SUBSET Event :
             streams'[h] = Opening(new) /\ \A g \in Holder : g # h => streams'[g] = streams[g]
      BY <1>3, OpenStreamSets
    <3>2. streams'[h].state = "opening"
      BY <3>1 DEF Opening
    <3> QED
      BY <1>0, <3>1, <3>2
  <2> QED
    BY <1>2, <1>3, <2>1 DEF OpenStream
<1>4. ASSUME NEW events, AppendMore(events) PROVE QuietStreams'
  <2>1. \A h \in Holder : streams'[h].state # "failed"
    BY <1>0, <1>4, AppendMoreSets DEF Holder
  <2> QED
    BY <1>2, <1>4, <2>1 DEF AppendMore
<1>5. ASSUME NEW h \in Holder, StreamOpens(h) \/ Flush(h) PROVE QuietStreams'
  <2>1. ~Settled(h)
    BY <1>5, FlushSets DEF StreamOpens, Settled
  <2>2. \A c \in Compactor : ~Past(c)
    BY <2>1 DEF Solo, QuietStreams, Past
  <2>3. streams'[h].state = "open" /\ \A g \in Holder : g # h => streams'[g] = streams[g]
    <3>1. CASE Flush(h)
      BY <3>1, FlushSets
    <3>2. CASE StreamOpens(h)
      <4>1. streams \in [Holder -> StreamType]
        BY <1>0 DEF StreamsOK
      <4> QED
        BY <3>2, <4>1 DEF StreamOpens, StreamType
    <3> QED
      BY <1>5, <3>1, <3>2
  <2>4. UNCHANGED job
    BY <1>5 DEF StreamOpens, Flush
  <2> QED
    BY <1>0, <2>2, <2>3, <2>4 DEF QuietStreams, Past
<1>6. ASSUME NEW h \in Holder, StreamFails(h) PROVE FALSE
  BY <1>6 DEF StreamFails
<1>7. CASE \/ StartDaemon \/ NoAppend \/ FirstAppend \/ NotDue \/ Wake \/ Finally \/ Return
           \/ Abort \/ Signal \/ UNCHANGED vars
  <2>1. UNCHANGED job
    BY <1>7 DEF StartDaemon, NoAppend, FirstAppend, NotDue, Wake, Finally, Return, Abort, Signal, vars
  <2> QED
    BY <1>1, <1>7, <2>1, StepHands DEF Past
<1>8. CASE CompactionDue
  <2>1. \A c \in Compactor : Past(c)' => Past(c)
    BY <1>8 DEF CompactionDue, Past, Control, ControlTypes, JobType
  <2> QED
    BY <1>1, <1>8, <2>1, StepHands
<1>9. CASE CloseWriter
  <2>1. Settled("loop") /\ Settled("handler") /\ streams["writer"].state = "none"
    BY <1>9 DEF CloseWriter, At, Control, ControlTypes, LoopOK
  <2>2. \A h \in Holder : Settled(h)
    BY <1>0, <2>1 DEF Holder, Settled, StreamsOK
  <2> QED
    BY <1>0, <1>9, <2>2, StepHands, HandedQuiet DEF QuietStreams
<1>10. CASE CloseRejects
  BY <1>0, <1>10 DEF CloseRejects, Holder
<1>11. CASE HandlerDone \/ ProcessEnds \/ Crash
  <2>1. job' \in {job, [job EXCEPT !["daemon"] = Idle]}
    BY <1>11 DEF HandlerDone, ProcessEnds, Crash, Die
  <2>2. \A c \in Compactor : Past(c)' => Past(c)
    BY <2>1 DEF Idle, Past, Control, ControlTypes
  <2> QED
    BY <1>1, <1>11, <2>2, StepDrops
<1>12. ASSUME NEW c \in Beside, CompactBeside(c) PROVE QuietStreams'
  <2>1. pc = "down"
    BY <1>12 DEF CompactBeside
  <2>2. \A h \in Holder : Settled(h)
    BY <1>0, <2>1 DEF Control, LoopOK, Settled, StreamsOK
  <2> QED
    BY <1>0, <1>12, <2>2, StepHands, HandedQuiet DEF QuietStreams
<1>13. ASSUME NEW c \in Compactor, Compact(c) PROVE QuietStreams'
  <2>1. Past(c)
    BY <1>13 DEF Compact, NothingToDo, Rotate, Recreate, Aggregate, WriteSnapshot, CompactionThrows, At, Past
  <2>2. \A h \in Holder : Settled(h)
    BY <2>1 DEF Solo, QuietStreams, Past
  <2> QED
    BY <1>0, <1>13, <2>2, StepHands, HandedQuiet DEF QuietStreams
<1> QED
  BY <1>3, <1>4, <1>5, <1>6, <1>7, <1>8, <1>9, <1>10, <1>11, <1>12, <1>13
  DEF Next, Proceed, AppendEvents, WriteLog, Compactor

LEMMA NextSolo ==
  Control /\ (mishap = FALSE => Solo) /\ [Next]_vars => (mishap = FALSE => Solo)'
  BY NextMishap, NextOneJob, NextQuietStreams DEF Solo

(* The streams keep what they have to write, and will write it to the log. *)
Retain ==
  /\ \A h \in Holder : \E g \in Holder : streams[h].buffer \subseteq streams'[g].buffer
  /\ \A h \in Holder :
       streams'[h].file # NoFile /\ (h = "writer" \/ streams'[h].buffer # {}) => streams'[h].file = log'

LEMMA HandedRetain ==
  ASSUME StreamsOK, InOrder, UNCHANGED log,
         Handed \/ (Dropped /\ \A h \in Holder : streams[h].buffer = {})
  PROVE  Retain
<1>1. NoStream.file = NoFile
  BY DEF NoStream
<1>2. ASSUME NEW h \in Holder, streams'[h].file # NoFile, h = "writer" \/ streams'[h].buffer # {}
      PROVE  streams'[h].file = log'
  <2>1. CASE h = "writer"
    <3>1. streams'[h] = streams["writer"]
      BY <1>1, <1>2, <2>1, HandedFacts
    <3> QED
      BY <1>2, <2>1, <3>1 DEF InOrder
  <2>2. CASE h # "writer"
    <3>1. PICK g \in Holder : streams'[h] = streams[g]
      BY <1>1, <1>2, HandedFacts
    <3> QED
      BY <1>2, <2>2, <3>1 DEF InOrder
  <2> QED
    BY <2>1, <2>2
<1>3. \A h \in Holder : \E g \in Holder : streams[h].buffer \subseteq streams'[g].buffer
  BY HandedFacts
<1> QED
  BY <1>2, <1>3 DEF Retain

(* A step that touches no file and leaves every compaction that has a file *)
(* where it is.                                                            *)
Passing ==
  /\ UNCHANGED <<log, content, snapshots, acked>>
  /\ Retain
  /\ \A c \in Compactor :
       job'[c] = job[c] \/ (job[c].step \notin InFlight /\ job'[c].step \notin InFlight)

LEMMA PassingKeeps ==
  ASSUME InOrder, AllKept, Passing
  PROVE  InOrder' /\ AllKept'
<1>1. \A c \in Compactor :
        /\ job[c].step \in InFlight <=> job'[c].step \in InFlight
        /\ job[c].step \in InFlight => job'[c] = job[c]
  BY DEF Passing
<1>2. Latest' = Latest
  BY DEF Passing, Latest
<1>3. InOrder'
  BY <1>1 DEF InOrder, Passing, Retain, InFlight, Waiting
<1>4. AllKept'
  <2>1. \A e : Kept(e) => Kept(e)'
    BY <1>1, <1>2 DEF Kept, Passing, Retain, InFlight, Waiting
  <2> QED
    BY <2>1 DEF AllKept, Passing
<1> QED
  BY <1>3, <1>4

(* An acknowledged event is in a buffer first, ...                         *)
LEMMA BufferedKept ==
  ASSUME InOrder, AllKept, NEW events, acked' = acked \cup events,
         UNCHANGED <<log, content, snapshots, job>>,
         NEW h \in Holder, \A g \in Holder : g # h => streams'[g] = streams[g],
         streams'[h].file = NoFile \/ (h = "writer" /\ streams'[h].file = streams[h].file),
         streams'[h].buffer = streams[h].buffer \cup events
  PROVE  InOrder' /\ AllKept'
<1>1. \A g \in Holder : streams[g].buffer \subseteq streams'[g].buffer
  OBVIOUS
<1>2. Latest' = Latest
  BY DEF Latest
<1>3. \A e : Kept(e) => Kept(e)'
  BY <1>1, <1>2 DEF Kept
<1>4. \A e \in events : Kept(e)'
  BY DEF Kept
<1>5. InOrder'
  <2>1. \A g \in Holder :
          streams'[g].file # NoFile /\ (g = "writer" \/ streams'[g].buffer # {}) => streams'[g].file = log
    BY DEF InOrder
  <2> QED
    BY <2>1 DEF InOrder
<1> QED
  BY <1>3, <1>4, <1>5 DEF AllKept

(* ... then in the log, which is where the stream writes.                  *)
LEMMA WrittenKept ==
  ASSUME DiskOK, InOrder, AllKept, NEW h \in Holder, NEW lines \in SUBSET streams[h].buffer,
         streams[h].file # NoFile, streams[h].buffer # {},
         content' = [content EXCEPT ![streams[h].file] = @ \cup lines],
         UNCHANGED <<acked, log, snapshots, job>>,
         streams'[h].file = streams[h].file,
         streams'[h].buffer = streams[h].buffer \ lines,
         \A i \in Holder : i # h => streams'[i] = streams[i]
  PROVE  InOrder' /\ AllKept'
<1>0. streams[h].file = log /\ log # NoFile
  BY DEF InOrder
<1>1. \A f \in File : content'[f] = IF f = log THEN content[f] \cup lines ELSE content[f]
  <2>1. content \in [File -> SUBSET acked] /\ log \in File
    BY <1>0 DEF DiskOK, File
  <2> QED
    BY <1>0, <2>1
<1>2. log \in File /\ \A c \in Compactor : job[c].step \in Waiting => job[c].file \in File
  BY <1>0 DEF DiskOK, InFlight
<1>3. Latest' = Latest
  BY DEF Latest
<1>4. \A e : (\E i \in Holder : e \in streams[i].buffer)
             => e \in lines \/ \E i \in Holder : e \in streams'[i].buffer
  OBVIOUS
<1>5. ASSUME NEW e, Kept(e)
      PROVE  Kept(e)'
  <2>1. CASE \E i \in Holder : e \in streams[i].buffer
    <3>1. CASE e \in lines
      <4>1. log' # NoFile /\ e \in content'[log']
        BY <1>0, <1>1, <1>2, <3>1
      <4> QED
        BY <4>1 DEF Kept
    <3>2. CASE \E i \in Holder : e \in streams'[i].buffer
      BY <3>2 DEF Kept
    <3> QED
      BY <1>4, <2>1, <3>1, <3>2
  <2>2. CASE Latest[e] = 1
    BY <1>3, <2>2 DEF Kept
  <2>3. CASE log # NoFile /\ e \in content[log]
    BY <1>1, <1>2, <2>3 DEF Kept
  <2>4. ASSUME NEW c \in Compactor,
               \/ job[c].step \in Waiting /\ e \in content[job[c].file]
               \/ job[c].step = "write" /\ job[c].totals[e] = 1
        PROVE  Kept(e)'
    BY <1>1, <1>2, <2>4 DEF Kept
  <2> QED
    BY <1>5, <2>1, <2>2, <2>3, <2>4 DEF Kept
<1>6. InOrder'
  <2>1. \A i \in Holder : streams'[i].file = streams[i].file /\ streams'[i].buffer \subseteq streams[i].buffer
    OBVIOUS
  <2>2. \A i \in Holder :
          streams'[i].file # NoFile /\ (i = "writer" \/ streams'[i].buffer # {}) => streams'[i].file = log
    BY <2>1 DEF InOrder
  <2> QED
    BY <2>2 DEF InOrder
<1> QED
  BY <1>5, <1>6 DEF AllKept

(* A log that is new.                                                      *)
LEMMA CreatedKept ==
  ASSUME Control, DiskOK, InOrder, AllKept, log = NoFile,
         log' = Len(content) + 1, content' = Append(content, {}),
         UNCHANGED <<acked, snapshots>>, NEW c \in Compactor, Recreated(c), Retain,
         \A d \in Compactor : job'[d].step # "recreate"
  PROVE  InOrder' /\ AllKept'
<1>1. Len(content) \in Nat /\ log' \in Nat /\ log' # NoFile
  BY DaemonAssumption DEF DiskOK
<1>2. /\ \A f \in File : content'[f] = content[f]
      /\ \A f \in File : f < log'
  BY <1>1 DEF DiskOK, File
<1>3. \A d \in Compactor : job[d].step \in Waiting => job[d].file \in File
  BY DEF DiskOK, InFlight
<1>4. Latest' = Latest
  BY DEF Latest
<1>5. ASSUME NEW e, Kept(e)
      PROVE  Kept(e)'
  <2>1. CASE \E i \in Holder : e \in streams[i].buffer
    BY <2>1 DEF Kept, Retain
  <2>2. CASE Latest[e] = 1
    BY <1>4, <2>2 DEF Kept
  <2>3. ASSUME NEW d \in Compactor,
               \/ job[d].step \in Waiting /\ e \in content[job[d].file]
               \/ job[d].step = "write" /\ job[d].totals[e] = 1
        PROVE  Kept(e)'
    <3>1. \/ job'[d].step \in Waiting /\ e \in content'[job'[d].file]
          \/ job'[d].step = "write" /\ job'[d].totals[e] = 1
      BY <1>2, <1>3, <2>3, RecreatedJobs
    <3> QED
      BY <3>1 DEF Kept
  <2> QED
    BY <1>5, <2>1, <2>2, <2>3 DEF Kept
<1>7. InOrder'
  <2>2. \A s \in DOMAIN snapshots' : s < log'
    BY <1>2 DEF DiskOK
  <2>3. \A d \in Compactor :
          /\ job'[d].step \in Waiting => job'[d].file < log' /\ job[d].step \in Waiting
          /\ job'[d].step = "write" <=> job[d].step = "write"
          /\ job'[d].file = job[d].file
    BY <1>2, <1>3, RecreatedJobs
  <2> QED
    BY <2>2, <2>3 DEF InOrder, Retain
<1> QED
  BY <1>5, <1>7 DEF AllKept

(* No other compaction runs.                                               *)
Alone(c) == \A d \in Compactor : d # c => job[d].step = "idle"

(* The rotated log is the newest file there is.                            *)
LEMMA RotateKept ==
  ASSUME Control, DiskOK, InOrder, AllKept, NEW c \in Compactor, Alone(c),
         streams["writer"].file = NoFile, \A h \in Holder : Settled(h), Rotate(c)
  PROVE  InOrder' /\ AllKept'
<1>1. /\ log # NoFile /\ log' = NoFile /\ job[c].step = "stat"
      /\ UNCHANGED <<content, snapshots, acked, streams>>
  BY DEF Rotate, At, HasEvents, Elsewhere, writer
<1>2. /\ job'[c].step = "recreate" /\ job'[c].file = log
      /\ \A d \in Compactor : d # c => job'[d] = job[d] /\ job'[d].step = "idle"
  BY DEF Rotate, Alone, Control, ControlTypes, JobType
<1>3. \A s \in DOMAIN snapshots : snapshots[s] # Broken
  BY <1>1 DEF InOrder, Alone
<1>4. \A e : Kept(e) => Kept(e)'
  <2>1. Latest' = Latest
    BY <1>1 DEF Latest
  <2> QED
    BY <1>1, <1>2, <2>1 DEF Kept, Waiting
<1>5. InOrder'
  <2>1. \A h \in Holder : streams[h].buffer = {}
    BY DEF Settled
  <2> QED
    BY <1>1, <1>2, <1>3, <2>1 DEF InOrder, Waiting
<1> QED
  BY <1>1, <1>4, <1>5 DEF AllKept

(* While the newest snapshot is unreadable, what it will say is kept by    *)
(* the compaction that writes it.                                          *)
LEMMA AggregateKept ==
  ASSUME Control, DiskOK, Apart, InOrder, AllKept, NEW c \in Compactor, Alone(c), Aggregate(c)
  PROVE  InOrder' /\ AllKept'
<1> DEFINE own    == job[c].file
           totals == Plus(Latest, content[own])
<1>1. /\ job[c].step = "read"
      /\ UNCHANGED <<content, log, acked, streams>>
  BY DEF Aggregate, At, Elsewhere, writer
<1>2. /\ job'[c].step = "write" /\ job'[c].file = own /\ job'[c].totals = totals
      /\ \A d \in Compactor : d # c => job'[d] = job[d] /\ job'[d].step = "idle"
  BY DEF Aggregate, Alone, Control, ControlTypes, JobType
<1>3. /\ DOMAIN snapshots' = DOMAIN snapshots \cup {own}
      /\ snapshots'[own] = Broken
      /\ \A s \in DOMAIN snapshots : s # own => snapshots'[s] = snapshots[s]
  BY DEF Aggregate
<1>4. \A e \in Event : Latest[e] = 1 \/ e \in content[own] => totals[e] = 1
  <2>1. \A e \in Event : e \in content[own] => Latest[e] = 0
    BY <1>1, LatestBooked, LatestKnown DEF Booked, Waiting, Mark
  <2> QED
    BY <2>1, LatestKnown, PlusMark
<1>5. \A s \in DOMAIN snapshots : snapshots[s] # Broken /\ s < own
  BY <1>1 DEF InOrder, Alone, Waiting
<1>a. own \in Nat
  BY <1>1 DEF DiskOK, InFlight, Waiting, File
<1>b. acked \subseteq Event
  BY DaemonAssumption DEF DiskOK, Event
<1> HIDE DEF totals, own
<1>6. \A e \in Event : Kept(e) => Kept(e)'
  BY <1>1, <1>2, <1>4 DEF Kept, Waiting, Alone, own
<1>7. InOrder'
  <2>1. \A s \in DOMAIN snapshots' : s <= own
    BY <1>3, <1>5, <1>a DEF DiskOK, File
  <2>2. log' # NoFile => \A s \in DOMAIN snapshots' : s < log'
    BY <1>1, <1>3 DEF InOrder, Waiting, own
  <2> QED
    BY <1>1, <1>2, <1>3, <1>5, <2>1, <2>2 DEF InOrder, Waiting
<1> QED
  BY <1>1, <1>6, <1>7, <1>b DEF AllKept

(* The new snapshot is the newest and holds what it replaces.              *)
LEMMA SnapshotKept ==
  ASSUME Control, DiskOK, InOrder, AllKept, NEW c \in Compactor, Alone(c), WriteSnapshot(c)
  PROVE  InOrder' /\ AllKept'
<1> DEFINE own    == job[c].file
           totals == job[c].totals
<1>1. job[c].step = "write" /\ UNCHANGED <<content, log, acked, streams>>
  BY DEF WriteSnapshot, At, Elsewhere
<1>2. /\ job'[c].step = "idle"
      /\ \A d \in Compactor : d # c => job'[d] = job[d] /\ job'[d].step = "idle"
  BY EndJobFacts DEF WriteSnapshot, Idle, Alone
<1>3. own \in DOMAIN snapshots /\ \A s \in DOMAIN snapshots : s \in Nat /\ s <= own
  BY <1>1 DEF InOrder, DiskOK, File
<1>4. /\ DOMAIN snapshots' = DOMAIN snapshots
      /\ \A s \in DOMAIN snapshots : snapshots'[s] = IF s = own THEN totals ELSE snapshots[s]
  BY DEF WriteSnapshot
<1>5. totals # Broken
  <2>1. totals \in Mark
    BY <1>1 DEF DiskOK, InFlight
  <2>2. totals \in [Event -> Nat]
    BY <2>1 DEF Mark
  <2> QED
    BY <2>2, DaemonAssumption
<1>6. Latest' = totals
  <2>1. Max(DOMAIN snapshots') = own
    BY <1>3, <1>4, MaxIs
  <2> QED
    BY <1>3, <1>4, <1>5, <2>1 DEF Latest
<1>7. Latest = NoCounts
  <2>1. snapshots[own] = Broken
    BY <1>1 DEF InOrder
  <2>2. Max(DOMAIN snapshots) = own
    BY <1>3, MaxIs
  <2> QED
    BY <1>3, <2>1, <2>2 DEF Latest
<1>8. acked \subseteq Event
  BY DaemonAssumption DEF DiskOK, Event
<1> HIDE DEF totals, own
<1>9. \A e \in Event : Kept(e) => Kept(e)'
  BY <1>1, <1>2, <1>6, <1>7 DEF Kept, Alone, Waiting, NoCounts, totals
<1>10. InOrder'
  <2>1. \A s \in DOMAIN snapshots' : snapshots'[s] # Broken
    BY <1>1, <1>3, <1>4, <1>5 DEF InOrder, Alone, own
  <2> QED
    BY <1>1, <1>2, <1>4, <2>1 DEF InOrder, Waiting
<1> QED
  BY <1>1, <1>8, <1>9, <1>10 DEF AllKept

(* Every step without a mishap keeps every event.                          *)
LEMMA NextKept ==
  Control /\ DiskOK /\ Apart /\ Orderly /\ [Next]_vars => (mishap = FALSE => InOrder /\ AllKept)'
<1> SUFFICES ASSUME Control, DiskOK, Apart, Orderly, [Next]_vars, mishap' = FALSE
             PROVE  InOrder' /\ AllKept'
  OBVIOUS
<1> USE DEF loop, disk
<1>0. mishap = FALSE /\ StreamsOK /\ log \in Nat \cup {NoFile} /\ Len(content) \in Nat
  BY NextMishap DEF Control, DiskOK, File
<1>a. Solo /\ InOrder /\ AllKept
  BY <1>0 DEF Orderly
<1>b. \A c \in Compactor : job[c].step # "idle" => Alone(c)
  BY <1>a DEF Solo, OneJob, Alone
<1>c. ASSUME Handed \/ (Dropped /\ \A h \in Holder : streams[h].buffer = {}),
             UNCHANGED <<disk, acked>>,
             \A c \in Compactor :
               job'[c] = job[c] \/ (job[c].step \notin InFlight /\ job'[c].step \notin InFlight)
      PROVE  InOrder' /\ AllKept'
  BY <1>0, <1>a, <1>c, HandedRetain, PassingKeeps DEF Passing
<1>1. CASE StartDaemon \/ NoAppend \/ FirstAppend \/ NotDue \/ Wake \/ Finally \/ Return
            \/ Abort \/ Signal \/ UNCHANGED vars
  BY <1>1, <1>c, StepHands
  DEF StartDaemon, NoAppend, FirstAppend, NotDue, Wake, Finally, Return, Abort, Signal, vars
<1>2. ASSUME NEW events, OpenStream(events) PROVE InOrder' /\ AllKept'
  <2>1. PICK h \in Holder : \E new \in SUBSET Event :
           /\ streams'[h] = Opening(new) /\ acked' = acked \cup new
           /\ \A g \in Holder : g # h => streams'[g] = streams[g]
           /\ streams[h].state = "none"
    BY <1>2, OpenStreamSets
  <2>2. PICK new \in SUBSET Event :
           /\ streams'[h] = Opening(new) /\ acked' = acked \cup new
           /\ \A g \in Holder : g # h => streams'[g] = streams[g]
    BY <2>1
  <2>3. streams[h].buffer = {}
    BY <1>0, <2>1 DEF StreamsOK
  <2>4. UNCHANGED <<log, content, snapshots, job>>
    BY <1>2 DEF OpenStream
  <2>5. streams'[h].file = NoFile /\ streams'[h].buffer = streams[h].buffer \cup new
    BY <2>2, <2>3 DEF Opening
  <2> QED
    BY <1>a, <2>2, <2>4, <2>5, BufferedKept
<1>3. ASSUME NEW events, AppendMore(events) PROVE InOrder' /\ AllKept'
  <2>1. UNCHANGED <<log, content, snapshots, job>> /\ acked' = acked \cup events /\ "writer" \in Holder
    BY <1>3 DEF AppendMore, Holder
  <2>2. streams["writer"].state # "failed"
    BY <1>a, <2>1 DEF Solo, QuietStreams
  <2>3. /\ streams'["writer"].file = streams["writer"].file
        /\ streams'["writer"].buffer = streams["writer"].buffer \cup events
        /\ \A g \in Holder : g # "writer" => streams'[g] = streams[g]
    BY <1>3, <2>2, AppendMoreSets
  <2> QED
    BY <1>a, <2>1, <2>3, BufferedKept
<1>4. ASSUME NEW h \in Holder, StreamOpens(h) PROVE InOrder' /\ AllKept'
  <2>1. /\ streams'[h].file = log' /\ streams'[h].buffer = streams[h].buffer
        /\ \A g \in Holder : g # h => streams'[g] = streams[g]
    BY <1>0, <1>4, StreamOpensSets
  <2>2. log' \in {log} \/ log = NoFile
    BY <1>4 DEF StreamOpens
  <2>3. Retain
    <3>1. \A g \in Holder : streams[g].buffer \subseteq streams'[g].buffer
      BY <2>1
    <3>2. \A g \in Holder :
            streams'[g].file # NoFile /\ (g = "writer" \/ streams'[g].buffer # {}) => streams'[g].file = log'
      BY <1>a, <2>1, <2>2 DEF InOrder
    <3> QED
      BY <3>1, <3>2 DEF Retain
  <2>4. UNCHANGED <<acked, snapshots, job>> /\ "daemon" \in Compactor
    BY <1>4 DEF StreamOpens, Elsewhere, Compactor
  <2>5. CASE log = NoFile
    <3>1. log' = Len(content) + 1 /\ content' = Append(content, {}) /\ Recreated("daemon")
      BY <1>4, <2>4, <2>5 DEF StreamOpens, Recreated
    <3>2. \A d \in Compactor : job'[d].step # "recreate"
      <4>1. ~Settled(h)
        BY <1>4 DEF StreamOpens, Settled
      <4> QED
        BY <1>a, <2>4, <4>1 DEF Solo, QuietStreams
    <3> QED
      BY <1>a, <2>3, <2>4, <2>5, <3>1, <3>2, CreatedKept
  <2>6. CASE log # NoFile
    BY <1>4, <1>a, <2>3, <2>4, <2>6, PassingKeeps DEF StreamOpens, Passing
  <2> QED
    BY <2>5, <2>6
<1>5. ASSUME NEW h \in Holder, Flush(h) PROVE InOrder' /\ AllKept'
  <2>1. PICK lines \in SUBSET streams[h].buffer :
           /\ content' = [content EXCEPT ![streams[h].file] = @ \cup lines]
           /\ streams'[h].file = streams[h].file /\ streams[h].file # NoFile
           /\ streams[h].buffer # {}
           /\ streams'[h].buffer = streams[h].buffer \ lines
           /\ \A g \in Holder : g # h => streams'[g] = streams[g]
    BY <1>5, FlushSets
  <2>2. UNCHANGED <<acked, log, snapshots, job>>
    BY <1>5 DEF Flush, Elsewhere
  <2> QED
    BY <1>a, <2>1, <2>2, WrittenKept
<1>6. ASSUME NEW h \in Holder, StreamFails(h) PROVE FALSE
  BY <1>6 DEF StreamFails
<1>7. CASE CompactionDue \/ CloseWriter
  <2>1. \A c \in Compactor :
          job'[c] = job[c] \/ (job[c].step \notin InFlight /\ job'[c].step \notin InFlight)
    BY <1>7 DEF CompactionDue, CloseWriter, At, Step, Control, ControlTypes, LoopOK, JobType,
       InFlight, Waiting
  <2>2. UNCHANGED <<disk, acked>>
    BY <1>7 DEF CompactionDue, CloseWriter, Elsewhere
  <2> QED
    BY <1>7, <1>c, <2>1, <2>2, StepHands
<1>8. CASE CloseRejects
  BY <1>8, <1>a DEF CloseRejects, Solo, QuietStreams, Holder
<1>9. CASE HandlerDone \/ ProcessEnds \/ Crash
  <2>1. UNCHANGED <<disk, acked>>
    BY <1>9 DEF HandlerDone, ProcessEnds, Crash
  <2>2. CASE Die
    <3>1. job["daemon"] = Idle /\ Unwritten = {}
      BY <2>2 DEF Die
    <3>2. \A h \in Holder : streams[h].buffer = {}
      BY <3>1 DEF Unwritten
    <3>3. job' = [job EXCEPT !["daemon"] = Idle] /\ Dropped
      BY <2>2 DEF Die, Dropped
    <3>4. \A c \in Compactor : job'[c] = job[c]
      BY <3>1, <3>3 DEF Control, ControlTypes
    <3> QED
      BY <1>c, <2>1, <3>2, <3>3, <3>4
  <2>3. CASE HandlerDone /\ ~Die
    <3>1. Handed /\ job' = job
      BY <2>3 DEF HandlerDone, Handed, Holder
    <3> QED
      BY <1>c, <2>1, <3>1
  <2> QED
    BY <1>9, <2>2, <2>3 DEF ProcessEnds, Crash
<1>10. ASSUME NEW c \in Beside, CompactBeside(c) PROVE InOrder' /\ AllKept'
  <2>1. \A d \in Compactor :
          job'[d] = job[d] \/ (job[d].step \notin InFlight /\ job'[d].step \notin InFlight)
    BY <1>10 DEF CompactBeside, At, Step, Control, ControlTypes, JobType, InFlight, Waiting
  <2>2. UNCHANGED <<disk, acked>>
    BY <1>10 DEF CompactBeside, Elsewhere
  <2> QED
    BY <1>10, <1>c, <2>1, <2>2, StepHands
<1>11. ASSUME NEW c \in Compactor, Compact(c) PROVE InOrder' /\ AllKept'
  <2>0. job[c].step \in {"stat"} \cup InFlight
    BY <1>11 DEF Compact, NothingToDo, Rotate, Recreate, Aggregate, WriteSnapshot, CompactionThrows, At,
       InFlight, Waiting
  <2>a. Alone(c)
    BY <1>b, <2>0 DEF InFlight, Waiting
  <2>b. streams["writer"].file = NoFile /\ \A h \in Holder : Settled(h)
    <3>1. \A h \in Holder : Settled(h)
      BY <1>a, <2>0 DEF Solo, QuietStreams, InFlight, Waiting
    <3>2. pc = "compact" \/ pc = "down"
      BY <1>a, <2>0 DEF Solo, OneJob, Control, LoopOK, Compactor, InFlight, Waiting
    <3>3. streams["writer"].state = "none" /\ "writer" \in Holder
      BY <3>2 DEF Control, LoopOK, Holder
    <3> QED
      BY <1>0, <3>1, <3>3 DEF StreamsOK
  <2>1. CASE NothingToDo(c) \/ CompactionThrows(c)
    <3>1. EndJob(c, TRUE) \/ EndJob(c, FALSE)
      BY <2>1 DEF NothingToDo, CompactionThrows
    <3>2. job[c].step = "stat"
      BY <2>1 DEF NothingToDo, CompactionThrows, At
    <3>3. job'[c] = Idle /\ \A d \in Compactor : d # c => job'[d] = job[d]
      BY <3>1, EndJobFacts
    <3>5. \A d \in Compactor :
            job'[d] = job[d] \/ (job[d].step \notin InFlight /\ job'[d].step \notin InFlight)
      BY <3>2, <3>3 DEF InFlight, Waiting, Idle
    <3>6. UNCHANGED <<disk, acked>>
      BY <2>1 DEF NothingToDo, CompactionThrows, Elsewhere
    <3> QED
      BY <1>11, <1>c, <3>5, <3>6, StepHands
  <2>2. CASE Recreate(c)
    <3>1. Recreated(c) /\ UNCHANGED <<acked, snapshots, streams>>
      BY <2>2 DEF Recreate, Recreated, At, Step, Elsewhere, writer
    <3>2. log = NoFile
      BY <2>2, <1>a DEF Recreate, At, InOrder
    <3>3. log' = Len(content) + 1 /\ content' = Append(content, {})
      BY <2>2, <3>2 DEF Recreate
    <3>4. \A d \in Compactor : job'[d].step # "recreate"
      BY <2>2, <2>a DEF Recreate, Step, Alone, Control, ControlTypes, JobType
    <3>5. Retain
      BY <1>a, <3>1, <3>2 DEF Retain, InOrder
    <3> QED
      BY <1>a, <3>1, <3>2, <3>3, <3>4, <3>5, CreatedKept
  <2>3. CASE Rotate(c)
    BY <1>a, <2>a, <2>b, <2>3, RotateKept
  <2> QED
    BY <1>11, <1>a, <2>a, <2>1, <2>2, <2>3, AggregateKept, SnapshotKept DEF Compact
<1> QED
  BY <1>1, <1>2, <1>3, <1>4, <1>5, <1>6, <1>7, <1>8, <1>9, <1>10, <1>11
  DEF Next, Proceed, AppendEvents, WriteLog, Compactor

-----------------------------------------------------------------------------
(* What the history, the lock and every compaction under way are sure of.  *)
DaemonIInv == Control /\ DiskOK /\ Apart /\ Orderly

(* The initial state satisfies it.                                         *)
LEMMA InitDaemonIInv == Init => DaemonIInv
<1> SUFFICES ASSUME Init PROVE DaemonIInv
  OBVIOUS
<1> USE DaemonAssumption DEF Init
<1>1. job = [c \in Compactor |-> Idle]
  OBVIOUS
<1>2. \A c \in Compactor : job[c].step = "idle"
  BY DEF Idle
<1>8. StreamsOK /\ \A h \in Holder : streams[h].state = "none" /\ streams[h].file = NoFile
                                     /\ streams[h].buffer = {}
  BY DEF StreamsOK, StreamType, NoStream
<1>3. ControlTypes
  <2>1. job \in [Compactor -> JobType]
    BY DEF Idle, JobType
  <2> QED
    BY <2>1 DEF ControlTypes
<1>9. LoopOK /\ LockHeld
  <2>1. "daemon" \in Compactor /\ Beside \subseteq Compactor
    BY DEF Compactor
  <2>2. Holder = {"writer", "handler", "loop"}
    BY DEF Holder
  <2> QED
    BY <1>2, <1>8, <2>1, <2>2 DEF LoopOK, LockHeld
<1>4. DiskOK
  <2>1. content \in Seq(SUBSET acked) /\ DOMAIN snapshots = {}
    OBVIOUS
  <2>2. acked = 1..0 /\ 0 \in 0..MaxEvents
    OBVIOUS
  <2> QED
    BY <1>2, <1>8, <2>1, <2>2 DEF DiskOK, InFlight, Waiting
<1>5. DOMAIN snapshots = {} /\ File = {}
  BY DEF File
<1>6. Apart
  BY <1>2, <1>5, <1>8 DEF Apart, FilesApart, BuffersApart, OneOwner, CountedBooked, Waiting
<1>7. Solo /\ InOrder /\ AllKept
  BY <1>2, <1>5, <1>8 DEF Solo, OneJob, QuietStreams, InOrder, AllKept, Compactor, Waiting
<1> QED
  BY <1>3, <1>4, <1>6, <1>7, <1>8, <1>9 DEF DaemonIInv, Control, Orderly

(* Every step keeps it.                                                    *)
LEMMA NextDaemonIInv == DaemonIInv /\ [Next]_vars => DaemonIInv'
<1> SUFFICES ASSUME DaemonIInv, [Next]_vars PROVE DaemonIInv'
  OBVIOUS
<1>1. log \in Nat \cup {NoFile} /\ Len(content) \in Nat
  BY DEF DaemonIInv, DiskOK, File
<1>2. Control'
  BY <1>1, NextControl, AggregateFits DEF DaemonIInv
<1>3. DiskOK' /\ Apart'
  BY NextDisk DEF DaemonIInv
<1>4. (mishap = FALSE => Solo)'
  BY NextSolo DEF DaemonIInv, Orderly
<1>5. (mishap = FALSE => InOrder /\ AllKept)'
  BY NextKept DEF DaemonIInv
<1> QED
  BY <1>2, <1>3, <1>4, <1>5 DEF DaemonIInv, Orderly

(* The inductive invariant of the daemon and the compactions beside it.    *)
THEOREM DaemonInvariant == Spec => []DaemonIInv
  BY InitDaemonIInv, NextDaemonIInv, PTL DEF Spec

(* The history is exact: no event of audit.jsonl ever counts twice,        *)
(* whatever crashes, fails or runs beside the daemon, and none that append *)
(* has acknowledged is lost, from a buffer or a file, unless a stream      *)
(* failed, the process ended before its streams had written, or a          *)
(* compaction was cut short or met another one or an open stream.          *)
THEOREM DaemonHistoryExact == Spec => []HistoryExact
<1>1. DaemonIInv => HistoryExact
  <2> SUFFICES ASSUME DaemonIInv PROVE HistoryExact
    OBVIOUS
  <2>1. NeverCountedTwice
    BY CountedIs DEF DaemonIInv
  <2>2. ASSUME mishap = FALSE, NEW e \in acked PROVE e \in Unwritten \/ InHistory(e)
    <3>1. Kept(e)
      BY <2>2 DEF DaemonIInv, Orderly, AllKept
    <3>2. e \in Event
      BY DaemonAssumption DEF DaemonIInv, DiskOK, Event
    <3>3. CASE Latest[e] = 1 \/ (log # NoFile /\ e \in content[log])
      BY <3>2, <3>3, CountedIs DEF DaemonIInv, InHistory
    <3>4. CASE \E c \in Compactor :
                 \/ job[c].step \in Waiting /\ e \in content[job[c].file]
                 \/ job[c].step = "write" /\ job[c].totals[e] = 1
      BY <3>4 DEF InHistory, Underway, At, Waiting
    <3>5. CASE \E h \in Holder : e \in streams[h].buffer
      BY <3>5 DEF Unwritten
    <3> QED
      BY <3>1, <3>3, <3>4, <3>5 DEF Kept
  <2> QED
    BY <2>1, <2>2 DEF HistoryExact, HistoryComplete, DaemonIInv, Control, ControlTypes
<1> QED
  BY <1>1, DaemonInvariant, PTL

(* startDaemon keeps its lock while a task runs or its append waits.       *)
THEOREM DaemonLockCoversRun == Spec => []LockCoversRun
<1>1. DaemonIInv => LockCoversRun
  BY DEF DaemonIInv, Control, LockHeld, LockCoversRun
<1> QED
  BY <1>1, DaemonInvariant, PTL

-----------------------------------------------------------------------------
(* The lock file.  What a single acquisition under way knows at each of    *)
(* its system calls.                                                       *)
OneAcquires == \A d, e \in Daemon : at[d] \in Acquiring /\ at[e] \in Acquiring => d = e

NoneHolds == Holders = {}

ProberKnows ==
  \A d \in Daemon : at[d] = "probing" => \A h \in Holders : seen[d] = h

ReclaimerAlone ==
  \A d \in Daemon : at[d] \in {"unlinking", "recreating", "writing"} => NoneHolds

WriterLinked == \A d \in Daemon : at[d] = "writing" => file = d

Quiet == OneAcquires /\ ProberKnows /\ ReclaimerAlone /\ WriterLinked

LockIInv == TypeOK /\ HolderMarked /\ (~raced => Quiet)

(* The initial state satisfies the invariant.                              *)
LEMMA InitLockIInv == LockInit => LockIInv
<1> SUFFICES ASSUME LockInit PROVE LockIInv
  OBVIOUS
<1> USE DEF LockInit, Process
<1>1. TypeOK
  BY DEF TypeOK
<1>2. Holders = {}
  BY DEF Holders, Releasing
<1>3. Quiet
  BY <1>2 DEF Quiet, OneAcquires, ProberKnows, ReclaimerAlone, WriterLinked, NoneHolds, Acquiring
<1> QED
  BY <1>1, <1>2, <1>3 DEF LockIInv, HolderMarked

(* Every step keeps the types, and probes only a pid that was read.        *)
LEMMA NextLockTypeOK == TypeOK /\ [LockNext]_lockVars => TypeOK'
<1> SUFFICES ASSUME TypeOK, [LockNext]_lockVars PROVE TypeOK'
  OBVIOUS
<1> USE DEF TypeOK, Goto, Process, Acquiring, Releasing
<1>1. ASSUME NEW p \in Process, Start(p) \/ Exit(p) PROVE TypeOK'
  BY <1>1 DEF Start, Exit
<1>2. ASSUME NEW d \in Daemon, Create(d) PROVE TypeOK'
  BY <1>2 DEF Create
<1>3. ASSUME NEW d \in Daemon, WritePid(d) PROVE TypeOK'
  BY <1>3 DEF WritePid
<1>4. ASSUME NEW d \in Daemon, ReadPid(d) PROVE TypeOK'
  BY <1>4 DEF ReadPid
<1>5. ASSUME NEW d \in Daemon, ProbePid(d) PROVE TypeOK'
  BY <1>5 DEF ProbePid
<1>6. ASSUME NEW d \in Daemon, UnlinkStale(d) PROVE TypeOK'
  BY <1>6 DEF UnlinkStale
<1>7. ASSUME NEW d \in Daemon, CreateAgain(d) PROVE TypeOK'
  BY <1>7 DEF CreateAgain
<1>8. ASSUME NEW d \in Daemon, BeginRelease(d) \/ Release(d) \/ Kill(d) PROVE TypeOK'
  BY <1>8 DEF BeginRelease, Release, CheckOwnPid, RemoveOwn, Kill
<1>9. CASE UNCHANGED lockVars
  BY <1>9 DEF lockVars
<1> QED
  BY <1>1, <1>2, <1>3, <1>4, <1>5, <1>6, <1>7, <1>8, <1>9 DEF LockNext, Acquire

(* Every step keeps the holder's mark and what acquirers know.             *)
LEMMA NextQuiet == LockIInv /\ [LockNext]_lockVars => (HolderMarked /\ (~raced => Quiet))'
<1> SUFFICES ASSUME LockIInv, [LockNext]_lockVars, ~raced'
             PROVE  (\A d \in Holders : file = d /\ d \in written)' /\ Quiet'
  BY DEF HolderMarked
<1>0. ~raced /\ TypeOK /\ TypeOK'
  <2>1. TypeOK /\ TypeOK'
    BY NextLockTypeOK DEF LockIInv
  <2>2. ASSUME NEW d \in Daemon, Acquire(d) \/ BeginRelease(d) \/ Release(d) \/ Kill(d)
        PROVE raced' = raced
    BY <2>2 DEF Acquire, Create, WritePid, ReadPid, ProbePid, UnlinkStale, CreateAgain,
       BeginRelease, Release, CheckOwnPid, RemoveOwn, Kill
  <2>3. ~raced
    <3>1. ASSUME NEW p \in Process, Start(p) PROVE raced => raced'
      BY <3>1 DEF Start
    <3>2. ASSUME NEW p \in Process, Exit(p) PROVE raced' = raced
      BY <3>2 DEF Exit
    <3> QED
      BY <2>2, <3>1, <3>2 DEF LockNext, lockVars
  <2> QED
    BY <2>1, <2>3
<1>a. Quiet /\ \A d \in Holders : file = d /\ d \in written
  BY <1>0 DEF LockIInv, HolderMarked
<1> USE <1>0, <1>a DEF TypeOK, Goto, Process, Acquiring, Releasing, Holders, Quiet,
        OneAcquires, ProberKnows, ReclaimerAlone, WriterLinked, NoneHolds
<1>1. ASSUME NEW p \in Process, Start(p) \/ Exit(p)
      PROVE (\A d \in Holders : file = d /\ d \in written)' /\ Quiet'
  BY <1>1, ProcessAssumption DEF Start, Exit
<1>2. ASSUME NEW d \in Daemon, Create(d)
      PROVE (\A e \in Holders : file = e /\ e \in written)' /\ Quiet'
  BY <1>2, ProcessAssumption DEF Create
<1>3. ASSUME NEW d \in Daemon, WritePid(d)
      PROVE (\A e \in Holders : file = e /\ e \in written)' /\ Quiet'
  BY <1>3 DEF WritePid
<1>4. ASSUME NEW d \in Daemon, ReadPid(d)
      PROVE (\A e \in Holders : file = e /\ e \in written)' /\ Quiet'
  BY <1>4 DEF ReadPid
<1>5. ASSUME NEW d \in Daemon, ProbePid(d)
      PROVE (\A e \in Holders : file = e /\ e \in written)' /\ Quiet'
  <2>1. \A h \in Holders : PidAlive(PidOf[h])
    BY DEF PidAlive, Alive
  <2> QED
    BY <1>5, <2>1 DEF ProbePid
<1>6. ASSUME NEW d \in Daemon, UnlinkStale(d)
      PROVE (\A e \in Holders : file = e /\ e \in written)' /\ Quiet'
  BY <1>6 DEF UnlinkStale
<1>7. ASSUME NEW d \in Daemon, CreateAgain(d)
      PROVE (\A e \in Holders : file = e /\ e \in written)' /\ Quiet'
  BY <1>7 DEF CreateAgain
<1>8. ASSUME NEW d \in Daemon, BeginRelease(d) \/ CheckOwnPid(d) \/ Kill(d)
      PROVE (\A e \in Holders : file = e /\ e \in written)' /\ Quiet'
  BY <1>8 DEF BeginRelease, CheckOwnPid, Kill
<1>9. ASSUME NEW d \in Daemon, RemoveOwn(d)
      PROVE (\A e \in Holders : file = e /\ e \in written)' /\ Quiet'
  BY <1>9 DEF RemoveOwn
<1>10. CASE UNCHANGED lockVars
  BY <1>10 DEF lockVars
<1> QED
  BY <1>1, <1>2, <1>3, <1>4, <1>5, <1>6, <1>7, <1>8, <1>9, <1>10 DEF LockNext, Acquire, Release

(* The strengthened invariant of the lock protocol.                        *)
THEOREM LockInvariant == LockSpec => []LockIInv
<1>1. LockInit => LockIInv
  BY InitLockIInv
<1>2. LockIInv /\ [LockNext]_lockVars => LockIInv'
  BY NextLockTypeOK, NextQuiet DEF LockIInv
<1> QED
  BY <1>1, <1>2, PTL DEF LockSpec

(* Types of the lock protocol.                                             *)
THEOREM LockTypeCorrect == LockSpec => []TypeOK
<1>1. LockIInv => TypeOK
  BY DEF LockIInv
<1> QED
  BY <1>1, LockInvariant, PTL

(* A lock that is held is on disk with its holder's pid, unless two        *)
(* acquisitions have overlapped.                                           *)
THEOREM LockHolderMarked == LockSpec => []HolderMarked
<1>1. LockIInv => HolderMarked
  BY DEF LockIInv
<1> QED
  BY <1>1, LockInvariant, PTL

(* acquireDaemonLock excludes, unless two acquisitions have overlapped:    *)
(* crashes at any system call and reused pids do not break it.             *)
THEOREM LockSequentialExclusion == LockSpec => []SequentialExclusion
<1>1. HolderMarked => SequentialExclusion
  <2> SUFFICES ASSUME HolderMarked, ~raced PROVE Cardinality(Holders) <= 1
    BY DEF SequentialExclusion
  <2>1. Holders \subseteq {file}
    BY DEF HolderMarked, Holders
  <2>2. IsFiniteSet({file}) /\ Cardinality({file}) = 1
    BY FS_Singleton
  <2>3. Cardinality(Holders) <= Cardinality({file})
    BY <2>1, <2>2, FS_Subset
  <2> QED
    BY <2>2, <2>3
<1> QED
  BY <1>1, LockHolderMarked, PTL

(* A release removes no lock but its own.                                  *)
THEOREM LockReleaseOwnOnly == LockSpec => ReleaseOwnOnly
<1>1. LockIInv => \A d \in Daemon : ~raced /\ at[d] = "removing" => file = d
  BY DEF LockIInv, HolderMarked, Holders, Releasing
<1>2. LockIInv /\ [LockNext]_lockVars =>
        [\A d \in Daemon : ~raced /\ at[d] = "removing" /\ at'[d] = "done" => file = d]_lockVars
  BY <1>1
<1> QED
  BY <1>2, LockInvariant, PTL DEF LockSpec, ReleaseOwnOnly

-----------------------------------------------------------------------------
(* Who may have left the file that is linked: its creator is between the   *)
(* open and the unlink, or was killed there, and wrote its pid before it   *)
(* held the lock.  Overlapping acquisitions change nothing about that.     *)
FileTended ==
  /\ \A d \in Daemon : at[d] \in {"holding"} \cup Releasing => d \in written
  /\ file # NoLock => at[file] \in {"writing", "holding", "killed"} \cup Releasing

LEMMA NextFileTended == TypeOK /\ FileTended /\ [LockNext]_lockVars => FileTended'
<1> SUFFICES ASSUME TypeOK, FileTended, [LockNext]_lockVars PROVE FileTended'
  OBVIOUS
<1> USE ProcessAssumption DEF TypeOK, FileTended, Goto, Process, Acquiring, Releasing
<1>1. ASSUME NEW p \in Process, Start(p) \/ Exit(p) PROVE FileTended'
  BY <1>1 DEF Start, Exit
<1>2. ASSUME NEW d \in Daemon, Create(d) \/ CreateAgain(d) PROVE FileTended'
  BY <1>2 DEF Create, CreateAgain
<1>3. ASSUME NEW d \in Daemon, WritePid(d) PROVE FileTended'
  BY <1>3 DEF WritePid
<1>4. ASSUME NEW d \in Daemon, ReadPid(d) \/ ProbePid(d) PROVE FileTended'
  BY <1>4 DEF ReadPid, ProbePid
<1>5. ASSUME NEW d \in Daemon, UnlinkStale(d) \/ RemoveOwn(d) PROVE FileTended'
  BY <1>5 DEF UnlinkStale, RemoveOwn
<1>6. ASSUME NEW d \in Daemon, BeginRelease(d) \/ Kill(d) PROVE FileTended'
  BY <1>6 DEF BeginRelease, Kill
<1>7. ASSUME NEW d \in Daemon, CheckOwnPid(d) PROVE FileTended'
  BY <1>7 DEF CheckOwnPid
<1>8. CASE UNCHANGED lockVars
  BY <1>8 DEF lockVars
<1> QED
  BY <1>1, <1>2, <1>3, <1>4, <1>5, <1>6, <1>7, <1>8 DEF LockNext, Acquire, Release

(* Only a crash leaves a lock file behind: no refusal, no release and no   *)
(* race of acquisitions does.                                              *)
THEOREM LockNoLitter == LockSpec => []NoLitter
<1>1. LockInit => FileTended
  BY DEF LockInit, FileTended, Process, Releasing
<1>2. TypeOK /\ FileTended => NoLitter
  BY DEF TypeOK, FileTended, NoLitter, Alive, Process, Acquiring, Releasing
<1> QED
  BY <1>1, <1>2, NextFileTended, LockTypeCorrect, PTL DEF LockSpec

=============================================================================
