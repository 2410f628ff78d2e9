------------------------------ MODULE BucketScan ------------------------------
(***************************************************************************)
(* src/scanner/multipart.ts, src/versioning/scanner.ts and                 *)
(* src/rollback/rehydrator.ts: listings of a bucket page by page while its *)
(* other clients go on writing, and what is done with what was listed:     *)
(* parts are counted, versions and markers are planned and deleted, delete *)
(* markers are popped.  An entry is an upload, a data version or a delete  *)
(* marker; ids grow with time.                                             *)
(***************************************************************************)
EXTENDS Naturals, Sequences, FiniteSets, FiniteSetsExt

CONSTANTS Key,        \* numbers from 1 on, in the order of S3
          Contents,   \* what the bucket may hold at first
          NewestOld,  \* ids up to this one are past the age threshold
          PageSize, PopSize,
          MaxScanWrites   \* bound on what other clients do

\* S3 gives an id once
ASSUME ScanAssumption ==
  /\ Key \subseteq Nat \ {0} /\ NewestOld \in Nat /\ PageSize \in Nat \ {0}
  /\ \A C \in Contents :
       /\ IsFiniteSet(C) /\ C \subseteq [key : Key, id : 1..NewestOld, data : BOOLEAN]
       /\ \A e, f \in C : e.key = f.key /\ e.id = f.id => e = f

Kinds == {"uploads", "versions", "rehydrate"}

VARIABLES entries,   \* of the bucket
          kind,      \* which of the three is run
          gives,     \* the provider answers with next markers
          scanning,  \* "listing", "working", "done", "failed"
          marker,    \* the dual marker of the next request
          pages,     \* what was listed, page by page
          todo,      \* uploads to count, entries to delete
          done,      \* the uploads counted, the entries that were deleted
          scanWrites,
          stable,    \* history: in the bucket since the first request
          uncovered  \* history: keys of which a version was deleted by id

scanVars == <<entries, kind, gives, scanning, marker, pages, todo, done,
              scanWrites, stable, uncovered>>

Start == [key |-> 0, id |-> 0, data |-> FALSE]
Old(e) == e.id <= NewestOld
InAge(e, olderThan) == olderThan => Old(e)
OfKey(k) == {e \in entries : e.key = k}
Newest(S) == CHOOSE e \in S : \A f \in S : f.id <= e.id
Latest(e) == \A f \in OfKey(e.key) : f.id <= e.id

ScanInit ==
  /\ kind \in Kinds /\ gives \in BOOLEAN /\ scanning = "listing" /\ marker = Start
  /\ entries \in Contents /\ (kind = "uploads" => \A e \in entries : e.data)
  /\ pages = << >> /\ todo = {} /\ done = {} /\ scanWrites = 0
  /\ stable = entries /\ uncovered = {}

-----------------------------------------------------------------------------
(* S3 lists by key; uploads of a key oldest first, versions newest first.  *)
Before(e, f) ==
  \/ e.key < f.key
  \/ e.key = f.key /\ IF kind = "uploads" THEN e.id < f.id ELSE e.id > f.id

Last(S) == CHOOSE e \in S : \A f \in S \ {e} : Before(f, e)

Ahead == {e \in entries : marker = Start \/ Before(marker, e)}
Page == {e \in Ahead : Cardinality({f \in Ahead : Before(f, e)}) < PageSize}

\* slip: the marker of the id is not sent
NextMarkerOfKey(page) == [Last(page) EXCEPT !.id = IF kind = "uploads" THEN NewestOld + MaxScanWrites ELSE 0]

(* What stands in for markers the provider does not give: versions and     *)
(* delete markers are two lists, and the last of each is compared; at the  *)
(* same key the scanner takes the delete marker, the rehydrator the older. *)
NextMarker(page) ==
  LET versions == {e \in page : e.data}
      markers == page \ versions
  IN IF gives \/ kind # "versions" \/ versions = {} \/ markers = {}
       THEN Last(page)
       ELSE IF Last(versions).key > Last(markers).key THEN Last(versions) ELSE Last(markers)

Flagged(page) == {[entry |-> e, latest |-> Latest(e)] : e \in page}

AllFlagged(all) == UNION {all[i] : i \in DOMAIN all}

\* slip: data versions are taken whether they are the current ones or not
PlannedAll(all, olderThan) ==
  {f.entry : f \in {g \in AllFlagged(all) :
                      IF g.entry.data THEN InAge(g.entry, olderThan) ELSE g.latest}}

(* scanObjectVersions: old data versions that are not the latest, and all  *)
(* delete markers that are.                                                *)
Planned(all, olderThan) ==
  {f.entry : f \in {g \in AllFlagged(all) :
                      IF g.entry.data THEN ~g.latest /\ InAge(g.entry, olderThan) ELSE g.latest}}

(* rehydrateSoftDeletes: the latest delete markers, the old ones of them.  *)
Tombstones(all, olderThan) ==
  {f.entry : f \in {g \in AllFlagged(all) :
                      ~g.entry.data /\ g.latest /\ InAge(g.entry, olderThan)}}

(* scanMultipartUploads: the old uploads.                                  *)
Candidates(all, olderThan) ==
  {f.entry : f \in {g \in AllFlagged(all) : InAge(g.entry, olderThan)}}

(* The age is one option of the run; without it, or with 0 days for the    *)
(* two scanners, even what was written during the scan is old enough.      *)
Work(all) ==
  {CASE kind = "uploads" -> Candidates(all, olderThan)
     [] kind = "versions" -> Planned(all, olderThan)
     [] kind = "rehydrate" -> Tombstones(all, olderThan) : olderThan \in BOOLEAN}

(* One request and what is kept of its answer; withRetry repeats it until  *)
(* it is answered, or the command fails.                                   *)
List ==
  /\ scanning = "listing"
  /\ pages' = Append(pages, Flagged(Page))
  /\ IF Page = Ahead
       THEN scanning' = "working" /\ todo' \in Work(pages') /\ UNCHANGED marker
       ELSE marker' = NextMarker(Page) /\ UNCHANGED <<scanning, todo>>
  /\ UNCHANGED <<entries, kind, gives, done, scanWrites, stable, uncovered>>

(* getUploadPartsInfo, for several uploads at a time; an upload that is    *)
(* gone has no parts, and stays in the report.                             *)
CountParts ==
  /\ scanning = "working" /\ kind = "uploads"
  /\ \E e \in todo :
       /\ todo' = todo \ {e}
       /\ done' = done \union {[entry |-> e, bytes |-> IF e \in entries THEN 1 ELSE 0]}
  /\ UNCHANGED <<entries, kind, gives, scanning, marker, pages, scanWrites, stable, uncovered>>

Gone(batch) ==
  /\ entries' = entries \ batch
  /\ done' = done \union batch
  /\ uncovered' = uncovered \union {e.key : e \in {f \in batch : ~f.data}}

(* The plan is applied: each entry is deleted by its id, or is not.        *)
DeletePlanned ==
  /\ scanning = "working" /\ kind = "versions"
  /\ \E e \in todo :
       /\ todo' = todo \ {e}
       /\ Gone({e}) \/ UNCHANGED <<entries, done, uncovered>>
  /\ UNCHANGED <<kind, gives, scanning, marker, pages, scanWrites, stable>>

Batch == {e \in todo : Cardinality({f \in todo : Before(f, e)}) < PopSize}

(* A batch of markers is deleted by id; those that Errors names stay.      *)
PopMarkers ==
  /\ scanning = "working" /\ kind = "rehydrate" /\ todo # {}
  /\ todo' = todo \ Batch
  /\ \E popped \in SUBSET Batch : Gone(popped)
  /\ UNCHANGED <<kind, gives, scanning, marker, pages, scanWrites, stable>>

(* Everything is done, or a request has failed for good: what was done     *)
(* before is then not reported.  A dry run ends here too.                  *)
Finish ==
  /\ scanning \in {"listing", "working"}
  /\ \/ scanning = "working" /\ todo = {} /\ scanning' = "done"
     \/ scanning' = "failed"
     \/ scanning = "working" /\ kind = "rehydrate" /\ done = {} /\ scanning' = "done"
  /\ UNCHANGED <<entries, kind, gives, marker, pages, todo, done, scanWrites, stable, uncovered>>

-----------------------------------------------------------------------------
Writes ==
  /\ scanning \in {"listing", "working"}
  /\ scanWrites < MaxScanWrites /\ scanWrites' = scanWrites + 1

(* A client starts an upload, puts an object, or deletes one without an id *)
Put ==
  /\ Writes
  /\ \E k \in Key, data \in BOOLEAN :
       /\ kind = "uploads" => data
       /\ entries' = entries \union {[key |-> k, id |-> NewestOld + scanWrites', data |-> data]}
  /\ UNCHANGED <<kind, gives, scanning, marker, pages, todo, done, stable, uncovered>>

(* A client completes or aborts an upload, or deletes a version by its id. *)
RemoveEntry ==
  /\ Writes
  /\ \E e \in entries : entries' = entries \ {e} /\ stable' = stable \ {e}
                        /\ uncovered' = uncovered \union {e.key}
  /\ UNCHANGED <<kind, gives, scanning, marker, pages, todo, done>>

Guardian == List \/ CountParts \/ DeletePlanned \/ PopMarkers \/ Finish
ScanNext == Guardian \/ Put \/ RemoveEntry
ScanSpec == ScanInit /\ [][ScanNext]_scanVars

-----------------------------------------------------------------------------
(* Whatever other clients do meanwhile, an entry that is in the bucket     *)
(* during all of the listing is listed, and it is listed once where the    *)
(* provider gives markers; a scan of uploads reports every old one.        *)
ListingExact ==
  /\ scanning = "working" /\ todo = {} /\ kind = "uploads" =>
       \A e \in stable : Old(e) => \E r \in done : r.entry = e
  /\ scanning = "working" => stable \subseteq {f.entry : f \in AllFlagged(pages)} \union done
  /\ gives => \A i, j \in DOMAIN pages :
       i # j => \A f \in pages[i], g \in pages[j] : f.entry # g.entry

Shows(k) == IF OfKey(k) = {} THEN Start ELSE Newest(OfKey(k))

(* Neither a plan applied late nor a rehydration takes from a key what it  *)
(* shows, unless that is a delete marker, or the key had a version deleted *)
(* by id under it since the listing: what is written after the listing     *)
(* stays, and so does what was current.                                    *)
OnlyMarkersUncovered ==
  [][Guardian => \A k \in Key : Shows(k)' = Shows(k) \/ ~Shows(k).data \/ k \in uncovered]_scanVars

(* The delete markers in a plan are expired ones, of keys without data     *)
(* versions.                                                               *)
MarkersHaveNoData ==
  kind = "versions" /\ scanning = "working" =>
    \A m \in todo : ~m.data => \A f \in AllFlagged(pages) : f.entry.key = m.key => ~f.entry.data
=============================================================================
