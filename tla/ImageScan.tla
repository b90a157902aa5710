----------------------------- MODULE ImageScan -----------------------------
(***************************************************************************)
(* tools/scan-images.sh: scan the container images of one build with Grype *)
(* and sort them into clean-images.txt, high-images.txt and                *)
(* critical-images.txt, several images at a time.                          *)
(*                                                                         *)
(* The main shell runs the for loop of scan_images; every image it starts  *)
(* is a background job, scan_image_and_record_failure, that runs           *)
(* scan_image in a subshell and waits for it.  The jobs interleave with    *)
(* each other and with the main shell; they share the list files and the   *)
(* Grype vulnerability database, which Grype does not lock.                *)
(***************************************************************************)
EXTENDS Naturals, FiniteSets

CONSTANTS
  NumImages,      \* images in the list; image 1 is the largest
  MatchSets,      \* the sets of matches Grype may report for an image
  Parallelisms,   \* the values SCAN_PARALLELISM may have
  MaxUpstream     \* bound: vulnerability databases published during a run

Image == 1..NumImages

(* A vulnerability with a fix, as far as the sorting looks at it. *)
Match == [severity : {"low", "high", "critical"}, kernel : BOOLEAN]

ASSUME ScanAssumption ==
  /\ NumImages \in Nat
  /\ MatchSets \subseteq SUBSET Match
  /\ Parallelisms \subseteq Nat \ {0}
  /\ MaxUpstream \in Nat

Lists == {"clean", "high", "critical"}
File  == Lists \cup {"failed"}

VARIABLES
  scan_parallelism, \* SCAN_PARALLELISM
  matches,          \* what Grype would find in each image
  pc,               \* where the main shell is
  listed,           \* the images get_images names: all, or none
  next,             \* the image at the head of the for loop
  stage,            \* where the job of each image is
  lines,            \* how often each file of image-scan-output names an image
  db,               \* version of the installed vulnerability database
  upstream,         \* newest published version
  auto_update,      \* GRYPE_DB_AUTO_UPDATE
  late              \* history: images started after a failure was recorded

vars == <<scan_parallelism, matches, pc, listed, next, stage, lines, db,
          upstream, auto_update, late>>

inputs == <<scan_parallelism, matches>>

Stage == {"idle", "started", "scanning", "sorting", "died", "done"}
MainPc == {"prep", "db_update", "list", "slot", "check", "spawn", "drain", "ok", "failed"}

(* jobs -rp: the background jobs of the main shell that still run. *)
Running == {i \in Image : stage[i] \notin {"idle", "done"}}

(* test -s image-scan-output/failed-images.txt *)
AnyFailed == \E i \in Image : lines["failed"][i] > 0

(* Grype exits with 2 when --fail-on high is met, kernel packages included. *)
FailsOnHigh(ms) == \E m \in ms : m.severity # "low"

(* The rows of the summary: kernel packages and lower severities dropped. *)
Summary(ms) == {m \in ms : m.severity # "low" /\ ~m.kernel}

(* The list an image belongs to. *)
Category(ms) ==
  IF Summary(ms) = {} THEN "clean"
  ELSE IF \E m \in Summary(ms) : m.severity = "critical" THEN "critical"
  ELSE "high"

Append1(f, i) == [lines EXCEPT ![f][i] = @ + 1]
----------------------------------------------------------------------------
(* An earlier run in the same directory may have left a list behind. *)
Init ==
  /\ scan_parallelism \in Parallelisms
  /\ matches \in [Image -> MatchSets]
  /\ pc = "prep"
  /\ listed = NumImages
  /\ next = 1
  /\ stage = [i \in Image |-> "idle"]
  /\ \E f \in File, old \in {{}, Image} :
       lines = [g \in File |-> [i \in Image |-> IF g = f /\ i \in old THEN 1 ELSE 0]]
  /\ db = 0
  /\ upstream = 0
  /\ auto_update = TRUE
  /\ late = {}

(* Fault: file_prep only touches the lists. *)
FilePrepKeepsLists ==
  /\ pc = "prep"
  /\ pc' = "db_update"
  /\ UNCHANGED <<inputs, listed, next, stage, lines, db, upstream, auto_update, late>>

(* file_prep: remove the output of earlier runs, create the empty lists. *)
FilePrep ==
  /\ pc = "prep"
  /\ lines' = [f \in File |-> [i \in Image |-> 0]]
  /\ pc' = "db_update"
  /\ UNCHANGED <<inputs, listed, next, stage, db, upstream, auto_update, late>>

(* Fault: GRYPE_DB_AUTO_UPDATE is not exported. *)
UpdateDbKeepsAuto ==
  /\ pc = "db_update"
  /\ db' = upstream
  /\ pc' = "list"
  /\ UNCHANGED <<inputs, listed, next, stage, lines, upstream, auto_update, late>>

(* grype db update, and no updates by the scans from here on. *)
UpdateDb ==
  /\ pc = "db_update"
  /\ db' = upstream
  /\ auto_update' = FALSE
  /\ pc' = "list"
  /\ UNCHANGED <<inputs, listed, next, stage, lines, upstream, late>>

(* images=$(get_images ...): errexit does not hold inside, and the last    *)
(* command is a cat, so a docker image ls that fails is an empty list.     *)
GetImages ==
  /\ pc = "list"
  /\ listed' \in {0, NumImages}
  /\ pc' = "slot"
  /\ UNCHANGED <<inputs, next, stage, lines, db, upstream, auto_update, late>>

(* errexit: a missing tool, a failed download, a list file that cannot be  *)
(* written.                                                                *)
AbortMain ==
  /\ pc \in {"prep", "db_update", "list"}
  /\ pc' = "failed"
  /\ db' \in IF pc = "db_update" THEN {db, upstream} ELSE {db}
  /\ UNCHANGED <<inputs, listed, next, stage, lines, upstream, auto_update, late>>

(* Faults: one job too many; one turn of the loop too many. *)
WaitForSlotOneMore ==
  /\ pc = "slot"
  /\ next <= listed
  /\ Cardinality(Running) <= scan_parallelism
  /\ pc' = "check"
  /\ UNCHANGED <<inputs, listed, next, stage, lines, db, upstream, auto_update, late>>

WaitForSlotPastEnd ==
  /\ pc = "slot"
  /\ next \in 1..(listed + 1)
  /\ Cardinality(Running) < scan_parallelism
  /\ pc' = "check"
  /\ UNCHANGED <<inputs, listed, next, stage, lines, db, upstream, auto_update, late>>

(* The while loop of scan_images: wait until a job may be started. *)
WaitForSlot ==
  /\ pc = "slot"
  /\ next <= listed
  /\ Cardinality(Running) < scan_parallelism
  /\ pc' = "check"
  /\ UNCHANGED <<inputs, listed, next, stage, lines, db, upstream, auto_update, late>>

(* Fault: the failure file is only looked at after the loop. *)
CheckNothing ==
  /\ pc = "check"
  /\ pc' = "spawn"
  /\ UNCHANGED <<inputs, listed, next, stage, lines, db, upstream, auto_update, late>>

(* Best effort: start no more scans once a failure is on record. *)
CheckFailed ==
  /\ pc = "check"
  /\ pc' = IF AnyFailed THEN "drain" ELSE "spawn"
  /\ UNCHANGED <<inputs, listed, next, stage, lines, db, upstream, auto_update, late>>

Spawn ==
  /\ pc = "spawn"
  /\ stage' = [stage EXCEPT ![next] = "started"]
  /\ late' = IF AnyFailed THEN late \cup {next} ELSE late
  /\ next' = next + 1
  /\ pc' = "slot"
  /\ UNCHANGED <<inputs, listed, lines, db, upstream, auto_update>>

ListExhausted ==
  /\ pc = "slot"
  /\ next > listed
  /\ pc' = "drain"
  /\ UNCHANGED <<inputs, listed, next, stage, lines, db, upstream, auto_update, late>>

(* Fault: no wait before the failure file is read. *)
FinishWithoutWait ==
  /\ pc = "drain"
  /\ pc' = IF AnyFailed THEN "failed" ELSE "ok"
  /\ UNCHANGED <<inputs, listed, next, stage, lines, db, upstream, auto_update, late>>

(* The final wait, then the exit status. *)
Finish ==
  /\ pc = "drain"
  /\ Running = {}
  /\ pc' = IF AnyFailed THEN "failed" ELSE "ok"
  /\ UNCHANGED <<inputs, listed, next, stage, lines, db, upstream, auto_update, late>>
----------------------------------------------------------------------------
(* Grype starts on the image or on its SBOM; it would update the database  *)
(* by itself unless told not to.                                           *)
StartGrype(i) ==
  /\ stage[i] = "started"
  /\ stage' = [stage EXCEPT ![i] = "scanning"]
  /\ db' = IF auto_update THEN upstream ELSE db
  /\ UNCHANGED <<inputs, pc, listed, next, lines, upstream, auto_update, late>>

(* Exit status 0: clean.  Exit status 2: there is a report to sort. *)
GrypeExits(i) ==
  /\ stage[i] = "scanning"
  /\ IF FailsOnHigh(matches[i])
       THEN stage' = [stage EXCEPT ![i] = "sorting"] /\ UNCHANGED lines
       ELSE stage' = [stage EXCEPT ![i] = "done"] /\ lines' = Append1("clean", i)
  /\ UNCHANGED <<inputs, pc, listed, next, db, upstream, auto_update, late>>

(* An empty summary is clean; otherwise categorise_image. *)
Categorise(i) ==
  /\ stage[i] = "sorting"
  /\ lines' = Append1(Category(matches[i]), i)
  /\ stage' = [stage EXCEPT ![i] = "done"]
  /\ UNCHANGED <<inputs, pc, listed, next, db, upstream, auto_update, late>>

(* The subshell of scan_image exits on any error: the configuration, Syft  *)
(* when an SBOM is wanted, Grype with a status other than 0 and 2, jq.     *)
ScanDies(i) ==
  /\ \/ stage[i] = "started"
     \/ stage[i] = "scanning"
     \/ stage[i] = "sorting"
  /\ stage' = [stage EXCEPT ![i] = "died"]
  /\ UNCHANGED <<inputs, pc, listed, next, lines, db, upstream, auto_update, late>>

(* Fault: the image is scanned again until it succeeds. *)
RecordFailureRetries(i) ==
  /\ stage[i] = "died"
  /\ stage' = [stage EXCEPT ![i] = "started"]
  /\ UNCHANGED <<inputs, pc, listed, next, lines, db, upstream, auto_update, late>>

(* wait $! || echo "$1" >> failed-images.txt *)
RecordFailure(i) ==
  /\ stage[i] = "died"
  /\ lines' = Append1("failed", i)
  /\ stage' = [stage EXCEPT ![i] = "done"]
  /\ UNCHANGED <<inputs, pc, listed, next, db, upstream, auto_update, late>>

(* A new database is published while the script runs. *)
Publish ==
  /\ upstream < MaxUpstream
  /\ upstream' = upstream + 1
  /\ UNCHANGED <<inputs, pc, listed, next, stage, lines, db, auto_update, late>>

Terminated == pc \in {"ok", "failed"} /\ Running = {} /\ UNCHANGED vars

Main == FilePrep \/ UpdateDb \/ GetImages \/ AbortMain \/ WaitForSlot
          \/ CheckFailed \/ Spawn \/ ListExhausted \/ Finish
Job(i) == StartGrype(i) \/ GrypeExits(i) \/ Categorise(i) \/ ScanDies(i)
            \/ RecordFailure(i)

Next == Main \/ (\E i \in Image : Job(i)) \/ Publish \/ Terminated

Spec == Init /\ [][Next]_vars

(* The kernel schedules the shell and every job; nothing publishes a       *)
(* database on time.                                                       *)
Fairness == WF_vars(Main) /\ \A i \in Image : WF_vars(Job(i))
FairSpec == Spec /\ Fairness
----------------------------------------------------------------------------
(* Every variable keeps to its values, and the image the loop is about to  *)
(* start is on the list.                                                   *)
TypeOK ==
  /\ scan_parallelism \in Nat \ {0}
  /\ matches \in [Image -> SUBSET Match]
  /\ pc \in MainPc
  /\ listed \in {0, NumImages}
  /\ next \in 1..(NumImages + 1)
  /\ pc \in {"check", "spawn"} => next <= listed
  /\ stage \in [Image -> Stage]
  /\ lines \in [File -> [Image -> Nat]]
  /\ db \in Nat /\ upstream \in Nat
  /\ auto_update \in BOOLEAN
  /\ late \subseteq Image

(* No more than SCAN_PARALLELISM scans run at any time, although the main  *)
(* shell counts the jobs in one step and starts the next in a later one.   *)
ParallelismRespected == Cardinality(Running) <= scan_parallelism

(* "Stop starting new scans after a failure (best effort)": the gap between *)
(* reading failed-images.txt and starting the job lets one image slip in,   *)
(* never two, and with one scan at a time not even one.                     *)
BestEffortStop ==
  /\ \A i, j \in late : i = j
  /\ scan_parallelism = 1 => late = {}

(* Exit status 0: every image get_images listed is named once, by the list *)
(* that is right for it, and by no other, whatever an earlier run had left *)
(* in the directory; and no list names an image that was not listed.  Not  *)
(* stronger than that: without an image list the script succeeds as well.  *)
ListsComplete ==
  pc = "ok" => \A i \in Image, f \in File :
    lines[f][i] = IF i <= listed /\ f = Category(matches[i]) THEN 1 ELSE 0

(* Grype does not lock the database, so it is never replaced while a scan  *)
(* reads it, even if a newer one is published between two scans.           *)
DbStableDuringScans ==
  [][db' # db => \A i \in Image : stage[i] # "scanning"]_vars

(* The script exits, however many scans fail.                              *)
Terminates == <>(pc \in {"ok", "failed"})

(* The lists, read as verdicts, and the exit status keep to the contract.  *)
VerdictOf(i) ==
  IF stage[i] # "done" THEN "pending"
  ELSE CHOOSE f \in File : lines[f][i] > 0

Contract == INSTANCE ScanContract WITH
  severity <- [i \in Image |-> Category(matches[i])],
  images   <- 1..listed,
  verdict  <- [i \in Image |-> VerdictOf(i)],
  outcome  <- IF pc \in {"ok", "failed"} THEN pc ELSE "running"

ImplementsContract == Contract!Spec
============================================================================
