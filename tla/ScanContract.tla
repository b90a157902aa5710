--------------------------- MODULE ScanContract ---------------------------
(***************************************************************************)
(* What tools/scan-images.sh promises to the image build workflow, without *)
(* its processes: every image gets at most one verdict, the verdict is the *)
(* one its vulnerabilities deserve, and success means that all images the  *)
(* run knows of are judged.  It may know of none: the list of the images   *)
(* can be lost as a whole.  ImageScan is shown to implement this module.   *)
(***************************************************************************)
CONSTANT Image

VARIABLES
  severity,   \* what the image contains: the list it belongs to
  images,     \* the images the run is to judge
  verdict,    \* what the scan has said of it so far
  outcome     \* the script is "running", or has exited "ok" or "failed"

vars == <<severity, images, verdict, outcome>>

Severity == {"clean", "high", "critical"}
Verdict  == Severity \cup {"pending", "failed"}

Init ==
  /\ severity \in [Image -> Severity]
  /\ images = Image
  /\ verdict = [i \in Image |-> "pending"]
  /\ outcome = "running"

(* The list is lost before the first scan; nothing is judged after that.   *)
LoseList ==
  /\ outcome = "running"
  /\ \A i \in Image : verdict[i] = "pending"
  /\ images' = {}
  /\ UNCHANGED <<severity, verdict, outcome>>

(* A scan ends: with the right verdict, or with none. *)
Judge(i) ==
  /\ outcome = "running"
  /\ i \in images /\ verdict[i] = "pending"
  /\ \E v \in {severity[i], "failed"} : verdict' = [verdict EXCEPT ![i] = v]
  /\ UNCHANGED <<severity, images, outcome>>

(* Success: every image to judge has been, and no scan has failed. *)
Succeed ==
  /\ outcome = "running"
  /\ \A i \in images : verdict[i] \in Severity
  /\ outcome' = "ok"
  /\ UNCHANGED <<severity, images, verdict>>

(* Failure: a scan has failed, or the run stopped before the first scan. *)
Fail ==
  /\ outcome = "running"
  /\ \/ \E i \in Image : verdict[i] = "failed"
     \/ images = Image /\ \A i \in Image : verdict[i] = "pending"
  /\ outcome' = "failed"
  /\ UNCHANGED <<severity, images, verdict>>

Next == LoseList \/ Succeed \/ Fail \/ \E i \in Image : Judge(i)

Spec == Init /\ [][Next]_vars
===========================================================================
