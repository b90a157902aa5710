--------------------------- MODULE ImagePipeline ---------------------------
(***************************************************************************)
(* .github/workflows/stackhpc-container-image-build.yml from the build of  *)
(* the images on, and tools/multiarch-manifests.sh: one build job for each *)
(* entry of the matrix builds, scans and pushes its images; when all have  *)
(* succeeded, create-manifests joins the images of the architectures; then *)
(* trigger-image-sync tells the release train to copy what was pushed.     *)
(*                                                                         *)
(* The build jobs run side by side.  A step that fails ends its job: the   *)
(* steps that run on (!cancelled(), always()) only report.  Of the scan    *)
(* only what ScanContract promises is used.                                *)
(***************************************************************************)
EXTENDS Naturals, FiniteSets

CONSTANTS
  Job,        \* the build matrix
  Arch,       \* the jobs whose tags end in an architecture
  Image,      \* the images each job is to build
  Severities, \* what the images of the jobs may contain
  MaxTries    \* how often an image is pushed

Severity == {"clean", "high", "critical"}

ASSUME PipelineAssumption ==
  /\ Arch \subseteq Job
  /\ Severities \subseteq [Job -> [Image -> Severity]]
  /\ MaxTries \in Nat \ {0}

VARIABLES
  push, push_critical, \* inputs of the workflow
  severity,            \* what the images of each job contain
  step,                \* the step each build job is at
  result,              \* how each build job ended
  built,               \* the images each job has built
  verdict,             \* image-scan-output: the list of each scanned image
  push_attempt,        \* push-attempt-images.txt
  todo,                \* the rest of that list, as the push loop reads it
  tries,               \* failed attempts to push the current image
  push_failed,         \* push-failed-images.txt
  registry,            \* the images in the registry, as <<job, image>>
  create_manifests,    \* result of that job, or where it is
  to_join,             \* images without a manifest yet
  manifest,            \* the architectures each image's manifest names
  sync,                \* result of trigger-image-sync, or "waiting"
  cancelled            \* has the workflow been cancelled?

inputs == <<push, push_critical, severity>>
build == <<step, result, built, verdict, push_attempt, todo, tries, push_failed>>
after == <<create_manifests, to_join, manifest, sync>>
vars == <<inputs, build, registry, after, cancelled>>

Step == {"build", "scan", "critical", "select", "push", "verify"}
Result == {"running", "success", "failure", "cancelled"}
Verdict == Severity \cup {"pending", "failed"}

In(j, v) == {i \in built[j] : verdict[j][i] = v}
----------------------------------------------------------------------------
Init ==
  /\ push \in BOOLEAN /\ push_critical \in BOOLEAN
  /\ severity \in Severities
  /\ step = [j \in Job |-> "build"]
  /\ result = [j \in Job |-> "running"]
  /\ built = [j \in Job |-> {}]
  /\ verdict = [j \in Job |-> [i \in Image |-> "pending"]]
  /\ push_attempt = [j \in Job |-> {}]
  /\ todo = [j \in Job |-> {}]
  /\ tries = [j \in Job |-> 0]
  /\ push_failed = [j \in Job |-> {}]
  /\ registry = {}
  /\ create_manifests = "waiting"
  /\ to_join = {}
  /\ manifest = [i \in Image |-> {}]
  /\ sync = "waiting"
  /\ cancelled = FALSE

At(j, s) == result[j] = "running" /\ step[j] = s
Goto(j, s) == step' = [step EXCEPT ![j] = s] /\ UNCHANGED result
End(j, r) == result' = [result EXCEPT ![j] = r] /\ UNCHANGED step

(* Any other step of a job may fail: set-up, login, copying of files. *)
StepFails(j) ==
  /\ result[j] = "running"
  /\ End(j, "failure")
  /\ UNCHANGED <<inputs, built, verdict, push_attempt, todo, tries, push_failed,
                 registry, after, cancelled>>

(* continue-on-error: the images that could be built go on, if any could.  *)
Build(j) ==
  /\ At(j, "build")
  /\ \E ok \in SUBSET Image :
       /\ built' = [built EXCEPT ![j] = ok]
       /\ IF ok = {} THEN End(j, "failure") ELSE Goto(j, "scan")
  /\ UNCHANGED <<inputs, verdict, push_attempt, todo, tries, push_failed,
                 registry, after, cancelled>>

(* What a scan that fails may leave: as ScanContract, some verdicts given, *)
(* and a failure among them unless there is none at all.                   *)
Partial(j) ==
  {v \in [Image -> Verdict] :
     /\ \A i \in Image : v[i] \in IF i \in built[j] THEN {severity[j][i], "failed", "pending"}
                                                   ELSE {"pending"}
     /\ (\E i \in Image : v[i] = "failed") \/ \A i \in Image : v[i] = "pending"}

(* Fault: the exit status of the scan is ignored. *)
ScanIgnored(j) ==
  /\ At(j, "scan")
  /\ Goto(j, "critical")
  /\ \E v \in Partial(j) : verdict' = [verdict EXCEPT ![j] = v]
  /\ UNCHANGED <<inputs, built, push_attempt, todo, tries, push_failed,
                 registry, after, cancelled>>

(* scan-images.sh: a failure ends the job.  Success means that every image *)
(* it knows of is judged: all that were built or, when its docker image ls *)
(* failed, none.                                                           *)
Scan(j) ==
  /\ At(j, "scan")
  /\ \/ /\ Goto(j, "critical")
        /\ \E listed \in {built[j], {}} : verdict' = [verdict EXCEPT ![j] =
             [i \in Image |-> IF i \in listed THEN severity[j][i] ELSE "pending"]]
     \/ /\ End(j, "failure")
        /\ \E v \in Partial(j) : verdict' = [verdict EXCEPT ![j] = v]
  /\ UNCHANGED <<inputs, built, push_attempt, todo, tries, push_failed,
                 registry, after, cancelled>>

(* Fail if any images have critical vulnerabilities. *)
FailOnCritical(j) ==
  /\ At(j, "critical")
  /\ IF ~push_critical /\ In(j, "critical") # {}
       THEN End(j, "failure") ELSE Goto(j, "select")
  /\ UNCHANGED <<inputs, built, verdict, push_attempt, todo, tries, push_failed,
                 registry, after, cancelled>>

(* The three steps that write push-attempt-images.txt. *)
SelectImages(j) ==
  /\ At(j, "select")
  /\ IF push
       THEN /\ push_attempt' = [push_attempt EXCEPT ![j] =
                 In(j, "clean") \cup In(j, "high")
                   \cup (IF push_critical THEN In(j, "critical") ELSE {})]
            /\ todo' = [todo EXCEPT ![j] = push_attempt'[j]]
            /\ Goto(j, "push")
       ELSE Goto(j, "verify") /\ UNCHANGED <<push_attempt, todo>>
  /\ UNCHANGED <<inputs, built, verdict, tries, push_failed, registry, after, cancelled>>

Pushed(j, i) ==
  /\ At(j, "push") /\ i \in todo[j]
  /\ registry' = registry \cup {<<j, i>>}
  /\ todo' = [todo EXCEPT ![j] = @ \ {i}]
  /\ tries' = [tries EXCEPT ![j] = 0]
  /\ UNCHANGED <<inputs, step, result, built, verdict, push_attempt, push_failed,
                 after, cancelled>>

(* Faults: one try too many; the last failure is not recorded; no end of   *)
(* retries.                                                                *)
PushFailsUncounted(j, i) ==
  /\ At(j, "push") /\ i \in todo[j]
  /\ registry' \in {registry, registry \cup {<<j, i>>}}
  /\ IF tries[j] = MaxTries
       THEN /\ push_failed' = [push_failed EXCEPT ![j] = @ \cup {i}]
            /\ todo' = [todo EXCEPT ![j] = @ \ {i}]
            /\ tries' = [tries EXCEPT ![j] = 0]
       ELSE tries' = [tries EXCEPT ![j] = @ + 1] /\ UNCHANGED <<todo, push_failed>>
  /\ UNCHANGED <<inputs, step, result, built, verdict, push_attempt, after, cancelled>>

PushFailsUnrecorded(j, i) ==
  /\ At(j, "push") /\ i \in todo[j]
  /\ registry' \in {registry, registry \cup {<<j, i>>}}
  /\ IF tries[j] + 1 = MaxTries
       THEN /\ todo' = [todo EXCEPT ![j] = @ \ {i}]
            /\ tries' = [tries EXCEPT ![j] = 0]
       ELSE tries' = [tries EXCEPT ![j] = @ + 1] /\ UNCHANGED todo
  /\ UNCHANGED <<inputs, step, result, built, verdict, push_attempt, push_failed,
                 after, cancelled>>

PushFailsForever(j, i) ==
  /\ At(j, "push") /\ i \in todo[j]
  /\ registry' \in {registry, registry \cup {<<j, i>>}}
  /\ tries' = [tries EXCEPT ![j] = (@ + 1) % MaxTries]
  /\ UNCHANGED <<inputs, step, result, built, verdict, push_attempt, todo,
                 push_failed, after, cancelled>>

(* docker push fails, perhaps after the registry took the image; the last  *)
(* failure is recorded and the loop goes on with the next image.           *)
PushFails(j, i) ==
  /\ At(j, "push") /\ i \in todo[j]
  /\ registry' \in {registry, registry \cup {<<j, i>>}}
  /\ IF tries[j] + 1 = MaxTries
       THEN /\ push_failed' = [push_failed EXCEPT ![j] = @ \cup {i}]
            /\ todo' = [todo EXCEPT ![j] = @ \ {i}]
            /\ tries' = [tries EXCEPT ![j] = 0]
       ELSE tries' = [tries EXCEPT ![j] = @ + 1] /\ UNCHANGED <<todo, push_failed>>
  /\ UNCHANGED <<inputs, step, result, built, verdict, push_attempt, after, cancelled>>

PushLoopEnds(j) ==
  /\ At(j, "push") /\ todo[j] = {}
  /\ Goto(j, "verify")
  /\ UNCHANGED <<inputs, built, verdict, push_attempt, todo, tries, push_failed,
                 registry, after, cancelled>>

(* The closing steps: failed builds, failed pushes, critical findings. *)
Verify(j) ==
  /\ At(j, "verify")
  /\ End(j, IF \/ built[j] # Image
               \/ push /\ push_failed[j] # {}
               \/ ~push_critical /\ In(j, "critical") # {}
            THEN "failure" ELSE "success")
  /\ UNCHANGED <<inputs, built, verdict, push_attempt, todo, tries, push_failed,
                 registry, after, cancelled>>
----------------------------------------------------------------------------
BuildsEnded == \A j \in Job : result[j] # "running"
BuildsSucceeded == \A j \in Job : result[j] = "success"

(* Fault: create-manifests runs unless the workflow was cancelled. *)
StartManifestsAnyway ==
  /\ create_manifests = "waiting" /\ BuildsEnded /\ ~cancelled
  /\ create_manifests' = IF push /\ Arch # {} THEN "running" ELSE "skipped"
  /\ to_join' = UNION {push_attempt[a] : a \in Arch}
  /\ UNCHANGED <<inputs, build, registry, manifest, sync, cancelled>>

(* It needs the success of every build job, and Rocky; the images are of all *)
(* lists whose tag ends in an architecture.                                *)
StartManifests ==
  /\ create_manifests = "waiting" /\ BuildsEnded /\ ~cancelled
  /\ create_manifests' = IF BuildsSucceeded /\ push /\ Arch # {} THEN "running" ELSE "skipped"
  /\ to_join' = UNION {push_attempt[a] : a \in Arch}
  /\ UNCHANGED <<inputs, build, registry, manifest, sync, cancelled>>

(* An architecture is taken when docker manifest inspect succeeds: it may  *)
(* also fail for an image that is there.                                   *)
CreateManifest(i) ==
  /\ create_manifests = "running" /\ i \in to_join
  /\ \E found \in SUBSET {a \in Arch : <<a, i>> \in registry} :
       manifest' = [manifest EXCEPT ![i] = found]
  /\ to_join' = to_join \ {i}
  /\ UNCHANGED <<inputs, build, registry, create_manifests, sync, cancelled>>

(* errexit: imagetools create fails, or a step around the script. *)
ManifestsFail ==
  /\ create_manifests = "running"
  /\ create_manifests' = "failure"
  /\ UNCHANGED <<inputs, build, registry, to_join, manifest, sync, cancelled>>

ManifestsEnd ==
  /\ create_manifests = "running" /\ to_join = {}
  /\ create_manifests' = "success"
  /\ UNCHANGED <<inputs, build, registry, to_join, manifest, sync, cancelled>>

(* Fault: trigger-image-sync needs the build jobs only. *)
TriggerEarly ==
  /\ sync = "waiting" /\ ~cancelled /\ BuildsEnded
  /\ sync' \in IF push THEN {"success", "failure"} ELSE {"skipped"}
  /\ UNCHANGED <<inputs, build, registry, create_manifests, to_join, manifest, cancelled>>

(* After both, however they ended, unless the workflow was cancelled. *)
TriggerSync ==
  /\ sync = "waiting" /\ ~cancelled
  /\ BuildsEnded /\ create_manifests \in {"success", "failure", "skipped"}
  /\ sync' \in IF push THEN {"success", "failure"} ELSE {"skipped"}
  /\ UNCHANGED <<inputs, build, registry, create_manifests, to_join, manifest, cancelled>>

Cancel ==
  /\ ~cancelled /\ sync = "waiting"
  /\ cancelled' = TRUE
  /\ result' = [j \in Job |-> IF result[j] = "running" THEN "cancelled" ELSE result[j]]
  /\ create_manifests' = IF create_manifests \in {"waiting", "running"} THEN "cancelled"
                         ELSE create_manifests
  /\ sync' = "cancelled"
  /\ UNCHANGED <<inputs, step, built, verdict, push_attempt, todo, tries, push_failed,
                 registry, to_join, manifest>>

Ended == sync # "waiting" /\ UNCHANGED vars

BuildJob(j) ==
  \/ StepFails(j) \/ Build(j) \/ Scan(j) \/ FailOnCritical(j) \/ SelectImages(j)
  \/ PushLoopEnds(j) \/ Verify(j)
  \/ \E i \in Image : Pushed(j, i) \/ PushFails(j, i)

CreateManifests ==
  StartManifests \/ ManifestsFail \/ ManifestsEnd \/ \E i \in Image : CreateManifest(i)

Next == CreateManifests \/ TriggerSync \/ Cancel \/ Ended \/ \E j \in Job : BuildJob(j)

Spec == Init /\ [][Next]_vars

(* GitHub runs every job whose needs are met; nobody has to cancel. *)
FairSpec ==
  /\ Spec
  /\ \A j \in Job : WF_vars(BuildJob(j))
  /\ WF_vars(CreateManifests) /\ WF_vars(TriggerSync)
----------------------------------------------------------------------------
(* Every variable keeps to its values; the lists name built images only.   *)
TypeOK ==
  /\ step \in [Job -> Step] /\ result \in [Job -> Result]
  /\ built \in [Job -> SUBSET Image]
  /\ verdict \in [Job -> [Image -> Verdict]]
  /\ \A j \in Job : /\ todo[j] \subseteq push_attempt[j]
                    /\ push_attempt[j] \subseteq built[j]
                    /\ push_failed[j] \subseteq push_attempt[j] \ todo[j]
                    /\ tries[j] < MaxTries
  /\ registry \subseteq Job \X Image
  /\ to_join \subseteq Image /\ manifest \in [Image -> SUBSET Arch]

(* An image is in the registry only if the whole scan of its job succeeded *)
(* and judged it; and without push-critical, one critical image keeps all  *)
(* images of its job out.                                                  *)
PushedIsAllowed ==
  \A pushed \in registry :
    LET j == pushed[1] IN
    /\ push /\ pushed[2] \in built[j]
    /\ \A i \in built[j] : /\ verdict[j][i] = severity[j][i]
                           /\ verdict[j][i] = "critical" => push_critical

(* A build job that is green and was to push has every image it was to     *)
(* build in the registry: no failed build, scan or push is passed over.    *)
(* The one exception is a scan that was given no image: such a job is      *)
(* green as well, and then it has pushed nothing at all.                   *)
GreenMeansPushed ==
  \A j \in Job : result[j] = "success" /\ push =>
    \/ {j} \X Image \subseteq registry
    \/ \A i \in Image : verdict[j][i] = "pending" /\ <<j, i>> \notin registry

(* A manifest names images that are in the registry, and exists only when  *)
(* all build jobs were green, so that no failed one can be missing in it.  *)
ManifestsNeedGreen ==
  \A i \in Image : manifest[i] # {} =>
    /\ \A j \in Job : result[j] = "success"
    /\ manifest[i] \X {i} \subseteq registry

(* Once the release train has been told, nothing it would copy changes. *)
SyncSeesEverything ==
  [][sync # "waiting" => UNCHANGED <<registry, manifest>>]_vars

(* Whatever fails, the workflow gets to its end; and unless cancelled, it  *)
(* tells the release train of what was pushed, failures or not.            *)
Completes ==
  <>(IF cancelled THEN sync = "cancelled"
     ELSE IF push THEN sync \in {"success", "failure"} ELSE sync = "skipped")

(* "Check if the image exists in the registry": the manifest of an image   *)
(* names every architecture the registry has it for.                       *)
ManifestComplete ==
  create_manifests = "success" =>
    \A i \in Image : manifest[i] = {a \in Arch : <<a, i>> \in registry}
============================================================================
