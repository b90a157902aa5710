------------------------ MODULE ImagePipelineProofs ------------------------
(***************************************************************************)
(* Proofs about ImagePipeline, for every matrix of jobs, every set of      *)
(* images, whatever is found in them and any number of tries: what is      *)
(* pushed was allowed, green means pushed as far as the scan had a list of *)
(* images, manifests need green jobs, and the sync comes last.             *)
(***************************************************************************)
EXTENDS ImagePipeline, TLAPS

(* Every variable keeps to its values.                                     *)
Inputs ==
  push \in BOOLEAN /\ push_critical \in BOOLEAN /\ severity \in [Job -> [Image -> Severity]]

Types ==
  /\ Inputs
  /\ step \in [Job -> Step] /\ result \in [Job -> Result]
  /\ built \in [Job -> SUBSET Image]
  /\ verdict \in [Job -> [Image -> Verdict]]
  /\ push_attempt \in [Job -> SUBSET Image] /\ todo \in [Job -> SUBSET Image]
  /\ push_failed \in [Job -> SUBSET Image] /\ tries \in [Job -> 0..(MaxTries - 1)]
  /\ registry \subseteq Job \X Image

(* The scan has given every image of the job a verdict. *)
Judged(j) == \A i \in built[j] : verdict[j][i] # "pending"

(* What has been pushed, by the step the job is at.                        *)
PushInv(j) ==
  /\ step[j] \in {"build", "scan", "critical", "select"} =>
       /\ push_attempt[j] = {} /\ todo[j] = {} /\ push_failed[j] = {}
       /\ \A i \in Image : <<j, i>> \notin registry
  /\ step[j] \in {"push", "verify"} =>
       /\ push_attempt[j] = IF push /\ Judged(j) THEN built[j] ELSE {}
       /\ push_failed[j] \cap todo[j] = {}
       /\ todo[j] \subseteq push_attempt[j] /\ push_failed[j] \subseteq push_attempt[j]
       /\ \A i \in push_attempt[j] : i \in todo[j] \cup push_failed[j] \/ <<j, i>> \in registry
       /\ \A i \in Image : <<j, i>> \in registry => i \in push_attempt[j]
  /\ step[j] = "verify" => todo[j] = {}

(* What a job that got past the scan, and past its verdict, knows: all its *)
(* images are judged, or the scan was given none.                          *)
JudgedInv(j) ==
  /\ step[j] \in {"critical", "select", "push", "verify"} =>
       \/ \A i \in built[j] : verdict[j][i] = severity[j][i]
       \/ \A i \in Image : verdict[j][i] = "pending"
  /\ step[j] \in {"select", "push", "verify"} =>
       \A i \in built[j] : verdict[j][i] = "critical" => push_critical

(* A green job got to its end, with all images built and none failed.      *)
GreenInv(j) ==
  result[j] = "success" =>
    /\ step[j] = "verify" /\ built[j] = Image
    /\ push => push_failed[j] = {}

JobInv(j) == PushInv(j) /\ JudgedInv(j) /\ GreenInv(j)

(* Manifests are made after all jobs were green, the sync comes at the end. *)
AfterInv ==
  /\ to_join \subseteq Image /\ manifest \in [Image -> SUBSET Arch]
  /\ create_manifests \in {"running", "success", "failure"} => BuildsSucceeded
  /\ ManifestsNeedGreen
  /\ sync # "waiting" => BuildsEnded /\ create_manifests \notin {"waiting", "running"}

IInv == Types /\ (\A j \in Job : JobInv(j)) /\ AfterInv
----------------------------------------------------------------------------
LEMMA InitOK == Init => IInv
<1> SUFFICES ASSUME Init PROVE IInv
  OBVIOUS
<1> USE PipelineAssumption
<1>1. Types
  <2>1. severity \in [Job -> [Image -> Severity]] /\ 0 \in 0..(MaxTries - 1)
    BY DEF Init
  <2> QED BY <2>1 DEF Init, Types, Inputs, Step, Result, Verdict
<1>2. \A j \in Job : JobInv(j)
  BY DEF Init, JobInv, PushInv, Judged, JudgedInv, GreenInv
<1>3. AfterInv
  BY DEF Init, AfterInv, ManifestsNeedGreen
<1> QED BY <1>1, <1>2, <1>3 DEF IInv

(* What a step leaves of a job other than its own. *)
SameJob(k) ==
  /\ step'[k] = step[k] /\ result'[k] = result[k] /\ built'[k] = built[k]
  /\ verdict'[k] = verdict[k] /\ push_attempt'[k] = push_attempt[k]
  /\ todo'[k] = todo[k] /\ push_failed'[k] = push_failed[k]
  /\ \A i \in Image : <<k, i>> \in registry' <=> <<k, i>> \in registry

(* A step of one running job disturbs nothing but what is known of the job: *)
(* nothing comes after the jobs while one is running.                      *)
LEMMA OneJob ==
  ASSUME IInv, NEW j \in Job, result[j] = "running",
         UNCHANGED <<inputs, after, cancelled>>,
         Types', JobInv(j)', \A k \in Job \ {j} : SameJob(k)
  PROVE  IInv'
<1>1. ASSUME NEW k \in Job \ {j} PROVE JobInv(k)'
  <2>1. JobInv(k) /\ SameJob(k) /\ UNCHANGED <<push, push_critical, severity>>
    BY DEF IInv, inputs
  <2>2. PushInv(k)'
    <3>1. \A i \in push_attempt[k] : i \in Image
      BY DEF IInv, Types
    <3> QED BY <2>1, <3>1 DEF JobInv, PushInv, Judged, SameJob
  <2>3. JudgedInv(k)' /\ GreenInv(k)'
    BY <2>1 DEF JobInv, JudgedInv, GreenInv, SameJob
  <2> QED BY <2>2, <2>3 DEF JobInv
<1>2. AfterInv'
  <2>1. UNCHANGED <<create_manifests, to_join, manifest, sync>>
    BY DEF after
  <2>2. /\ create_manifests \notin {"running", "success", "failure"} /\ sync = "waiting"
        /\ \A i \in Image : manifest[i] = {}
    BY DEF IInv, AfterInv, ManifestsNeedGreen, BuildsSucceeded, BuildsEnded
  <2> QED BY <2>1, <2>2 DEF IInv, AfterInv, ManifestsNeedGreen
<1> QED BY <1>1, <1>2 DEF IInv
----------------------------------------------------------------------------
(* The steps before the push loop, and those that only go on or end.       *)
LEMMA FailsOK == ASSUME IInv, NEW j \in Job, StepFails(j) PROVE IInv'
<1>1. Types' /\ result[j] = "running"
  BY DEF StepFails, End, IInv, Types, Inputs, inputs, Result
<1>2. JobInv(j)' /\ \A k \in Job \ {j} : SameJob(k)
  BY DEF StepFails, End, IInv, Types, JobInv, PushInv, Judged, JudgedInv, GreenInv, SameJob, inputs
<1> QED BY <1>1, <1>2, OneJob DEF StepFails

LEMMA BuildOK == ASSUME IInv, NEW j \in Job, Build(j) PROVE IInv'
<1>1. PICK ok \in SUBSET Image :
        /\ built' = [built EXCEPT ![j] = ok]
        /\ IF ok = {} THEN End(j, "failure") ELSE Goto(j, "scan")
  BY DEF Build
<1>2. Types' /\ result[j] = "running"
  BY <1>1 DEF Build, At, End, Goto, IInv, Types, Inputs, inputs, Result, Step
<1>3. step'[j] \in {"build", "scan"} /\ result'[j] # "success"
  BY <1>1 DEF Build, At, End, Goto, IInv, Types
<1>4. JobInv(j)'
  BY <1>3 DEF Build, At, IInv, JobInv, PushInv, Judged, JudgedInv, GreenInv
<1>5. \A k \in Job \ {j} : SameJob(k)
  BY <1>1 DEF Build, End, Goto, IInv, Types, SameJob
<1> QED BY <1>2, <1>4, <1>5, OneJob DEF Build

LEMMA ScanOK == ASSUME IInv, NEW j \in Job, Scan(j) PROVE IInv'
<1>1. PICK v \in [Image -> Verdict] :
        /\ verdict' = [verdict EXCEPT ![j] = v]
        /\ \/ /\ Goto(j, "critical")
              /\ \/ \A i \in built[j] : v[i] = severity[j][i]
                 \/ \A i \in Image : v[i] = "pending"
           \/ End(j, "failure")
  <2> DEFINE w(listed) == [i \in Image |-> IF i \in listed THEN severity[j][i] ELSE "pending"]
  <2>1. w(built[j]) \in [Image -> Verdict] /\ w({}) \in [Image -> Verdict]
    BY DEF IInv, Types, Inputs, Verdict
  <2>2. Partial(j) \subseteq [Image -> Verdict]
    BY DEF Partial
  <2>3. /\ \A i \in built[j] : w(built[j])[i] = severity[j][i]
        /\ \A i \in Image : w({})[i] = "pending"
    BY DEF IInv, Types
  <2>4. \/ Goto(j, "critical") /\ \E listed \in {built[j], {}} :
                                   verdict' = [verdict EXCEPT ![j] = w(listed)]
        \/ End(j, "failure") /\ \E v \in Partial(j) : verdict' = [verdict EXCEPT ![j] = v]
    BY DEF Scan
  <2> HIDE DEF w
  <2> QED BY <2>1, <2>2, <2>3, <2>4
<1>2. Types' /\ result[j] = "running"
  BY <1>1 DEF Scan, At, End, Goto, IInv, Types, Inputs, inputs, Result, Step
<1>3. /\ step'[j] \in {"scan", "critical"} /\ result'[j] # "success"
      /\ step'[j] = "critical" => \/ \A i \in built[j] : verdict'[j][i] = severity[j][i]
                                  \/ \A i \in Image : verdict'[j][i] = "pending"
  BY <1>1 DEF Scan, At, End, Goto, IInv, Types
<1>4. JobInv(j)'
  BY <1>3 DEF Scan, At, IInv, JobInv, PushInv, Judged, JudgedInv, GreenInv, inputs
<1>5. \A k \in Job \ {j} : SameJob(k)
  BY <1>1 DEF Scan, End, Goto, IInv, Types, SameJob
<1> QED BY <1>2, <1>4, <1>5, OneJob DEF Scan

LEMMA CriticalOK == ASSUME IInv, NEW j \in Job, FailOnCritical(j) PROVE IInv'
<1>1. Types' /\ result[j] = "running"
  BY DEF FailOnCritical, At, End, Goto, IInv, Types, Inputs, inputs, Result, Step
<1>2. /\ step'[j] \in {"critical", "select"} /\ result'[j] # "success"
      /\ step'[j] = "select" => push_critical \/ In(j, "critical") = {}
  BY DEF FailOnCritical, At, End, Goto, IInv, Types
<1>3. In(j, "critical") = {} => \A i \in built[j] : verdict[j][i] # "critical"
  BY DEF In
<1>4. JobInv(j)'
  BY <1>2, <1>3 DEF FailOnCritical, At, IInv, JobInv, PushInv, Judged, JudgedInv, GreenInv, inputs
<1>5. \A k \in Job \ {j} : SameJob(k)
  BY DEF FailOnCritical, End, Goto, IInv, Types, SameJob
<1> QED BY <1>1, <1>4, <1>5, OneJob DEF FailOnCritical

(* All images that were judged are selected: those with critical findings  *)
(* are, or there are none.                                                 *)
LEMMA SelectOK == ASSUME IInv, NEW j \in Job, SelectImages(j) PROVE IInv'
<1> DEFINE chosen == In(j, "clean") \cup In(j, "high")
                       \cup (IF push_critical THEN In(j, "critical") ELSE {})
           sent == IF Judged(j) THEN built[j] ELSE {}
<1>1. At(j, "select") /\ JobInv(j) /\ Types
  BY DEF SelectImages, IInv
<1>2. chosen = sent
  <2>1. \A i \in built[j] : verdict[j][i] = "critical" => push_critical
    BY <1>1 DEF At, JobInv, JudgedInv
  <2>2. \/ \A i \in built[j] : verdict[j][i] \in {"clean", "high", "critical"}
        \/ \A i \in built[j] : verdict[j][i] = "pending"
    BY <1>1 DEF At, JobInv, JudgedInv, Types, Inputs, Severity
  <2> QED BY <2>1, <2>2 DEF In, Judged
<1>3. /\ push => /\ push_attempt' = [push_attempt EXCEPT ![j] = sent]
                 /\ todo' = [todo EXCEPT ![j] = sent] /\ Goto(j, "push")
      /\ ~push => Goto(j, "verify") /\ UNCHANGED <<push_attempt, todo>>
  <2>1. push => push_attempt' = [push_attempt EXCEPT ![j] = chosen]
    BY DEF SelectImages
  <2>2. push => push_attempt'[j] = sent
    BY <1>1, <1>2, <2>1 DEF Types
  <2> QED BY <1>2, <2>1, <2>2 DEF SelectImages
<1>4. Types' /\ result[j] = "running"
  <2>1. UNCHANGED <<push, push_critical, severity, result, built, verdict, tries, push_failed, registry>>
    BY <1>3 DEF SelectImages, inputs, Goto
  <2>2. push_attempt' \in [Job -> SUBSET Image] /\ todo' \in [Job -> SUBSET Image]
    BY <1>1, <1>3 DEF Types
  <2>3. step' \in [Job -> Step]
    BY <1>1, <1>3 DEF Types, Goto, Step
  <2> QED BY <1>1, <2>1, <2>2, <2>3 DEF At, Types, Inputs
<1>5. JobInv(j)'
  <2>1. step'[j] = IF push THEN "push" ELSE "verify"
    BY <1>1, <1>3 DEF Goto, Types
  <2>2. result'[j] # "success"
    BY <1>1, <1>3 DEF At, Goto
  <2>3. /\ push_attempt'[j] = IF push /\ Judged(j) THEN built[j] ELSE {}
        /\ todo'[j] = push_attempt'[j] /\ push_failed'[j] = {}
        /\ \A i \in Image : <<j, i>> \notin registry'
    BY <1>1, <1>3 DEF SelectImages, At, JobInv, PushInv, Types
  <2>4. UNCHANGED <<push, push_critical, severity, built, verdict>>
    BY DEF SelectImages, inputs
  <2>5. PushInv(j)'
    BY <2>1, <2>3, <2>4 DEF PushInv, Judged
  <2>6. JudgedInv(j)' /\ GreenInv(j)'
    BY <1>1, <2>1, <2>2, <2>4 DEF At, JobInv, JudgedInv, GreenInv
  <2> QED BY <2>5, <2>6 DEF JobInv
<1>6. \A k \in Job \ {j} : SameJob(k)
  BY <1>1, <1>3 DEF SelectImages, Goto, Types, SameJob
<1> QED BY <1>4, <1>5, <1>6, OneJob DEF SelectImages
----------------------------------------------------------------------------
(* The push loop. *)
LEMMA PushedOK == ASSUME IInv, NEW j \in Job, NEW i \in Image, Pushed(j, i) PROVE IInv'
<1> USE PipelineAssumption
<1>1. Types' /\ result[j] = "running"
  BY DEF Pushed, At, IInv, Types, Inputs, inputs
<1>2. step'[j] = "push" /\ result'[j] = "running"
  BY DEF Pushed, At
<1>3. /\ todo'[j] = todo[j] \ {i} /\ i \in todo[j]
      /\ \A k \in Image : <<j, k>> \in registry' <=> k = i \/ <<j, k>> \in registry
  BY DEF Pushed, IInv, Types
<1>4. JobInv(j)'
  <2>1. UNCHANGED <<push, push_critical, severity, built, verdict, push_attempt, push_failed>>
    BY DEF Pushed, inputs
  <2>2. JobInv(j) /\ step[j] = "push" /\ push_attempt[j] \subseteq Image
    BY DEF Pushed, At, IInv, Types
  <2>3. PushInv(j)'
    BY <1>2, <1>3, <2>1, <2>2 DEF JobInv, PushInv, Judged
  <2> QED BY <1>2, <2>1, <2>2, <2>3 DEF JobInv, JudgedInv, GreenInv
<1>5. \A k \in Job \ {j} : SameJob(k)
  BY DEF Pushed, IInv, Types, SameJob
<1> QED BY <1>1, <1>4, <1>5, OneJob DEF Pushed

(* A push that fails, for good or not: the image may be there all the same. *)
LEMMA PushFailsOK == ASSUME IInv, NEW j \in Job, NEW i \in Image, PushFails(j, i) PROVE IInv'
<1> DEFINE last == tries[j] + 1 = MaxTries
<1> USE PipelineAssumption
<1>1. /\ todo' = IF last THEN [todo EXCEPT ![j] = @ \ {i}] ELSE todo
      /\ push_failed' = IF last THEN [push_failed EXCEPT ![j] = @ \cup {i}] ELSE push_failed
      /\ tries' = [tries EXCEPT ![j] = IF last THEN 0 ELSE @ + 1]
  BY DEF PushFails
<1>2. Types /\ At(j, "push") /\ i \in todo[j]
  BY DEF PushFails, IInv
<1>3. Types' /\ result[j] = "running"
  <2>1. tries' \in [Job -> 0..(MaxTries - 1)]
    <3>1. tries[j] \in 0..(MaxTries - 1) /\ MaxTries \in Nat \ {0}
      BY <1>2 DEF Types
    <3>2. ~last => tries[j] + 1 \in 0..(MaxTries - 1)
      BY <3>1
    <3>3. (IF last THEN 0 ELSE tries[j] + 1) \in 0..(MaxTries - 1)
      BY <3>1, <3>2
    <3> QED BY <1>1, <1>2, <3>3 DEF Types
  <2>2. todo' \in [Job -> SUBSET Image] /\ push_failed' \in [Job -> SUBSET Image]
    BY <1>1, <1>2 DEF Types
  <2>3. registry' \subseteq Job \X Image
    BY <1>2 DEF PushFails, Types
  <2> QED BY <1>2, <2>1, <2>2, <2>3 DEF PushFails, At, Types, Inputs, inputs
<1>4. /\ todo'[j] \cup push_failed'[j] = todo[j] \cup push_failed[j]
      /\ todo'[j] \subseteq todo[j] /\ push_failed'[j] \subseteq push_failed[j] \cup {i}
      /\ i \in push_failed'[j] => i \notin todo'[j] \/ i \in push_failed[j]
      /\ \A k \in Image : /\ <<j, k>> \in registry => <<j, k>> \in registry'
                         /\ <<j, k>> \in registry' => k = i \/ <<j, k>> \in registry
  BY <1>1, <1>2 DEF PushFails, Types
<1>5. JobInv(j)'
  <2>1. UNCHANGED <<push, push_critical, severity, step, result, built, verdict, push_attempt>>
    BY DEF PushFails, inputs
  <2>2. JobInv(j) /\ step[j] = "push" /\ push_attempt[j] \subseteq Image
    BY <1>2 DEF At, IInv, Types
  <2>3. PushInv(j)'
    <3>1. push_failed'[j] \cap todo'[j] = {}
      BY <1>4, <2>2 DEF JobInv, PushInv
    <3>2. todo'[j] \subseteq push_attempt[j] /\ push_failed'[j] \subseteq push_attempt[j]
      BY <1>2, <1>4, <2>2 DEF JobInv, PushInv
    <3>3. /\ \A k \in push_attempt[j] : k \in todo'[j] \cup push_failed'[j] \/ <<j, k>> \in registry'
          /\ \A k \in Image : <<j, k>> \in registry' => k \in push_attempt[j]
      <4>1. /\ todo[j] \subseteq push_attempt[j]
            /\ \A k \in push_attempt[j] : k \in todo[j] \cup push_failed[j] \/ <<j, k>> \in registry
            /\ \A k \in Image : <<j, k>> \in registry => k \in push_attempt[j]
        BY <2>2 DEF JobInv, PushInv
      <4>2. \A k \in push_attempt[j] : k \in todo[j] \cup push_failed[j] =>
                                       k \in todo'[j] \cup push_failed'[j]
        BY <1>4
      <4>3. \A k \in push_attempt[j] : <<j, k>> \in registry => <<j, k>> \in registry'
        BY DEF PushFails
      <4>4. \A k \in Image : <<j, k>> \in registry' => k = i \/ <<j, k>> \in registry
        BY <1>4
      <4>5. i \in push_attempt[j]
        BY <1>2, <4>1
      <4> QED BY <4>1, <4>2, <4>3, <4>4, <4>5
    <3> QED BY <2>1, <2>2, <3>1, <3>2, <3>3 DEF JobInv, PushInv, Judged
  <2> QED BY <2>1, <2>2, <2>3, <1>2 DEF At, JobInv, JudgedInv, GreenInv
<1>6. \A k \in Job \ {j} : SameJob(k)
  BY <1>1, <1>2 DEF PushFails, Types, SameJob
<1> QED BY <1>3, <1>5, <1>6, OneJob DEF PushFails

LEMMA LoopEndsOK == ASSUME IInv, NEW j \in Job, PushLoopEnds(j) PROVE IInv'
<1>1. Types' /\ result[j] = "running"
  BY DEF PushLoopEnds, At, Goto, IInv, Types, Inputs, inputs, Step
<1>2. step'[j] = "verify" /\ result'[j] = "running"
  BY DEF PushLoopEnds, At, Goto, IInv, Types
<1>3. JobInv(j)'
  BY <1>2 DEF PushLoopEnds, At, IInv, JobInv, PushInv, Judged, JudgedInv, GreenInv, inputs
<1>4. \A k \in Job \ {j} : SameJob(k)
  BY DEF PushLoopEnds, Goto, IInv, Types, SameJob
<1> QED BY <1>1, <1>3, <1>4, OneJob DEF PushLoopEnds

LEMMA VerifyOK == ASSUME IInv, NEW j \in Job, Verify(j) PROVE IInv'
<1>1. Types' /\ result[j] = "running"
  BY DEF Verify, At, End, IInv, Types, Inputs, inputs, Result
<1>2. /\ step'[j] = "verify"
      /\ result'[j] = "success" => built[j] = Image /\ (push => push_failed[j] = {})
  BY DEF Verify, At, End, IInv, Types
<1>3. JobInv(j)'
  BY <1>2 DEF Verify, At, IInv, JobInv, PushInv, Judged, JudgedInv, GreenInv, inputs
<1>4. \A k \in Job \ {j} : SameJob(k)
  BY DEF Verify, End, IInv, Types, SameJob
<1> QED BY <1>1, <1>3, <1>4, OneJob DEF Verify

LEMMA BuildJobOK == ASSUME IInv, NEW j \in Job, BuildJob(j) PROVE IInv'
BY FailsOK, BuildOK, ScanOK, CriticalOK, SelectOK, PushedOK, PushFailsOK, LoopEndsOK, VerifyOK
   DEF BuildJob
----------------------------------------------------------------------------
(* What comes after the jobs, which leaves the jobs as they are.           *)
LEMMA JobsKept ==
  ASSUME IInv, UNCHANGED <<inputs, build, registry>>
  PROVE  Types' /\ \A j \in Job : JobInv(j)'
<1>1. /\ UNCHANGED <<push, push_critical, severity, step, result, built, verdict>>
      /\ UNCHANGED <<push_attempt, todo, tries, push_failed, registry>>
  BY DEF inputs, build
<1>2. Types'
  BY <1>1 DEF IInv, Types, Inputs
<1>3. ASSUME NEW j \in Job PROVE PushInv(j)' /\ JudgedInv(j)' /\ GreenInv(j)'
  <2>1. PushInv(j) /\ JudgedInv(j) /\ GreenInv(j)
    BY DEF IInv, JobInv
  <2>2. PushInv(j)'
    BY <1>1, <2>1 DEF PushInv, Judged
  <2> QED BY <1>1, <2>1, <2>2 DEF JudgedInv, GreenInv
<1> QED BY <1>2, <1>3 DEF JobInv

LEMMA ManifestsOK == ASSUME IInv, CreateManifests PROVE IInv'
<1>1. UNCHANGED <<inputs, build, registry, cancelled, sync>>
  BY DEF CreateManifests, StartManifests, ManifestsFail, ManifestsEnd, CreateManifest
<1>2. Types' /\ \A j \in Job : JobInv(j)'
  BY <1>1, JobsKept
<1>3. BuildsSucceeded' = BuildsSucceeded /\ BuildsEnded' = BuildsEnded
  BY <1>1 DEF build, BuildsSucceeded, BuildsEnded
<1>4. create_manifests \in {"waiting", "running"} /\ sync = "waiting"
  BY DEF CreateManifests, StartManifests, ManifestsFail, ManifestsEnd, CreateManifest, IInv, AfterInv
<1>5. AfterInv'
  <2>1. CASE StartManifests
    <3>1. to_join' \subseteq Image
      BY <2>1, PipelineAssumption DEF StartManifests, IInv, Types
    <3>2. ManifestsNeedGreen'
      BY <1>1, <2>1 DEF StartManifests, IInv, AfterInv, ManifestsNeedGreen, build
    <3> QED BY <1>1, <1>3, <1>4, <2>1, <3>1, <3>2 DEF StartManifests, IInv, AfterInv
  <2>2. CASE ManifestsFail \/ ManifestsEnd
    BY <1>1, <1>3, <1>4, <2>2 DEF ManifestsFail, ManifestsEnd, IInv, AfterInv, ManifestsNeedGreen, build
  <2>3. ASSUME NEW i \in Image, CreateManifest(i) PROVE AfterInv'
    <3>1. PICK found \in SUBSET {a \in Arch : <<a, i>> \in registry} :
            manifest' = [manifest EXCEPT ![i] = found]
      BY <2>3 DEF CreateManifest
    <3>2. to_join' \subseteq Image /\ manifest' \in [Image -> SUBSET Arch]
      BY <2>3, <3>1 DEF CreateManifest, IInv, AfterInv
    <3>3. BuildsSucceeded
      BY <2>3 DEF CreateManifest, IInv, AfterInv
    <3>4. ManifestsNeedGreen'
      BY <1>1, <3>1, <3>3 DEF IInv, AfterInv, ManifestsNeedGreen, BuildsSucceeded, build
    <3> QED BY <1>1, <1>3, <1>4, <2>3, <3>2, <3>3, <3>4 DEF CreateManifest, AfterInv
  <2> QED BY <2>1, <2>2, <2>3 DEF CreateManifests
<1> QED BY <1>2, <1>5 DEF IInv

LEMMA TriggerOK == ASSUME IInv, TriggerSync PROVE IInv'
<1>1. Types' /\ \A j \in Job : JobInv(j)'
  BY JobsKept DEF TriggerSync
<1>2. AfterInv'
  BY DEF TriggerSync, IInv, AfterInv, ManifestsNeedGreen, BuildsSucceeded, BuildsEnded, build
<1> QED BY <1>1, <1>2 DEF IInv

(* Green jobs stay green when the workflow is cancelled. *)
LEMMA CancelOK == ASSUME IInv, Cancel PROVE IInv'
<1>1. /\ result' \in [Job -> Result]
      /\ \A j \in Job : /\ result'[j] = "success" <=> result[j] = "success"
                       /\ result'[j] # "running"
  BY DEF Cancel, IInv, Types, Result
<1>2. Types'
  BY <1>1 DEF Cancel, IInv, Types, Inputs, inputs
<1>3. ASSUME NEW j \in Job PROVE JobInv(j)'
  BY <1>1 DEF Cancel, IInv, inputs, JobInv, PushInv, Judged, JudgedInv, GreenInv
<1>4. AfterInv'
  <2>1. ManifestsNeedGreen'
    BY <1>1 DEF Cancel, IInv, AfterInv, ManifestsNeedGreen
  <2> QED BY <1>1, <2>1 DEF Cancel, IInv, AfterInv, BuildsSucceeded, BuildsEnded
<1> QED BY <1>2, <1>3, <1>4 DEF IInv

LEMMA StutterOK == ASSUME IInv, UNCHANGED vars PROVE IInv'
<1>1. Types' /\ \A j \in Job : JobInv(j)'
  BY JobsKept DEF vars
<1>2. AfterInv'
  BY DEF vars, build, after, IInv, AfterInv, ManifestsNeedGreen, BuildsSucceeded, BuildsEnded
<1> QED BY <1>1, <1>2 DEF IInv

(* What is known of each job, by the step it is at, and of what comes      *)
(* after the jobs, at any time.                                            *)
THEOREM Inductive == Spec => []IInv
<1>1. IInv /\ [Next]_vars => IInv'
  BY BuildJobOK, ManifestsOK, TriggerOK, CancelOK, StutterOK DEF Next, Ended
<1> QED BY InitOK, <1>1, PTL DEF Spec
----------------------------------------------------------------------------
(* Types, and the lists of a job are within each other.                    *)
THEOREM TypeCorrect == Spec => []TypeOK
<1>1. IInv => TypeOK
  <2> SUFFICES ASSUME IInv PROVE TypeOK
    OBVIOUS
  <2>1. ASSUME NEW j \in Job
        PROVE  /\ todo[j] \subseteq push_attempt[j] /\ push_attempt[j] \subseteq built[j]
               /\ push_failed[j] \subseteq push_attempt[j] \ todo[j]
               /\ tries[j] < MaxTries
    <3>1. JobInv(j) /\ step[j] \in Step /\ tries[j] \in 0..(MaxTries - 1)
      BY DEF IInv, Types
    <3>2. tries[j] < MaxTries
      BY <3>1, PipelineAssumption
    <3> QED BY <3>1, <3>2 DEF JobInv, PushInv, Step
  <2> QED BY <2>1 DEF IInv, Types, AfterInv, TypeOK
<1> QED BY <1>1, Inductive, PTL

(* An image is in the registry only if the whole scan of its job succeeded *)
(* and judged it; without push-critical, a critical image keeps all images *)
(* of its job out.  So SelectImages, after Scan and FailOnCritical.        *)
THEOREM OnlyAllowedPushed == Spec => []PushedIsAllowed
<1>1. IInv => PushedIsAllowed
  <2> SUFFICES ASSUME IInv, NEW pushed \in registry
               PROVE  /\ push /\ pushed[2] \in built[pushed[1]]
                      /\ \A k \in built[pushed[1]] :
                           /\ verdict[pushed[1]][k] = severity[pushed[1]][k]
                           /\ verdict[pushed[1]][k] = "critical" => push_critical
    BY DEF PushedIsAllowed
  <2>1. PICK j \in Job, i \in Image : pushed = <<j, i>>
    BY DEF IInv, Types
  <2>2. JobInv(j) /\ step[j] \in Step
    BY DEF IInv, Types
  <2>3. step[j] \in {"push", "verify"}
    BY <2>1, <2>2 DEF JobInv, PushInv, Step
  <2>4. push /\ Judged(j) /\ i \in built[j]
    BY <2>1, <2>2, <2>3 DEF JobInv, PushInv
  <2>5. \A k \in built[j] : verdict[j][k] = severity[j][k]
    BY <2>2, <2>3, <2>4 DEF JobInv, JudgedInv, Judged, IInv, Types
  <2> QED BY <2>1, <2>2, <2>3, <2>4, <2>5 DEF JobInv, JudgedInv
<1> QED BY <1>1, Inductive, PTL

(* A green build job that was to push has every image it was to build in   *)
(* the registry, or its scan was given no image and it has pushed none:    *)
(* the steps of Verify pass over no failed build or push.                  *)
THEOREM GreenPushed == Spec => []GreenMeansPushed
<1>1. IInv => GreenMeansPushed
  <2> SUFFICES ASSUME IInv, NEW j \in Job, result[j] = "success", push
               PROVE  \/ \A i \in Image : <<j, i>> \in registry
                      \/ \A i \in Image : verdict[j][i] = "pending" /\ <<j, i>> \notin registry
    BY DEF GreenMeansPushed
  <2>1. JobInv(j) /\ step[j] = "verify" /\ built[j] = Image /\ push_failed[j] = {}
    BY DEF IInv, JobInv, GreenInv
  <2>2. CASE Judged(j)
    BY <2>1, <2>2 DEF JobInv, PushInv
  <2>3. CASE ~Judged(j)
    <3>1. push_attempt[j] = {} /\ \A i \in Image : <<j, i>> \notin registry
      BY <2>1, <2>3 DEF JobInv, PushInv
    <3>2. PICK k \in Image : verdict[j][k] = "pending"
      BY <2>1, <2>3 DEF Judged
    <3>3. severity[j][k] # "pending"
      BY DEF IInv, Types, Inputs, Severity
    <3>4. \A i \in Image : verdict[j][i] = "pending"
      BY <2>1, <3>2, <3>3 DEF JobInv, JudgedInv
    <3> QED BY <3>1, <3>4
  <2> QED BY <2>2, <2>3
<1> QED BY <1>1, Inductive, PTL

(* A manifest names images of the registry and exists only when all build  *)
(* jobs were green.                                                        *)
THEOREM ManifestsGreen == Spec => []ManifestsNeedGreen
BY Inductive, PTL DEF IInv, AfterInv

(* Nothing that the release train would copy changes after it was told.    *)
THEOREM SyncIsLast == Spec => SyncSeesEverything
<1>1. IInv /\ [Next]_vars => [sync # "waiting" => UNCHANGED <<registry, manifest>>]_vars
  <2> SUFFICES ASSUME IInv, Next, sync # "waiting"
               PROVE  UNCHANGED <<registry, manifest>>
    OBVIOUS
  <2>1. BuildsEnded /\ create_manifests \notin {"waiting", "running"}
    BY DEF IInv, AfterInv
  <2>2. ~CreateManifests /\ ~TriggerSync /\ ~Cancel
    BY <2>1 DEF CreateManifests, StartManifests, ManifestsFail, ManifestsEnd, CreateManifest,
                TriggerSync, Cancel
  <2>3. \A j \in Job : ~BuildJob(j)
    BY <2>1 DEF BuildsEnded, BuildJob, StepFails, Build, Scan, FailOnCritical, SelectImages,
                Pushed, PushFails, PushLoopEnds, Verify, At
  <2> QED BY <2>2, <2>3, Zenon DEF Next, Ended, vars, after
<1> QED BY <1>1, Inductive, PTL DEF Spec, SyncSeesEverything
============================================================================
