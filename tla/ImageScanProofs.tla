-------------------------- MODULE ImageScanProofs --------------------------
(***************************************************************************)
(* Proofs about ImageScan, for every number of images, every admissible    *)
(* SCAN_PARALLELISM and every content of the images.                       *)
(***************************************************************************)
EXTENDS ImageScan, FiniteSetTheorems, TLAPS

(* What appending a line to one of the files changes: one count, by one. *)
LEMMA AppendCounts ==
  ASSUME lines \in [File -> [Image -> Nat]], NEW f \in File, NEW i \in Image
  PROVE  /\ Append1(f, i) \in [File -> [Image -> Nat]]
         /\ \A g \in File, j \in Image :
              Append1(f, i)[g][j] = IF g = f /\ j = i THEN lines[g][j] + 1 ELSE lines[g][j]
<1> DEFINE row == [lines[f] EXCEPT ![i] = @ + 1]
<1>1. row \in [Image -> Nat]
  OBVIOUS
<1>2. \A j \in Image : row[j] = IF j = i THEN lines[f][j] + 1 ELSE lines[f][j]
  OBVIOUS
<1>3. Append1(f, i) = [lines EXCEPT ![f] = row]
  BY DEF Append1
<1> HIDE DEF row
<1> QED BY <1>1, <1>2, <1>3

(* Every reachable state of the scan is of the right type. *)
THEOREM TypeCorrect == Spec => []TypeOK
<1>1. Init => TypeOK
  BY ScanAssumption DEF Init, ScanAssumption, TypeOK, Image, File, Lists, Stage, MainPc
<1>2. TypeOK /\ [Next]_vars => TypeOK'
  <2> SUFFICES ASSUME TypeOK, [Next]_vars PROVE TypeOK'
    OBVIOUS
  <2> USE ScanAssumption DEF ScanAssumption, TypeOK, inputs, Image, MainPc
  <2>1. CASE FilePrep
    BY <2>1 DEF FilePrep
  <2>2. CASE UpdateDb
    BY <2>2 DEF UpdateDb
  <2>3. CASE GetImages \/ AbortMain
    BY <2>3 DEF GetImages, AbortMain
  <2>4. CASE WaitForSlot
    BY <2>4 DEF WaitForSlot
  <2>5. CASE CheckFailed
    BY <2>5 DEF CheckFailed
  <2>6. CASE Spawn
    BY <2>6 DEF Spawn, Stage
  <2>7. CASE ListExhausted
    BY <2>7 DEF ListExhausted
  <2>8. CASE Finish
    BY <2>8 DEF Finish
  <2>9. ASSUME NEW i \in Image, Job(i) PROVE TypeOK'
    <3>1. CASE StartGrype(i)
      BY <3>1 DEF StartGrype, Stage
    <3>2. CASE GrypeExits(i)
      <4>1. "clean" \in File
        BY DEF File, Lists
      <4>2. Append1("clean", i) \in [File -> [Image -> Nat]]
        BY <4>1, AppendCounts
      <4>3. lines' \in {lines, Append1("clean", i)}
        BY <3>2 DEF GrypeExits
      <4>4. stage' \in [Image -> Stage]
        BY <3>2 DEF GrypeExits, Stage
      <4> QED BY <3>2, <4>2, <4>3, <4>4 DEF GrypeExits
    <3>3. CASE Categorise(i)
      <4>1. Category(matches[i]) \in File
        BY DEF Category, File, Lists
      <4>2. lines' \in [File -> [Image -> Nat]]
        BY <3>3, <4>1, AppendCounts DEF Categorise
      <4> QED BY <3>3, <4>2 DEF Categorise, Stage
    <3>4. CASE ScanDies(i)
      BY <3>4 DEF ScanDies, Stage
    <3>5. CASE RecordFailure(i)
      BY <3>5, AppendCounts DEF RecordFailure, Stage, File, Lists
    <3> QED BY <2>9, <3>1, <3>2, <3>3, <3>4, <3>5 DEF Job
  <2>10. CASE Publish
    BY <2>10 DEF Publish
  <2>11. CASE UNCHANGED vars
    BY <2>11 DEF vars
  <2> QED
    BY <2>1, <2>2, <2>3, <2>4, <2>5, <2>6, <2>7, <2>8, <2>9, <2>10, <2>11
    DEF Next, Main, Terminated
<1> QED BY <1>1, <1>2, PTL DEF Spec
----------------------------------------------------------------------------
(* The inductive invariant, in parts.                                      *)

(* The loop starts the listed images in order, each once. *)
LoopInv ==
  /\ next <= listed + 1
  /\ \A i \in Image : (stage[i] = "idle") <=> (i >= next)
  /\ pc \in {"prep", "db_update", "list"} => next = 1 /\ listed = NumImages
  /\ auto_update => pc \in {"prep", "db_update", "failed"} /\ next = 1

(* The main shell has ended only when no job is left. *)
EndInv == pc \in {"ok", "failed"} => Running = {}

(* A slot that was found free stays free until it is used. *)
SlotInv ==
  /\ Cardinality(Running) <= scan_parallelism
  /\ pc \in {"check", "spawn"} => Cardinality(Running) < scan_parallelism

(* An image that slipped in is the last one to start. *)
LateInv ==
  /\ BestEffortStop
  /\ late # {} => AnyFailed /\ pc \notin {"prep", "db_update", "spawn"}
  /\ scan_parallelism = 1 /\ pc = "spawn" => ~AnyFailed

(* The files name the images whose jobs have ended, each once. *)
NamedOnce(i) ==
  \E v \in {Category(matches[i]), "failed"} :
    \A f \in File : lines[f][i] = IF f = v THEN 1 ELSE 0

ListsInv ==
  pc \notin {"prep", "failed"} =>
    \A i \in Image : IF stage[i] = "done" THEN NamedOnce(i)
                     ELSE \A f \in File : lines[f][i] = 0

(* The loop ends early only on a failure, and success means none; images   *)
(* that were not listed are not started.                                   *)
DrainInv ==
  /\ pc = "drain" => AnyFailed \/ next = listed + 1
  /\ pc = "ok" => ~AnyFailed /\ next = listed + 1
----------------------------------------------------------------------------
(* What a step of a job leaves alone. *)
LEMMA JobStep ==
  ASSUME TypeOK, NEW i \in Image, Job(i)
  PROVE  /\ UNCHANGED <<scan_parallelism, matches, pc, listed, next, auto_update, late>>
         /\ stage[i] \notin {"idle", "done"}
         /\ \E s \in Stage \ {"idle"} : stage' = [stage EXCEPT ![i] = s]
<1> USE DEF inputs, Stage, TypeOK
<1>1. CASE StartGrype(i)
  BY <1>1 DEF StartGrype
<1>2. CASE GrypeExits(i)
  BY <1>2 DEF GrypeExits
<1>3. CASE Categorise(i)
  BY <1>3 DEF Categorise
<1>4. CASE ScanDies(i)
  BY <1>4 DEF ScanDies
<1>5. CASE RecordFailure(i)
  BY <1>5 DEF RecordFailure
<1> QED BY <1>1, <1>2, <1>3, <1>4, <1>5 DEF Job

(* Every image is started once, in the order of the list. *)
THEOREM LoopCorrect == Spec => []LoopInv
<1>1. Init => LoopInv
  BY ScanAssumption DEF Init, ScanAssumption, LoopInv, Image
<1>2. TypeOK /\ LoopInv /\ [Next]_vars => LoopInv'
  <2> SUFFICES ASSUME TypeOK, LoopInv, [Next]_vars PROVE LoopInv'
    OBVIOUS
  <2> USE DEF LoopInv, Image
  <2>1. CASE FilePrep \/ UpdateDb \/ GetImages \/ AbortMain
    BY <2>1, ScanAssumption DEF FilePrep, UpdateDb, GetImages, AbortMain, ScanAssumption
  <2>2. CASE WaitForSlot \/ CheckFailed \/ ListExhausted \/ Finish
    BY <2>2 DEF WaitForSlot, CheckFailed, ListExhausted, Finish
  <2>3. CASE Spawn
    BY <2>3, ScanAssumption DEF Spawn, TypeOK, Stage, ScanAssumption
  <2>4. ASSUME NEW i \in Image, Job(i) PROVE LoopInv'
    <3>1. /\ UNCHANGED <<pc, listed, next, auto_update>>
          /\ \A j \in Image : (stage'[j] = "idle") <=> (stage[j] = "idle")
      BY <2>4, JobStep DEF TypeOK
    <3> QED BY <3>1
  <2>5. CASE Publish \/ UNCHANGED vars
    BY <2>5 DEF Publish, vars
  <2> QED BY <2>1, <2>2, <2>3, <2>4, <2>5 DEF Next, Main, Terminated
<1> QED BY <1>1, <1>2, TypeCorrect, PTL DEF Spec

(* The main shell never ends with a job still running. *)
THEOREM EndCorrect == Spec => []EndInv
<1>1. Init => EndInv
  BY DEF Init, EndInv
<1>2. TypeOK /\ LoopInv /\ EndInv /\ [Next]_vars => EndInv'
  <2> SUFFICES ASSUME TypeOK, LoopInv, EndInv, [Next]_vars PROVE EndInv'
    OBVIOUS
  <2> USE DEF EndInv, Running
  <2>1. CASE AbortMain
    BY <2>1, ScanAssumption DEF AbortMain, LoopInv, Image, ScanAssumption
  <2>2. CASE Finish
    BY <2>2 DEF Finish
  <2>3. CASE FilePrep \/ UpdateDb \/ GetImages \/ WaitForSlot \/ CheckFailed \/ Spawn
             \/ ListExhausted
    BY <2>3 DEF FilePrep, UpdateDb, GetImages, WaitForSlot, CheckFailed, Spawn, ListExhausted
  <2>4. ASSUME NEW i \in Image, Job(i) PROVE EndInv'
    BY <2>4, JobStep
  <2>5. CASE Publish \/ UNCHANGED vars
    BY <2>5 DEF Publish, vars
  <2> QED BY <2>1, <2>2, <2>3, <2>4, <2>5 DEF Next, Main, Terminated
<1> QED BY <1>1, <1>2, TypeCorrect, LoopCorrect, PTL DEF Spec

(* A step adds at most the image it starts to the running jobs. *)
LEMMA RunningStep ==
  ASSUME TypeOK, [Next]_vars
  PROVE  \/ Running' \subseteq Running
         \/ Spawn /\ Running' \subseteq Running \cup {next}
<1> USE DEF Running
<1>1. CASE Spawn
  BY <1>1 DEF Spawn, TypeOK
<1>2. CASE FilePrep \/ UpdateDb \/ GetImages \/ AbortMain \/ WaitForSlot \/ CheckFailed
             \/ ListExhausted \/ Finish
  BY <1>2 DEF FilePrep, UpdateDb, GetImages, AbortMain, WaitForSlot, CheckFailed,
              ListExhausted, Finish
<1>3. ASSUME NEW i \in Image, Job(i) PROVE Running' \subseteq Running
  <2>1. \A j \in Image : stage'[j] \notin {"idle", "done"} => stage[j] \notin {"idle", "done"}
    BY <1>3, JobStep DEF TypeOK
  <2> QED BY <2>1
<1>4. CASE Publish \/ UNCHANGED vars
  BY <1>4 DEF Publish, vars
<1> QED BY <1>1, <1>2, <1>3, <1>4 DEF Next, Main, Terminated

(* The job count of a set of images is a number and grows with the set. *)
LEMMA RunningFinite ==
  /\ IsFiniteSet(Running) /\ Cardinality(Running) \in Nat
  /\ IsFiniteSet(Running') /\ Cardinality(Running') \in Nat
<1>1. IsFiniteSet(Image)
  BY ScanAssumption, FS_Interval DEF Image, ScanAssumption
<1>2. Running \subseteq Image /\ Running' \subseteq Image
  BY DEF Running
<1> QED BY <1>1, <1>2, FS_Subset, FS_CardinalityType

(* Counting the jobs and starting one are two steps; the count is still    *)
(* true at the second, because only the main shell starts jobs.            *)
THEOREM SlotCorrect == Spec => []SlotInv
<1>1. Init => SlotInv
  <2> SUFFICES ASSUME Init PROVE SlotInv
    OBVIOUS
  <2>1. Running = {}
    BY DEF Init, Running
  <2> QED BY <2>1, FS_EmptySet, ScanAssumption DEF Init, SlotInv, ScanAssumption
<1>2. TypeOK /\ SlotInv /\ [Next]_vars => SlotInv'
  <2> SUFFICES ASSUME TypeOK, SlotInv, [Next]_vars PROVE SlotInv'
    OBVIOUS
  <2>1. scan_parallelism' = scan_parallelism /\ scan_parallelism \in Nat
    BY JobStep DEF Next, Main, FilePrep, UpdateDb, GetImages, AbortMain, WaitForSlot, CheckFailed,
       Spawn, ListExhausted, Finish, Publish, Terminated, vars, inputs, TypeOK
  <2>2. CASE Spawn
    <3>1. Running' \subseteq Running \cup {next}
      BY <2>2, RunningStep
    <3>2. /\ IsFiniteSet(Running \cup {next})
          /\ Cardinality(Running \cup {next})
               = IF next \in Running THEN Cardinality(Running) ELSE Cardinality(Running) + 1
      BY RunningFinite, FS_AddElement
    <3>3. Cardinality(Running') <= Cardinality(Running \cup {next})
      BY <3>1, <3>2, FS_Subset
    <3>4. Cardinality(Running) < scan_parallelism /\ pc' = "slot"
      BY <2>2 DEF Spawn, SlotInv
    <3>5. Cardinality(Running \cup {next}) \in Nat
      BY <3>2, FS_CardinalityType
    <3> QED BY <2>1, <3>2, <3>3, <3>4, <3>5, RunningFinite DEF SlotInv
  <2>3. CASE ~Spawn
    <3>1. Cardinality(Running') <= Cardinality(Running)
      BY <2>3, RunningStep, RunningFinite, FS_Subset
    <3>2. pc' \in {"check", "spawn"} =>
            Cardinality(Running) < scan_parallelism
      BY <2>3, JobStep DEF Next, Main, FilePrep, UpdateDb, GetImages, AbortMain, WaitForSlot,
         CheckFailed, ListExhausted, Finish, Publish, Terminated, vars, SlotInv
    <3> QED BY <2>1, <3>1, <3>2, RunningFinite DEF SlotInv
  <2> QED BY <2>2, <2>3
<1> QED BY <1>1, <1>2, TypeCorrect, PTL DEF Spec

(* ParallelismRespected, for every SCAN_PARALLELISM and every list. *)
THEOREM ParallelismCorrect == Spec => []ParallelismRespected
<1>1. SlotInv => ParallelismRespected
  BY DEF SlotInv, ParallelismRespected
<1> QED BY <1>1, SlotCorrect, PTL

(* The database is replaced only while no scan reads it. *)
THEOREM DbCorrect == Spec => DbStableDuringScans
<1> DEFINE Quiet == db' # db => \A i \in Image : stage[i] # "scanning"
<1>1. TypeOK /\ LoopInv /\ [Next]_vars => [Quiet]_vars
  <2> SUFFICES ASSUME TypeOK, LoopInv, [Next]_vars, db' # db PROVE Quiet
    OBVIOUS
  <2>1. CASE UpdateDb \/ AbortMain
    BY <2>1, ScanAssumption DEF UpdateDb, AbortMain, LoopInv, Image, ScanAssumption
  <2>2. ASSUME NEW i \in Image, StartGrype(i) PROVE Quiet
    BY <2>2 DEF StartGrype, LoopInv, Image
  <2> QED BY <2>1, <2>2 DEF Next, Main, Job, FilePrep, GetImages, WaitForSlot, CheckFailed, Spawn,
       ListExhausted, Finish, GrypeExits, Categorise, ScanDies, RecordFailure,
       Publish, Terminated, vars
<1> QED BY <1>1, TypeCorrect, LoopCorrect, PTL DEF Spec, DbStableDuringScans

(* What a step of a job does to the files: it ends without a line, or it   *)
(* writes the one line its image has.                                      *)
LEMMA JobLines ==
  ASSUME TypeOK, NEW i \in Image, Job(i)
  PROVE  \/ lines' = lines /\ \E s \in Stage \ {"idle", "done"} : stage' = [stage EXCEPT ![i] = s]
         \/ /\ \E v \in {Category(matches[i]), "failed"} : lines' = Append1(v, i)
            /\ stage' = [stage EXCEPT ![i] = "done"]
<1> USE DEF Stage
<1>1. CASE StartGrype(i)
  BY <1>1 DEF StartGrype
<1>2. CASE GrypeExits(i)
  <2>1. ~FailsOnHigh(matches[i]) => Category(matches[i]) = "clean"
    BY DEF FailsOnHigh, Category, Summary
  <2> QED BY <1>2, <2>1 DEF GrypeExits
<1>3. CASE Categorise(i)
  BY <1>3 DEF Categorise
<1>4. CASE ScanDies(i)
  BY <1>4 DEF ScanDies
<1>5. CASE RecordFailure(i)
  BY <1>5 DEF RecordFailure
<1> QED BY <1>1, <1>2, <1>3, <1>4, <1>5 DEF Job

LEMMA CategoryType ==
  ASSUME NEW ms
  PROVE  Category(ms) \in Lists /\ Category(ms) \in File /\ "failed" \in File
                /\ Category(ms) # "failed"
BY DEF Category, Lists, File

(* The files name every image whose job has ended once, in its own list or *)
(* in failed-images.txt, and no other image.                               *)
THEOREM ListsCorrect == Spec => []ListsInv
<1>1. Init => ListsInv
  BY DEF Init, ListsInv
<1>2. TypeOK /\ LoopInv /\ EndInv /\ ListsInv /\ [Next]_vars => ListsInv'
  <2> SUFFICES ASSUME TypeOK, LoopInv, EndInv, ListsInv, [Next]_vars PROVE ListsInv'
    OBVIOUS
  <2>1. CASE FilePrep
    <3>1. \A i \in Image : stage'[i] # "done" /\ \A f \in File : lines'[f][i] = 0
      BY <2>1, ScanAssumption DEF FilePrep, LoopInv, Image, ScanAssumption
    <3> QED BY <3>1 DEF ListsInv
  <2>2. CASE AbortMain
    BY <2>2 DEF AbortMain, ListsInv
  <2>3. CASE Spawn
    <3>1. /\ UNCHANGED <<matches, lines>> /\ pc = "spawn"
          /\ stage[next] = "idle" /\ stage' = [stage EXCEPT ![next] = "started"]
      BY <2>3 DEF Spawn, inputs, TypeOK, LoopInv, Image
    <3>2. \A i \in Image : (stage'[i] = "done") <=> (stage[i] = "done")
      BY <3>1 DEF TypeOK
    <3> QED BY <3>1, <3>2 DEF ListsInv, NamedOnce
  <2>4. CASE UpdateDb \/ GetImages \/ WaitForSlot \/ CheckFailed \/ ListExhausted \/ Finish
             \/ Publish \/ UNCHANGED vars
    <3>1. UNCHANGED <<matches, lines, stage>> /\ (pc' \in {"prep", "failed"} \/ pc \notin {"prep", "failed"})
      BY <2>4 DEF UpdateDb, GetImages, WaitForSlot, CheckFailed, ListExhausted, Finish, Publish,
                  vars, inputs
    <3> QED BY <3>1 DEF ListsInv, NamedOnce
  <2>5. ASSUME NEW i \in Image, Job(i) PROVE ListsInv'
    <3>1. /\ UNCHANGED <<matches, pc>>
          /\ stage[i] \notin {"idle", "done"}
          /\ \A j \in Image \ {i} : stage'[j] = stage[j]
      BY <2>5, JobStep DEF TypeOK
    <3>2. pc \notin {"prep", "failed"}
      BY <3>1, ScanAssumption DEF LoopInv, EndInv, Running, Image, ScanAssumption
    <3>3. /\ \A f \in File : lines[f][i] = 0
          /\ \A j \in Image : IF stage[j] = "done" THEN NamedOnce(j)
                              ELSE \A f \in File : lines[f][j] = 0
      BY <3>1, <3>2 DEF ListsInv
    <3>4. CASE lines' = lines /\ \E s \in Stage \ {"idle", "done"} : stage' = [stage EXCEPT ![i] = s]
      <4>1. stage'[i] # "done"
        BY <3>4 DEF TypeOK
      <4> QED BY <3>1, <3>3, <3>4, <4>1 DEF ListsInv, NamedOnce
    <3>5. ASSUME NEW v \in {Category(matches[i]), "failed"}, lines' = Append1(v, i),
                 stage' = [stage EXCEPT ![i] = "done"]
          PROVE  ListsInv'
      <4>1. \A g \in File, j \in Image :
              lines'[g][j] = IF g = v /\ j = i THEN lines[g][j] + 1 ELSE lines[g][j]
        BY <3>5, CategoryType, AppendCounts DEF TypeOK
      <4>2. NamedOnce(i)'
        BY <3>1, <3>3, <4>1 DEF NamedOnce
      <4>3. \A j \in Image \ {i}, f \in File : lines'[f][j] = lines[f][j]
        BY <4>1
      <4>4. \A j \in Image \ {i} : NamedOnce(j) => NamedOnce(j)'
        BY <3>1, <4>3 DEF NamedOnce
      <4>5. stage'[i] = "done"
        BY <3>5 DEF TypeOK
      <4> QED BY <3>1, <3>3, <4>2, <4>3, <4>4, <4>5 DEF ListsInv
    <3> QED BY <2>5, <3>4, <3>5, JobLines
  <2> QED BY <2>1, <2>2, <2>3, <2>4, <2>5 DEF Next, Main, Terminated
<1> QED BY <1>1, <1>2, TypeCorrect, LoopCorrect, EndCorrect, PTL DEF Spec

(* A failure on record stays there, and only a job can add one. *)
LEMMA FailedStep ==
  ASSUME TypeOK, [Next]_vars, pc # "prep"
  PROVE  /\ AnyFailed => AnyFailed'
         /\ Running = {} => (AnyFailed' => AnyFailed)
<1>1. CASE lines' = lines
  BY <1>1 DEF AnyFailed
<1>2. ASSUME NEW i \in Image, Job(i)
      PROVE  (AnyFailed => AnyFailed') /\ Running # {}
  <2>1. Running # {}
    BY <1>2, JobStep DEF Running
  <2>2. ASSUME NEW v \in File, lines' = Append1(v, i) PROVE AnyFailed => AnyFailed'
    <3>1. \A g \in File, j \in Image :
            lines'[g][j] = IF g = v /\ j = i THEN lines[g][j] + 1 ELSE lines[g][j]
      BY <2>2, AppendCounts DEF TypeOK
    <3>2. \A j \in Image : lines["failed"][j] \in Nat
      BY DEF TypeOK, File
    <3>3. \A j \in Image : lines["failed"][j] > 0 => lines'["failed"][j] > 0
      BY <3>1, <3>2 DEF File
    <3> QED BY <3>3 DEF AnyFailed
  <2>3. CASE lines' = lines
    BY <2>1, <2>3 DEF AnyFailed
  <2> QED BY <1>2, <2>1, <2>2, <2>3, JobLines, CategoryType
<1> QED
  BY <1>1, <1>2 DEF Next, Main, FilePrep, UpdateDb, GetImages, AbortMain, WaitForSlot, CheckFailed,
     Spawn, ListExhausted, Finish, Publish, Terminated, vars

(* The loop is left early only for a failure, and success means that every *)
(* listed image was started and none failed.                               *)
THEOREM DrainCorrect == Spec => []DrainInv
<1>1. Init => DrainInv
  BY DEF Init, DrainInv
<1>2. TypeOK /\ LoopInv /\ EndInv /\ DrainInv /\ [Next]_vars => DrainInv'
  <2> SUFFICES ASSUME TypeOK, LoopInv, EndInv, DrainInv, [Next]_vars PROVE DrainInv'
    OBVIOUS
  <2>1. pc # "prep" => (AnyFailed => AnyFailed') /\ (Running = {} => (AnyFailed' => AnyFailed))
    BY FailedStep
  <2>2. CASE ListExhausted \/ CheckFailed
    <3>1. pc # "prep" /\ UNCHANGED <<next, listed>> /\ pc' # "ok"
      BY <2>2 DEF ListExhausted, CheckFailed
    <3>2. pc' = "drain" => AnyFailed \/ next = listed + 1
      BY <2>2, ScanAssumption DEF ListExhausted, CheckFailed, TypeOK, LoopInv, ScanAssumption
    <3> QED BY <2>1, <3>1, <3>2 DEF DrainInv
  <2>3. CASE Finish
    <3>1. pc = "drain" /\ UNCHANGED <<next, listed>> /\ Running = {} /\ pc' # "drain"
          /\ (pc' = "ok" => ~AnyFailed)
      BY <2>3 DEF Finish
    <3> QED BY <2>1, <3>1 DEF DrainInv
  <2>4. CASE FilePrep \/ UpdateDb \/ GetImages \/ AbortMain \/ WaitForSlot \/ Spawn
    BY <2>4 DEF FilePrep, UpdateDb, GetImages, AbortMain, WaitForSlot, Spawn, DrainInv
  <2>5. CASE (\E i \in Image : Job(i)) \/ Publish \/ UNCHANGED vars
    <3>1. UNCHANGED <<pc, next, listed>>
      BY <2>5, JobStep DEF Publish, vars
    <3>2. pc = "ok" => Running = {}
      BY DEF EndInv
    <3> QED BY <2>1, <3>1, <3>2 DEF DrainInv
  <2> QED BY <2>2, <2>3, <2>4, <2>5 DEF Next, Main, Terminated
<1> QED BY <1>1, <1>2, TypeCorrect, LoopCorrect, EndCorrect, PTL DEF Spec

(* ListsComplete: exit status 0 means that the lists are correct and name  *)
(* every image that get_images listed: all, or none if docker failed.      *)
THEOREM ListsCompleteCorrect == Spec => []ListsComplete
<1>1. TypeOK /\ LoopInv /\ EndInv /\ ListsInv /\ DrainInv => ListsComplete
  <2> SUFFICES ASSUME TypeOK, LoopInv, EndInv, ListsInv, DrainInv, pc = "ok",
                      NEW i \in Image
               PROVE  \A f \in File : lines[f][i] =
                        IF i <= listed /\ f = Category(matches[i]) THEN 1 ELSE 0
    BY DEF ListsComplete
  <2>1. next = listed + 1 /\ listed \in Nat /\ i \in Nat
    BY ScanAssumption DEF DrainInv, TypeOK, Image, ScanAssumption
  <2>2. CASE i > listed
    <3>1. stage[i] = "idle"
      BY <2>1, <2>2 DEF LoopInv
    <3>2. \A f \in File : lines[f][i] = 0
      BY <3>1 DEF ListsInv
    <3> QED BY <2>1, <2>2, <3>2
  <2>3. CASE i <= listed
    <3>1. stage[i] = "done"
      BY <2>1, <2>3 DEF LoopInv, EndInv, Running
    <3>2. PICK v \in {Category(matches[i]), "failed"} :
            \A f \in File : lines[f][i] = IF f = v THEN 1 ELSE 0
      BY <3>1 DEF ListsInv, NamedOnce
    <3>3. lines["failed"][i] \in Nat /\ ~(lines["failed"][i] > 0)
      BY CategoryType DEF TypeOK, DrainInv, AnyFailed
    <3>4. v # "failed"
      BY <3>2, <3>3, CategoryType
    <3> QED BY <2>3, <3>2, <3>4
  <2> QED BY <2>1, <2>2, <2>3
<1> QED BY <1>1, TypeCorrect, LoopCorrect, EndCorrect, ListsCorrect, DrainCorrect, PTL

(* BestEffortStop, by the invariant that the image that slipped in is the  *)
(* last to be started.                                                     *)
THEOREM LateCorrect == Spec => []LateInv
<1>1. Init => LateInv
  BY DEF Init, LateInv, BestEffortStop
<1>2. TypeOK /\ SlotInv /\ LateInv /\ [Next]_vars => LateInv'
  <2> SUFFICES ASSUME TypeOK, SlotInv, LateInv, [Next]_vars PROVE LateInv'
    OBVIOUS
  <2>1. pc # "prep" => (AnyFailed => AnyFailed') /\ (Running = {} => (AnyFailed' => AnyFailed))
    BY FailedStep
  <2>2. scan_parallelism = 1 /\ pc \in {"check", "spawn"} => Running = {}
    BY RunningFinite, FS_EmptySet DEF SlotInv
  <2>3. CASE FilePrep
    BY <2>3 DEF FilePrep, LateInv, BestEffortStop
  <2>4. CASE CheckFailed
    BY <2>1, <2>2, <2>4 DEF CheckFailed, inputs, LateInv, BestEffortStop
  <2>5. CASE Spawn
    <3>1. late = {} /\ pc = "spawn" /\ pc' = "slot" /\ scan_parallelism' = scan_parallelism
      BY <2>5 DEF Spawn, LateInv, inputs
    <3>2. late' = IF AnyFailed THEN {next} ELSE {}
      BY <2>5, <3>1 DEF Spawn
    <3> QED BY <2>1, <3>1, <3>2 DEF LateInv, BestEffortStop
  <2>6. CASE UpdateDb \/ GetImages \/ AbortMain \/ WaitForSlot \/ ListExhausted \/ Finish
    <3>1. /\ UNCHANGED <<scan_parallelism, late>> /\ pc' \notin {"prep", "db_update", "spawn"}
          /\ (pc = "prep" => late' = {})
      BY <2>6 DEF UpdateDb, GetImages, AbortMain, WaitForSlot, ListExhausted, Finish, inputs, LateInv
    <3> QED BY <2>1, <3>1 DEF LateInv, BestEffortStop
  <2>7. CASE (\E i \in Image : Job(i)) \/ Publish \/ UNCHANGED vars
    <3>1. UNCHANGED <<scan_parallelism, late, pc>>
      BY <2>7, JobStep DEF Publish, vars, inputs
    <3> QED BY <2>1, <2>2, <3>1 DEF LateInv, BestEffortStop
  <2> QED BY <2>3, <2>4, <2>5, <2>6, <2>7 DEF Next, Main, Terminated
<1> QED BY <1>1, <1>2, TypeCorrect, SlotCorrect, PTL DEF Spec

(* At most one image slips in after a failure, none when scans run singly. *)
THEOREM BestEffortCorrect == Spec => []BestEffortStop
<1>1. LateInv => BestEffortStop
  BY DEF LateInv
<1> QED BY <1>1, LateCorrect, PTL
----------------------------------------------------------------------------
(* The refinement: the verdict read from the files is that of the contract. *)

LEMMA VerdictIs ==
  ASSUME NEW i \in Image, NEW v \in File, stage[i] = "done",
         \A f \in File : lines[f][i] = IF f = v THEN 1 ELSE 0
  PROVE  VerdictOf(i) = v
<1>1. \A f \in File : (lines[f][i] > 0) <=> (f = v)
  OBVIOUS
<1>2. (CHOOSE f \in File : lines[f][i] > 0) = v
  BY <1>1
<1> QED BY <1>2 DEF VerdictOf

(* The verdict of an image whose job has ended. *)
LEMMA VerdictDone ==
  ASSUME ListsInv, pc \notin {"prep", "failed"}, NEW i \in Image, stage[i] = "done"
  PROVE  /\ VerdictOf(i) \in {Category(matches[i]), "failed"}
         /\ \A f \in File : lines[f][i] = IF f = VerdictOf(i) THEN 1 ELSE 0
<1>1. PICK v \in {Category(matches[i]), "failed"} :
        \A f \in File : lines[f][i] = IF f = v THEN 1 ELSE 0
  BY DEF ListsInv, NamedOnce
<1>2. v \in File
  BY CategoryType
<1>3. VerdictOf(i) = v
  BY <1>1, <1>2, VerdictIs
<1> QED BY <1>1, <1>3

(* Verdicts change only when a job ends. *)
LEMMA VerdictKept ==
  ASSUME NEW i \in Image, (stage[i] = "done") <=> (stage'[i] = "done"),
         stage[i] = "done" => lines' = lines
  PROVE  VerdictOf(i)' = VerdictOf(i)
<1>1. CASE stage[i] = "done"
  BY <1>1 DEF VerdictOf
<1>2. CASE stage[i] # "done"
  BY <1>2 DEF VerdictOf
<1> QED BY <1>1, <1>2

(* ImplementsContract: the scan, processes and all, keeps to ScanContract. *)
THEOREM Implementation == Spec => ImplementsContract
<1> DEFINE verdict == [i \in Image |-> VerdictOf(i)]
           outcome == IF pc \in {"ok", "failed"} THEN pc ELSE "running"
           severity == [i \in Image |-> Category(matches[i])]
           images == 1..listed
<1>1. Init => Contract!Init
  BY CategoryType DEF Init, Contract!Init, Contract!Severity, VerdictOf, Lists, Image
<1>2. /\ TypeOK /\ LoopInv /\ EndInv /\ ListsInv /\ ListsInv' /\ DrainInv
      /\ [Next]_vars
      => [Contract!Next]_Contract!vars
  <2> SUFFICES ASSUME TypeOK, LoopInv, EndInv, ListsInv, ListsInv', DrainInv, [Next]_vars
               PROVE  \/ Contract!Next
                      \/ /\ severity' = severity /\ images' = images
                         /\ verdict' = verdict /\ outcome' = outcome
    BY DEF Contract!vars
  <2>1. severity' = severity
    BY JobStep DEF Next, Main, FilePrep, UpdateDb, GetImages, AbortMain, WaitForSlot, CheckFailed,
       Spawn, ListExhausted, Finish, Publish, Terminated, vars, inputs
  <2>2. CASE FilePrep \/ UpdateDb \/ WaitForSlot \/ CheckFailed \/ ListExhausted \/ Spawn
    <3>1. outcome' = outcome /\ images' = images
      BY <2>2 DEF FilePrep, UpdateDb, WaitForSlot, CheckFailed, ListExhausted, Spawn
    <3>2. ASSUME NEW i \in Image
          PROVE  /\ (stage[i] = "done") <=> (stage'[i] = "done")
                 /\ stage[i] = "done" => lines' = lines
      BY <2>2, ScanAssumption DEF FilePrep, UpdateDb, WaitForSlot, CheckFailed,
         ListExhausted, Spawn, LoopInv, Image, TypeOK, ScanAssumption
    <3> QED BY <2>1, <3>1, <3>2, VerdictKept
  <2>3. CASE Publish \/ UNCHANGED vars
    <3>1. UNCHANGED <<pc, listed, stage, lines>>
      BY <2>3 DEF Publish, vars
    <3> QED BY <2>1, <3>1, VerdictKept
  <2>4. CASE GetImages
    <3>1. UNCHANGED <<stage, lines>> /\ outcome = "running" /\ outcome' = outcome
      BY <2>4 DEF GetImages
    <3>2. verdict' = verdict
      BY <3>1, VerdictKept
    <3>3. \A i \in Image : verdict[i] = "pending"
      BY <2>4, ScanAssumption DEF GetImages, LoopInv, Image, ScanAssumption, VerdictOf
    <3>4. images' = images \/ images' = {}
      <4>1. listed' = listed \/ listed' = 0
        BY <2>4, ScanAssumption DEF GetImages, LoopInv, ScanAssumption
      <4>2. 1..0 = {}
        OBVIOUS
      <4> QED BY <4>1, <4>2
    <3> QED BY <2>1, <3>1, <3>2, <3>3, <3>4 DEF Contract!Next, Contract!LoseList
  <2>5. CASE AbortMain
    <3>1. UNCHANGED <<listed, stage, lines>> /\ outcome = "running" /\ outcome' = "failed"
      BY <2>5 DEF AbortMain
    <3>2. \A i \in Image : stage[i] # "done"
      BY <2>5, ScanAssumption DEF AbortMain, LoopInv, Image, ScanAssumption
    <3>3. verdict' = verdict
      BY <3>1, VerdictKept
    <3>4. \A i \in Image : verdict[i] = "pending"
      BY <3>2 DEF VerdictOf
    <3>5. images = Image /\ images' = images
      BY <2>5, <3>1 DEF AbortMain, LoopInv, Image
    <3> QED BY <2>1, <3>1, <3>3, <3>4, <3>5 DEF Contract!Next, Contract!Fail
  <2>6. CASE Finish
    <3>1. /\ UNCHANGED <<listed, stage, lines>> /\ outcome = "running" /\ pc = "drain"
          /\ Running = {} /\ outcome' = IF AnyFailed THEN "failed" ELSE "ok"
      BY <2>6 DEF Finish
    <3>2. verdict' = verdict
      BY <3>1, VerdictKept
    <3>3. CASE AnyFailed
      <4>1. PICK i \in Image : lines["failed"][i] > 0
        BY <3>3 DEF AnyFailed
      <4>2. stage[i] = "done"
        BY <3>1, <4>1, CategoryType DEF ListsInv
      <4>3. VerdictOf(i) = "failed"
        BY <3>1, <4>1, <4>2, VerdictDone, CategoryType
      <4> QED BY <2>1, <3>1, <3>2, <3>3, <4>3 DEF Contract!Next, Contract!Fail
    <3>4. CASE ~AnyFailed
      <4>1. ASSUME NEW i \in images PROVE i \in Image /\ VerdictOf(i) \in Contract!Severity
        <5>1. next = listed + 1 /\ listed \in 0..NumImages /\ i \in 1..listed
          BY <3>1, <3>4, ScanAssumption DEF DrainInv, TypeOK, ScanAssumption
        <5>2. i \in Image /\ i < next
          BY <5>1, ScanAssumption DEF Image, ScanAssumption
        <5>3. stage[i] = "done"
          BY <3>1, <5>1, <5>2 DEF LoopInv, Running
        <5>4. lines["failed"][i] \in Nat /\ ~(lines["failed"][i] > 0)
          BY <3>4, <5>2, CategoryType DEF TypeOK, AnyFailed
        <5>5. VerdictOf(i) # "failed"
          BY <3>1, <5>2, <5>3, <5>4, VerdictDone, CategoryType
        <5> QED BY <3>1, <5>2, <5>3, <5>5, VerdictDone, CategoryType DEF Contract!Severity, Lists
      <4> QED BY <2>1, <3>1, <3>2, <3>4, <4>1 DEF Contract!Next, Contract!Succeed
    <3> QED BY <3>3, <3>4
  <2>7. ASSUME NEW i \in Image, Job(i)
        PROVE  Contract!Next \/ UNCHANGED <<verdict, images, outcome>>
    <3>1. /\ UNCHANGED <<matches, pc, listed>> /\ stage[i] \notin {"idle", "done"}
          /\ \A j \in Image \ {i} : stage'[j] = stage[j]
      BY <2>7, JobStep DEF TypeOK
    <3>2. pc \notin {"prep", "failed", "ok"}
      BY <3>1, ScanAssumption DEF LoopInv, EndInv, Running, Image, ScanAssumption
    <3>3. CASE lines' = lines /\ \E s \in Stage \ {"idle", "done"} : stage' = [stage EXCEPT ![i] = s]
      <4>1. stage'[i] # "done"
        BY <3>3 DEF TypeOK
      <4> QED BY <3>1, <3>3, <4>1, VerdictKept
    <3>4. ASSUME NEW v \in {Category(matches[i]), "failed"}, lines' = Append1(v, i),
                 stage' = [stage EXCEPT ![i] = "done"]
          PROVE  Contract!Next
      <4>1. \A g \in File, j \in Image :
              lines'[g][j] = IF g = v /\ j = i THEN lines[g][j] + 1 ELSE lines[g][j]
        BY <3>4, CategoryType, AppendCounts DEF TypeOK
      <4>2. \A j \in Image \ {i} : VerdictOf(j)' = VerdictOf(j)
        <5> SUFFICES ASSUME NEW j \in Image \ {i} PROVE VerdictOf(j)' = VerdictOf(j)
          OBVIOUS
        <5>1. \A f \in File : lines'[f][j] = lines[f][j]
          BY <4>1
        <5>2. CASE stage[j] # "done"
          BY <3>1, <5>2 DEF VerdictOf
        <5>3. CASE stage[j] = "done"
          <6> DEFINE w == VerdictOf(j)
          <6>1. /\ w \in {Category(matches[j]), "failed"}
                /\ \A f \in File : lines[f][j] = IF f = w THEN 1 ELSE 0
            BY <3>2, <5>3, VerdictDone
          <6> HIDE DEF w
          <6>2. w \in File /\ \A f \in File : (lines'[f][j] > 0) <=> (f = w)
            BY <5>1, <6>1, CategoryType
          <6>3. (CHOOSE f \in File : lines'[f][j] > 0) = w
            BY <6>2
          <6>4. VerdictOf(j)' = w
            BY <3>1, <5>3, <6>3 DEF VerdictOf
          <6> QED BY <6>4 DEF w
        <5> QED BY <5>2, <5>3
      <4>3. \A f \in File : lines'[f][i] = IF f = v THEN 1 ELSE 0
        BY <3>1, <3>2, <4>1 DEF ListsInv
      <4>4. stage'[i] = "done"
        BY <3>4 DEF TypeOK
      <4>5. v \in File /\ \A f \in File : (lines'[f][i] > 0) <=> (f = v)
        BY <4>3, CategoryType
      <4>6. (CHOOSE f \in File : lines'[f][i] > 0) = v
        BY <4>5
      <4>7. VerdictOf(i)' = v
        BY <4>4, <4>6 DEF VerdictOf
      <4>8. VerdictOf(i) = "pending"
        BY <3>1 DEF VerdictOf
      <4>9. verdict' = [verdict EXCEPT ![i] = v] /\ verdict[i] = "pending"
        BY <4>2, <4>7, <4>8
      <4>10. /\ v \in {severity[i], "failed"} /\ outcome = "running"
             /\ UNCHANGED <<images, outcome>>
        BY <3>1, <3>2
      <4>11. i \in images
        BY <3>1, ScanAssumption DEF LoopInv, TypeOK, Image, ScanAssumption
      <4>12. Contract!Judge(i)
        BY <2>1, <4>9, <4>10, <4>11 DEF Contract!Judge
      <4> QED BY <4>12 DEF Contract!Next
    <3> QED BY <2>7, <3>3, <3>4, JobLines
  <2> QED BY <2>1, <2>2, <2>3, <2>4, <2>5, <2>6, <2>7 DEF Next, Main, Terminated
<1> QED
  BY <1>1, <1>2, TypeCorrect, LoopCorrect, EndCorrect, ListsCorrect, DrainCorrect, PTL
  DEF Spec, ImplementsContract, Contract!Spec
============================================================================
