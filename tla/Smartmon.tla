----------------------------- MODULE Smartmon ------------------------------
(***************************************************************************)
(* etc/kayobe/ansible/scripts/smartmon.py, as cron runs it every five      *)
(* minutes: read the SMART state of every disk, write the metrics to       *)
(* smartmon.prom.temp and move that file over smartmon.prom, which the     *)
(* node exporter reads.                                                    *)
(*                                                                         *)
(* cron does not wait for the last run: a run held up by a slow disk may   *)
(* overlap the next one, and both use the same temporary file.  A disk may *)
(* answer a query with something that is not JSON, and a run may be killed *)
(* between any two of its steps.                                           *)
(***************************************************************************)
EXTENDS Naturals, Sequences, FiniteSets

CONSTANTS
  NumDisks,    \* disks, in the order DeviceList returns them
  Snapshots,   \* what the disks may look like to a run
  MaxRuns,     \* bound: runs cron starts
  MaxOverlap   \* bound: runs in progress at a time

Disk == 1..NumDisks

(* failed: the attributes with a WHEN_FAILED value; attr and log: what     *)
(* pySMART and the JSON health log hold for a counter of an NVMe disk.     *)
FailedAttr == [past : BOOLEAN, thermal : BOOLEAN]
Reading ==
  [serial : BOOLEAN, assessment : {"", "PASS", "WARN", "FAIL"},
   failed : SUBSET FailedAttr, capable : BOOLEAN, nvme : BOOLEAN,
   power : {"active", "standby", "not_json"}, details : {"json", "not_json"},
   attr : {"absent", "none", "number"}, log : {"absent", "number"}]

ASSUME SmartmonAssumption ==
  /\ NumDisks \in Nat
  /\ Snapshots \subseteq [Disk -> Reading]
  /\ MaxRuns \in Nat /\ MaxOverlap \in Nat \ {0}

VARIABLES
  run,   \* the runs so far: program counter, disks seen, next disk, metrics,
         \* and (history) the runs in progress when it started
  temp,  \* smartmon.prom.temp
  prom   \* smartmon.prom

vars == <<run, temp, prom>>

Run == DOMAIN run
InProgress == {r \in Run : run[r].pc \notin {"ended", "died"}}
NoFile == [by |-> 0, metrics |-> <<>>]
----------------------------------------------------------------------------
Metric(d, n, v) == <<[disk |-> d, name |-> n, value |-> v]>>
When(p, ms) == IF p THEN ms ELSE <<>>

is_historical_temperature_attr_failure(a) == a.past /\ a.thermal

OnlyHistorical(r) ==
  r.failed # {} /\ \A a \in r.failed : is_historical_temperature_attr_failure(a)

(* Fault: one historical temperature breach excuses every other failure. *)
HealthIfAnyHistorical(r) ==
  CASE r.assessment = "PASS" -> 1
    [] r.assessment = "WARN" /\ (\E a \in r.failed : a.past /\ a.thermal) -> 1
    [] OTHER -> 0

smart_health_value(r) ==
  CASE r.assessment = "PASS" -> 1
    [] r.assessment = "WARN" /\ OnlyHistorical(r) -> 1
    [] OTHER -> 0

parse_device_info(d, r) ==
  When(r.capable,
    Metric(d, "smart_healthy", smart_health_value(r))
      \o Metric(d, "historical_temperature_failure", IF OnlyHistorical(r) THEN 1 ELSE 0))

(* media_errors stands for the counters of the health log, data_units_read *)
(* for the two counters that also give a total in terabytes.               *)
Counters(d, source) ==
  Metric(d, "data_units_read", source) \o Metric(d, "media_errors", source)

parse_if_attributes(d, r) == When(r.attr = "number", Counters(d, "pySMART"))

(* The total is taken from the first source that has a number. *)
Terabytes(d, r) ==
  When(r.attr = "number" \/ r.log = "number",
       Metric(d, "terabytes_read", IF r.attr = "number" THEN "pySMART" ELSE "log"))

(* Fault: the health log is used whatever pySMART has. *)
CollectEvenIfKnown(d, r) ==
  Metric(d, "rated_dwpd", 1) \o Terabytes(d, r)
    \o When(r.log = "number", Counters(d, "log"))

(* The counters that pySMART does not have are taken from the health log.  *)
collect_nvme_metrics(d, r) ==
  Metric(d, "rated_dwpd", 1) \o Terabytes(d, r)
    \o When(r.attr = "absent" /\ r.log = "number", Counters(d, "log"))

(* smartctl -n standby; an answer that is no JSON counts as asleep. *)
is_active(r) == r.power = "active"

Skipped(r) == ~r.serial \/ r.assessment = ""

(* What main appends for one disk. *)
DiskMetrics(d, r) ==
  Metric(d, "device_active", IF is_active(r) THEN 1 ELSE 0)
    \o When(is_active(r),
            parse_device_info(d, r) \o parse_if_attributes(d, r)
              \o When(r.nvme, collect_nvme_metrics(d, r)))

(* json.loads fails on the answer to smartctl -x, and nothing catches it.  *)
Dies(r) == ~Skipped(r) /\ is_active(r) /\ r.nvme /\ r.details = "not_json"
----------------------------------------------------------------------------
Init == run = <<>> /\ temp = NoFile /\ prom = NoFile

(* cron starts a run; DeviceList reads all disks. *)
Start ==
  /\ Len(run) < MaxRuns
  /\ Cardinality(InProgress) < MaxOverlap
  /\ \E disks \in Snapshots :
       run' = Append(run, [pc |-> "loop", seen |-> disks, next |-> 1,
                            metrics |-> <<>>, beside |-> InProgress])
  /\ UNCHANGED <<temp, prom>>

(* Fault: a disk that cannot be read takes the next one with it. *)
ReadDiskSkipsNext(r) ==
  /\ run[r].pc = "loop"
  /\ run[r].next \in Disk
  /\ LET d == run[r].next
         reading == run[r].seen[d] IN
     run' = [run EXCEPT ![r].next = IF Skipped(reading) \/ Dies(reading) THEN d + 2 ELSE d + 1,
                        ![r].pc = IF Dies(reading) THEN "died" ELSE "loop",
                        ![r].metrics = @ \o When(~Skipped(reading), DiskMetrics(d, reading))]
  /\ UNCHANGED <<temp, prom>>

(* One turn of the loop over the disks. *)
ReadDisk(r) ==
  /\ run[r].pc = "loop"
  /\ run[r].next \in Disk
  /\ LET d == run[r].next
         reading == run[r].seen[d] IN
     run' = [run EXCEPT ![r].next = d + 1,
                        ![r].pc = IF Dies(reading) THEN "died" ELSE "loop",
                        ![r].metrics = @ \o When(~Skipped(reading), DiskMetrics(d, reading))]
  /\ UNCHANGED <<temp, prom>>

(* Fault: a temporary file that is already there is kept. *)
WriteKeepsLeftover(r) ==
  /\ run[r].pc = "loop"
  /\ run[r].next \notin Disk
  /\ temp' = IF temp = NoFile THEN [by |-> r, metrics |-> run[r].metrics] ELSE temp
  /\ run' = [run EXCEPT ![r].pc = "move"]
  /\ UNCHANGED prom

(* write_metrics_to_textfile: the file appears whole, by a rename. *)
write_metrics_to_textfile(r) ==
  /\ run[r].pc = "loop"
  /\ run[r].next \notin Disk
  /\ temp' = [by |-> r, metrics |-> run[r].metrics]
  /\ run' = [run EXCEPT ![r].pc = "move"]
  /\ UNCHANGED prom

(* && mv -f: whichever file is there by now; an overlapping run may have   *)
(* moved it already.                                                       *)
Move(r) ==
  /\ run[r].pc = "move"
  /\ run' = [run EXCEPT ![r].pc = "ended"]
  /\ prom' = IF temp = NoFile THEN prom ELSE temp
  /\ temp' = NoFile

Killed(r) ==
  /\ r \in InProgress
  /\ run' = [run EXCEPT ![r].pc = "died"]
  /\ UNCHANGED <<temp, prom>>

Ended == Len(run) = MaxRuns /\ InProgress = {} /\ UNCHANGED vars

Next == Start \/ Ended \/ \E r \in Run :
  ReadDisk(r) \/ write_metrics_to_textfile(r) \/ Move(r) \/ Killed(r)

Spec == Init /\ [][Next]_vars
----------------------------------------------------------------------------
(* Runs and files are of the right shape. *)
TypeOK ==
  /\ \A r \in Run :
       /\ run[r].pc \in {"loop", "move", "ended", "died"}
       /\ run[r].seen \in Snapshots
       /\ run[r].next \in 1..(NumDisks + 1)
       /\ run[r].beside \subseteq 1..(r - 1)
  /\ {temp.by, prom.by} \subseteq {0} \cup Run

Published(d, n) ==
  {m \in {prom.metrics[i] : i \in DOMAIN prom.metrics} : m.disk = d /\ m.name = n}

(* What the last publishing run saw. *)
Seen == run[prom.by].seen

(* smartmon.prom is the output of one run that got through all its disks:  *)
(* each disk with a serial number and an assessment is in it, awake or not, *)
(* and none but those, whatever was killed or overlapped on the way.       *)
PublishedIsWhole ==
  prom # NoFile =>
    /\ run[prom.by].next \notin Disk
    /\ \A d \in Disk : (Published(d, "device_active") = {}) = Skipped(Seen[d])

(* The disks the alert DiskSmartStatusUnhealthy (smart_healthy < 1) fires  *)
(* for are those awake that fail, or warn of anything but temperature or   *)
(* airflow breaches in the past; a warning without a reason counts.        *)
Unhealthy(r) ==
  \/ r.assessment = "FAIL"
  \/ r.assessment = "WARN" /\ (r.failed = {} \/ \E a \in r.failed : ~(a.past /\ a.thermal))

AlertsAreRight ==
  prom # NoFile => \A d \in Disk :
    (\E m \in Published(d, "smart_healthy") : m.value < 1)
      = (Seen[d].serial /\ Seen[d].capable /\ Seen[d].power = "active" /\ Unhealthy(Seen[d]))

(* Three functions contribute to the metrics of a disk, two of them to the *)
(* same counters: none is given twice, or the last value would win.        *)
MetricOnce ==
  \A i, j \in DOMAIN prom.metrics :
    prom.metrics[i].disk = prom.metrics[j].disk /\ prom.metrics[i].name = prom.metrics[j].name
      => i = j

(* What a run moves into place was written by itself or by a run that was  *)
(* in progress together with it: a file left behind by a killed run is     *)
(* never published later, and only an overlap lets older output replace    *)
(* newer.                                                                  *)
Overlapped(r, s) == r \in run[s].beside \/ s \in run[r].beside

PublishesNothingStale ==
  [][/\ prom'.by < prom.by => Overlapped(prom'.by, prom.by)
     /\ \A r \in Run :
          run[r].pc = "move" /\ run'[r].pc = "ended" /\ prom' # prom
            => prom'.by = r \/ Overlapped(prom'.by, r)]_vars

(* "Check if we already got this from pySMART": a counter that the health  *)
(* log of an NVMe disk holds is published, from one source or the other.   *)
CounterNotLost ==
  prom # NoFile => \A d \in Disk :
    LET r == Seen[d] IN
    ~Skipped(r) /\ is_active(r) /\ r.nvme /\ r.log = "number"
      => Published(d, "media_errors") # {}
============================================================================
