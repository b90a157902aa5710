--------------------------- MODULE SmartmonProofs ---------------------------
(***************************************************************************)
(* Proofs about Smartmon, for any number of disks, of runs and of runs at  *)
(* a time, and whatever the disks look like: what is published is whole,   *)
(* right and given once, and nothing stale takes its place.                *)
(***************************************************************************)
EXTENDS Smartmon, TLAPS

Name == {"device_active", "smart_healthy", "historical_temperature_failure",
         "data_units_read", "media_errors", "terabytes_read", "rated_dwpd"}
MetricRec == [disk : Disk, name : Name, value : {0, 1} \cup {"pySMART", "log"}]

Rng(s) == {s[i] : i \in DOMAIN s}

(* Metrics of one disk, of some names, none given twice.                   *)
Once(s) ==
  \A i, j \in DOMAIN s : s[i].disk = s[j].disk /\ s[i].name = s[j].name => i = j

Of(s, d, names) ==
  s \in Seq(MetricRec) /\ Once(s) /\ \A m \in Rng(s) : m.disk = d /\ m.name \in names
----------------------------------------------------------------------------
(* The helpers that the metrics are put together with.                     *)
LEMMA Joined ==
  ASSUME NEW s \in Seq(MetricRec), NEW t \in Seq(MetricRec)
  PROVE  s \o t \in Seq(MetricRec) /\ Rng(s \o t) = Rng(s) \cup Rng(t)
<1>1. s \o t \in Seq(MetricRec) /\ Len(s \o t) = Len(s) + Len(t)
  OBVIOUS
<1>2. ASSUME NEW i \in DOMAIN (s \o t) PROVE (s \o t)[i] \in Rng(s) \cup Rng(t)
  <2>1. i \in 1..(Len(s) + Len(t))
    BY <1>1
  <2>2. (s \o t)[i] = IF i <= Len(s) THEN s[i] ELSE t[i - Len(s)]
    BY <2>1
  <2>3. i <= Len(s) => i \in DOMAIN s
    BY <2>1
  <2>4. ~(i <= Len(s)) => i - Len(s) \in DOMAIN t
    BY <2>1
  <2> QED BY <2>2, <2>3, <2>4 DEF Rng
<1>3. ASSUME NEW i \in DOMAIN s PROVE s[i] \in Rng(s \o t)
  <2>1. i \in DOMAIN (s \o t) /\ (s \o t)[i] = s[i]
    BY <1>1
  <2> QED BY <2>1 DEF Rng
<1>4. ASSUME NEW i \in DOMAIN t PROVE t[i] \in Rng(s \o t)
  <2>1. i + Len(s) \in DOMAIN (s \o t) /\ (s \o t)[i + Len(s)] = t[i]
    BY <1>1
  <2> QED BY <2>1 DEF Rng
<1>5. Rng(s \o t) \subseteq Rng(s) \cup Rng(t)
  BY <1>2 DEF Rng
<1>6. Rng(s) \cup Rng(t) \subseteq Rng(s \o t)
  BY <1>3, <1>4 DEF Rng
<1> QED BY <1>1, <1>5, <1>6

(* Metrics that differ in their disks or in their names can be joined.     *)
LEMMA JoinedOnce ==
  ASSUME NEW s \in Seq(MetricRec), NEW t \in Seq(MetricRec), Once(s), Once(t),
         \A a \in Rng(s), b \in Rng(t) : a.disk # b.disk \/ a.name # b.name
  PROVE  Once(s \o t)
<1> SUFFICES ASSUME NEW i \in DOMAIN (s \o t), NEW j \in DOMAIN (s \o t),
                    (s \o t)[i].disk = (s \o t)[j].disk, (s \o t)[i].name = (s \o t)[j].name
             PROVE  i = j
  BY DEF Once
<1>1. i \in 1..(Len(s) + Len(t)) /\ j \in 1..(Len(s) + Len(t))
  OBVIOUS
<1>2. \A k \in {i, j} :
        /\ k <= Len(s) => k \in DOMAIN s /\ (s \o t)[k] = s[k] /\ s[k] \in Rng(s)
        /\ ~(k <= Len(s)) => /\ k - Len(s) \in DOMAIN t /\ (s \o t)[k] = t[k - Len(s)]
                             /\ t[k - Len(s)] \in Rng(t)
  BY <1>1 DEF Rng
<1>3. i <= Len(s) <=> j <= Len(s)
  BY <1>2
<1>4. CASE i <= Len(s)
  BY <1>2, <1>3, <1>4 DEF Once
<1>5. CASE ~(i <= Len(s))
  <2>1. i - Len(s) = j - Len(s)
    BY <1>2, <1>3, <1>5 DEF Once
  <2> QED BY <1>1, <2>1
<1> QED BY <1>4, <1>5

LEMMA JoinedOf ==
  ASSUME NEW d \in Disk, NEW A, NEW B, A \cap B = {}, NEW s, NEW t, Of(s, d, A), Of(t, d, B)
  PROVE  Of(s \o t, d, A \cup B) /\ Rng(s \o t) = Rng(s) \cup Rng(t)
<1>1. s \in Seq(MetricRec) /\ t \in Seq(MetricRec) /\ Once(s) /\ Once(t)
  BY DEF Of
<1>2. s \o t \in Seq(MetricRec) /\ Rng(s \o t) = Rng(s) \cup Rng(t)
  BY <1>1, Joined
<1>3. \A a \in Rng(s), b \in Rng(t) : a.name # b.name
  BY DEF Of
<1>4. Once(s \o t)
  BY <1>1, <1>3, JoinedOnce
<1> QED BY <1>2, <1>4 DEF Of

LEMMA WhenOf ==
  ASSUME NEW d \in Disk, NEW A, NEW s, NEW p \in BOOLEAN, p => Of(s, d, A)
  PROVE  /\ Of(When(p, s), d, IF p THEN A ELSE {})
         /\ Rng(When(p, s)) = IF p THEN Rng(s) ELSE {}
<1>1. Of(<<>>, d, {}) /\ Rng(<<>>) = {}
  BY DEF Of, Once, Rng
<1> QED BY <1>1 DEF When

LEMMA MetricOf ==
  ASSUME NEW d \in Disk, NEW n \in Name, NEW v \in {0, 1} \cup {"pySMART", "log"}
  PROVE  /\ Of(Metric(d, n, v), d, {n})
         /\ Rng(Metric(d, n, v)) = {[disk |-> d, name |-> n, value |-> v]}
<1> DEFINE m == [disk |-> d, name |-> n, value |-> v]
<1>1. m \in MetricRec /\ m.disk = d /\ m.name = n
  BY DEF MetricRec
<1> HIDE DEF m
<1>2. <<m>> \in Seq(MetricRec) /\ DOMAIN <<m>> = {1} /\ <<m>>[1] = m
  BY <1>1
<1>3. Rng(<<m>>) = {m}
  BY <1>2 DEF Rng
<1>4. Of(<<m>>, d, {n})
  BY <1>1, <1>2, <1>3 DEF Of, Once
<1> QED BY <1>3, <1>4 DEF Metric, m
----------------------------------------------------------------------------
(* What main appends for one disk. *)
HealthNames == {"smart_healthy", "historical_temperature_failure"}
CounterNames == {"data_units_read", "media_errors"}

(* The health value is 0 for the disks that fail or warn of anything else  *)
(* than temperature in the past.                                           *)
LEMMA HealthValue ==
  ASSUME NEW r \in Reading
  PROVE  /\ smart_health_value(r) \in {0, 1}
         /\ ~Skipped(r) => (smart_health_value(r) = 0 <=> Unhealthy(r))
<1>1. r.assessment \in {"", "PASS", "WARN", "FAIL"}
  BY DEF Reading
<1>2. OnlyHistorical(r) <=> r.failed # {} /\ \A a \in r.failed : a.past /\ a.thermal
  BY DEF OnlyHistorical, is_historical_temperature_attr_failure
<1>3. CASE r.assessment = "PASS"
  BY <1>3 DEF smart_health_value, Unhealthy
<1>4. CASE r.assessment = "WARN"
  BY <1>2, <1>4 DEF smart_health_value, Unhealthy
<1>5. CASE r.assessment \in {"", "FAIL"}
  BY <1>5 DEF smart_health_value, Unhealthy, Skipped
<1> QED BY <1>1, <1>3, <1>4, <1>5

LEMMA HealthOf ==
  ASSUME NEW d \in Disk, NEW r \in Reading
  PROVE  /\ Of(parse_device_info(d, r), d, HealthNames)
         /\ ~Skipped(r) =>
              ((\E m \in Rng(parse_device_info(d, r)) : m.name = "smart_healthy" /\ m.value < 1)
                 <=> r.capable /\ Unhealthy(r))
<1> DEFINE h == Metric(d, "smart_healthy", smart_health_value(r))
           past == Metric(d, "historical_temperature_failure", IF OnlyHistorical(r) THEN 1 ELSE 0)
           mh == [disk |-> d, name |-> "smart_healthy", value |-> smart_health_value(r)]
<1>1. smart_health_value(r) \in {0, 1} /\ (IF OnlyHistorical(r) THEN 1 ELSE 0) \in {0, 1}
      /\ r.capable \in BOOLEAN
  BY HealthValue DEF Reading
<1>2. Of(h, d, {"smart_healthy"}) /\ Rng(h) = {mh}
  BY <1>1, MetricOf DEF Name
<1>3. Of(past, d, {"historical_temperature_failure"})
  BY <1>1, MetricOf DEF Name
<1>4. mh.name = "smart_healthy" /\ mh.value = smart_health_value(r)
  OBVIOUS
<1>5. parse_device_info(d, r) = When(r.capable, h \o past)
  BY DEF parse_device_info
<1> HIDE DEF h, past, mh
<1>6. Of(h \o past, d, HealthNames) /\ Rng(h \o past) = {mh} \cup Rng(past)
  <2>1. {"smart_healthy"} \cap {"historical_temperature_failure"} = {}
        /\ HealthNames = {"smart_healthy"} \cup {"historical_temperature_failure"}
    BY DEF HealthNames
  <2>2. Of(h \o past, d, {"smart_healthy"} \cup {"historical_temperature_failure"})
    BY <1>2, <1>3, <2>1, JoinedOf
  <2>3. Rng(h \o past) = Rng(h) \cup Rng(past)
    BY <1>2, <1>3, Joined DEF Of
  <2> QED BY <1>2, <2>1, <2>2, <2>3
<1>7. /\ Of(parse_device_info(d, r), d, IF r.capable THEN HealthNames ELSE {})
      /\ Rng(parse_device_info(d, r)) = IF r.capable THEN {mh} \cup Rng(past) ELSE {}
  BY <1>1, <1>5, <1>6, WhenOf
<1>8. \A m \in Rng(past) : m.name # "smart_healthy"
  BY <1>3 DEF Of
<1>9. (\E m \in Rng(parse_device_info(d, r)) : m.name = "smart_healthy" /\ m.value < 1)
        <=> r.capable /\ smart_health_value(r) = 0
  BY <1>1, <1>4, <1>7, <1>8
<1>10. Of(parse_device_info(d, r), d, HealthNames)
  BY <1>7 DEF Of
<1> QED BY <1>9, <1>10, HealthValue

LEMMA CountersOf ==
  ASSUME NEW d \in Disk, NEW v \in {"pySMART", "log"}
  PROVE  Of(Counters(d, v), d, CounterNames)
<1>1. Of(Metric(d, "data_units_read", v), d, {"data_units_read"})
      /\ Of(Metric(d, "media_errors", v), d, {"media_errors"})
  BY MetricOf DEF Name
<1>2. {"data_units_read"} \cap {"media_errors"} = {}
      /\ CounterNames = {"data_units_read"} \cup {"media_errors"}
  BY DEF CounterNames
<1> QED BY <1>1, <1>2, JoinedOf DEF Counters

(* The counters come from one source at most: each asks for another value  *)
(* of the attribute.                                                       *)
LEMMA AttributesOf ==
  ASSUME NEW d \in Disk, NEW r \in Reading
  PROVE  Of(parse_if_attributes(d, r), d, IF r.attr = "number" THEN CounterNames ELSE {})
BY CountersOf, WhenOf DEF parse_if_attributes

LEMMA NvmeOf ==
  ASSUME NEW d \in Disk, NEW r \in Reading
  PROVE  Of(collect_nvme_metrics(d, r), d,
            {"rated_dwpd", "terabytes_read"}
              \cup IF r.attr = "absent" THEN CounterNames ELSE {})
<1> DEFINE dwpd == Metric(d, "rated_dwpd", 1)
           log == When(r.attr = "absent" /\ r.log = "number", Counters(d, "log"))
           logNames == IF r.attr = "absent" THEN CounterNames ELSE {}
<1>1. Of(dwpd, d, {"rated_dwpd"})
  BY MetricOf DEF Name
<1>2. Of(Terabytes(d, r), d, {"terabytes_read"})
  <2> DEFINE v == IF r.attr = "number" THEN "pySMART" ELSE "log"
  <2>1. Of(Metric(d, "terabytes_read", v), d, {"terabytes_read"})
    BY MetricOf DEF Name
  <2> HIDE DEF v
  <2>2. (r.attr = "number" \/ r.log = "number") \in BOOLEAN
    OBVIOUS
  <2>3. Of(When(r.attr = "number" \/ r.log = "number", Metric(d, "terabytes_read", v)), d,
           IF r.attr = "number" \/ r.log = "number" THEN {"terabytes_read"} ELSE {})
    BY <2>1, <2>2, WhenOf
  <2>4. Of(When(r.attr = "number" \/ r.log = "number", Metric(d, "terabytes_read", v)), d,
           {"terabytes_read"})
    BY <2>3 DEF Of
  <2> QED BY <2>4 DEF Terabytes, v
<1>3. Of(log, d, logNames)
  <2>1. Of(Counters(d, "log"), d, CounterNames)
    BY CountersOf
  <2>2. (r.attr = "absent" /\ r.log = "number") \in BOOLEAN
    OBVIOUS
  <2>3. Of(log, d, IF r.attr = "absent" /\ r.log = "number" THEN CounterNames ELSE {})
    BY <2>1, <2>2, WhenOf
  <2> QED BY <2>3 DEF Of
<1>4. collect_nvme_metrics(d, r) = (dwpd \o Terabytes(d, r)) \o log
  BY DEF collect_nvme_metrics
<1> HIDE DEF dwpd, log
<1>5. Of(dwpd \o Terabytes(d, r), d, {"rated_dwpd"} \cup {"terabytes_read"})
  <2>1. {"rated_dwpd"} \cap {"terabytes_read"} = {}
    OBVIOUS
  <2> QED BY <1>1, <1>2, <2>1, JoinedOf
<1>6. ({"rated_dwpd"} \cup {"terabytes_read"}) \cap logNames = {}
  BY DEF CounterNames
<1> HIDE DEF logNames
<1>7. Of((dwpd \o Terabytes(d, r)) \o log, d, ({"rated_dwpd"} \cup {"terabytes_read"}) \cup logNames)
  BY <1>3, <1>5, <1>6, JoinedOf
<1>8. ({"rated_dwpd"} \cup {"terabytes_read"}) \cup logNames = {"rated_dwpd", "terabytes_read"} \cup logNames
  OBVIOUS
<1> QED BY <1>4, <1>7, <1>8 DEF logNames

(* A disk that is not skipped gives one device_active, a health value of 0 *)
(* if it is to alert, and nothing twice.                                   *)
Alerts(ms, d) == \E m \in ms : m.disk = d /\ m.name = "smart_healthy" /\ m.value < 1
Lists(ms, d) == \E m \in ms : m.disk = d /\ m.name = "device_active"

LEMMA DiskOf ==
  ASSUME NEW d \in Disk, NEW r \in Reading
  PROVE  /\ Of(DiskMetrics(d, r), d, Name)
         /\ Lists(Rng(DiskMetrics(d, r)), d)
         /\ ~Skipped(r) => (Alerts(Rng(DiskMetrics(d, r)), d)
                              <=> r.capable /\ r.power = "active" /\ Unhealthy(r))
<1> DEFINE active == Metric(d, "device_active", IF is_active(r) THEN 1 ELSE 0)
           health == parse_device_info(d, r)
           attrs == parse_if_attributes(d, r)
           nvme == When(r.nvme, collect_nvme_metrics(d, r))
           attrNames == IF r.attr = "number" THEN CounterNames ELSE {}
           nvmeNames == {"rated_dwpd", "terabytes_read"}
                          \cup IF r.attr = "absent" THEN CounterNames ELSE {}
           rest == (health \o attrs) \o nvme
<1>1. Of(active, d, {"device_active"})
      /\ Rng(active) = {[disk |-> d, name |-> "device_active", value |-> IF is_active(r) THEN 1 ELSE 0]}
  <2>1. (IF is_active(r) THEN 1 ELSE 0) \in {0, 1}
    OBVIOUS
  <2> QED BY <2>1, MetricOf DEF Name
<1>2. \E m \in Rng(active) : m.disk = d /\ m.name = "device_active"
  <2> DEFINE m == [disk |-> d, name |-> "device_active", value |-> IF is_active(r) THEN 1 ELSE 0]
  <2>1. m.disk = d /\ m.name = "device_active" /\ m \in Rng(active)
    BY <1>1
  <2> QED BY <2>1
<1>3. Of(nvme, d, nvmeNames)
  <2>1. r.nvme \in BOOLEAN /\ Of(collect_nvme_metrics(d, r), d, nvmeNames)
    BY NvmeOf DEF Reading
  <2> HIDE DEF nvmeNames
  <2>2. Of(nvme, d, IF r.nvme THEN nvmeNames ELSE {})
    BY <2>1, WhenOf
  <2> QED BY <2>2 DEF Of
<1>4. Of(attrs, d, attrNames) /\ Of(health, d, HealthNames)
  BY AttributesOf, HealthOf
<1>5. /\ HealthNames \cap attrNames = {} /\ (HealthNames \cup attrNames) \cap nvmeNames = {}
      /\ {"device_active"} \cap ((HealthNames \cup attrNames) \cup nvmeNames) = {}
      /\ (HealthNames \cup attrNames) \cup nvmeNames \subseteq Name
      /\ "smart_healthy" \notin attrNames \cup nvmeNames \cup {"device_active"}
  BY DEF HealthNames, CounterNames, Name
<1>6. DiskMetrics(d, r) = active \o When(is_active(r), rest)
  BY DEF DiskMetrics
<1>7. ~Skipped(r) => ((\E m \in Rng(health) : m.name = "smart_healthy" /\ m.value < 1)
                         <=> r.capable /\ Unhealthy(r))
  BY HealthOf
<1> HIDE DEF active, health, attrs, nvme, attrNames, nvmeNames
<1>8. /\ Of(health \o attrs, d, HealthNames \cup attrNames)
      /\ Rng(health \o attrs) = Rng(health) \cup Rng(attrs)
  BY <1>4, <1>5, JoinedOf
<1>9. /\ Of(rest, d, (HealthNames \cup attrNames) \cup nvmeNames)
      /\ Rng(rest) = (Rng(health) \cup Rng(attrs)) \cup Rng(nvme)
  <2> DEFINE A == HealthNames \cup attrNames
             ha == health \o attrs
  <2>1. Of(ha, d, A) /\ Of(nvme, d, nvmeNames) /\ A \cap nvmeNames = {}
    BY <1>3, <1>5, <1>8
  <2> HIDE DEF A, ha
  <2>2. Of(ha \o nvme, d, A \cup nvmeNames) /\ Rng(ha \o nvme) = Rng(ha) \cup Rng(nvme)
    BY <2>1, JoinedOf
  <2> QED BY <1>8, <2>2 DEF A, ha
<1> DEFINE more == When(is_active(r), rest)
           moreNames == IF is_active(r) THEN (HealthNames \cup attrNames) \cup nvmeNames ELSE {}
<1> HIDE DEF rest
<1>10. Of(more, d, moreNames) /\ Rng(more) = IF is_active(r) THEN Rng(rest) ELSE {}
  <2>1. is_active(r) \in BOOLEAN
    BY DEF is_active
  <2> QED BY <1>9, <2>1, WhenOf
<1>11. {"device_active"} \cap moreNames = {} /\ {"device_active"} \cup moreNames \subseteq Name
  BY <1>5 DEF Name
<1> HIDE DEF more, moreNames
<1>12. /\ Of(active \o more, d, {"device_active"} \cup moreNames)
       /\ Rng(active \o more) = Rng(active) \cup Rng(more)
  <2> DEFINE A == {"device_active"}
  <2>1. Of(active, d, A) /\ Of(more, d, moreNames) /\ A \cap moreNames = {}
    BY <1>1, <1>10, <1>11
  <2> HIDE DEF A
  <2>2. Of(active \o more, d, A \cup moreNames) /\ Rng(active \o more) = Rng(active) \cup Rng(more)
    <3>1. Of(active \o more, d, A \cup moreNames)
      BY <2>1, JoinedOf
    <3>2. Rng(active \o more) = Rng(active) \cup Rng(more)
      BY <2>1, Joined DEF Of
    <3> QED BY <3>1, <3>2
  <2> QED BY <2>2 DEF A
<1>13. DiskMetrics(d, r) = active \o more
  BY <1>6 DEF more
<1>14. Of(DiskMetrics(d, r), d, Name)
  BY <1>11, <1>12, <1>13 DEF Of
<1>15. Lists(Rng(DiskMetrics(d, r)), d)
  BY <1>2, <1>12, <1>13 DEF Lists
<1>16. Alerts(Rng(DiskMetrics(d, r)), d)
         <=> is_active(r) /\ \E m \in Rng(health) : m.name = "smart_healthy" /\ m.value < 1
  <2>1. \A m \in Rng(active) \cup Rng(attrs) \cup Rng(nvme) : m.name # "smart_healthy"
    BY <1>1, <1>3, <1>4, <1>5 DEF Of
  <2>2. \A m \in Rng(health) : m.disk = d
    BY <1>4 DEF Of
  <2> QED BY <1>9, <1>10, <1>12, <1>13, <2>1, <2>2 DEF Alerts
<1> QED BY <1>7, <1>14, <1>15, <1>16 DEF is_active
----------------------------------------------------------------------------
(* What a run has of the disks that it has been through, and nothing else. *)
RunRec ==
  [pc : {"loop", "move", "ended", "died"}, seen : Snapshots, next : 1..(NumDisks + 1),
   metrics : Seq(MetricRec), beside : SUBSET Nat]

Told(ms, d, r) ==
  /\ Lists(ms, d) <=> ~Skipped(r)
  /\ Alerts(ms, d) <=> ~Skipped(r) /\ r.capable /\ r.power = "active" /\ Unhealthy(r)

Sound(q) ==
  /\ Once(q.metrics) /\ \A m \in Rng(q.metrics) : m.disk < q.next
  /\ \A d \in Disk : d < q.next => Told(Rng(q.metrics), d, q.seen[d])

RunsInv ==
  run \in Seq(RunRec) /\ \A r \in Run : Sound(run[r]) /\ run[r].beside \subseteq 1..(r - 1)

(* A file is there as a run wrote it that had got through all disks.       *)
FileOf(f) ==
  f = NoFile \/ (f.by \in Run /\ run[f.by].next = NumDisks + 1 /\ f.metrics = run[f.by].metrics)

(* A run in progress was so when the later ones started.                   *)
BesideInv == \A a \in InProgress, b \in Run : a < b => a \in run[b].beside

(* The temporary file is the last written: those that are still to move it *)
(* were in progress then, as were those that published later output.       *)
TempInv ==
  temp # NoFile =>
    /\ \A r \in Run : run[r].pc = "move" => temp.by = r \/ Overlapped(temp.by, r)
    /\ temp.by < prom.by => Overlapped(temp.by, prom.by)

IInv == RunsInv /\ FileOf(temp) /\ FileOf(prom) /\ BesideInv /\ TempInv
----------------------------------------------------------------------------
LEMMA InitOK == Init => IInv
<1> SUFFICES ASSUME Init PROVE IInv
  OBVIOUS
<1>1. run = <<>> /\ Run = {} /\ temp = NoFile /\ prom = NoFile
  BY DEF Init, Run
<1>2. run \in Seq(RunRec)
  BY <1>1
<1> QED BY <1>1, <1>2 DEF IInv, RunsInv, FileOf, BesideInv, TempInv, InProgress

LEMMA RunTypes ==
  ASSUME RunsInv, NEW r \in Run
  PROVE  run[r] \in RunRec /\ Run = 1..Len(run) /\ r \in Nat /\ Len(run) \in Nat
BY DEF RunsInv, Run

(* A new run has seen nothing; those in progress are beside it.            *)
LEMMA StartOK == ASSUME IInv, Start PROVE IInv'
<1>1. PICK disks \in Snapshots :
        run' = Append(run, [pc |-> "loop", seen |-> disks, next |-> 1,
                            metrics |-> <<>>, beside |-> InProgress])
  BY DEF Start
<1> DEFINE new == [pc |-> "loop", seen |-> disks, next |-> 1,
                   metrics |-> <<>>, beside |-> InProgress]
           n == Len(run) + 1
<1>2. UNCHANGED <<temp, prom>> /\ run \in Seq(RunRec) /\ n \in Nat
  BY DEF Start, IInv, RunsInv
<1>3. InProgress \subseteq 1..(n - 1) /\ Run = 1..(n - 1)
  BY <1>2 DEF InProgress, Run
<1>4. new \in RunRec /\ Sound(new)
  <2>1. 1 \in 1..(NumDisks + 1) /\ <<>> \in Seq(MetricRec) /\ InProgress \subseteq Nat
    BY <1>2, <1>3, SmartmonAssumption
  <2>2. new \in RunRec
    BY <2>1 DEF RunRec
  <2>3. Once(new.metrics) /\ Rng(new.metrics) = {} /\ new.next = 1
    BY DEF Once, Rng
  <2>4. \A d \in Disk : ~(d < 1)
    BY SmartmonAssumption DEF Disk
  <2> QED BY <2>2, <2>3, <2>4 DEF Sound
<1>5. /\ new.pc = "loop" /\ new.beside = InProgress
  OBVIOUS
<1>6. run' = Append(run, new)
  BY <1>1
<1> HIDE DEF new
<1>7. /\ run' \in Seq(RunRec) /\ Run' = 1..n /\ Run' = Run \cup {n} /\ n \notin Run
      /\ run'[n] = new /\ \A r \in Run : run'[r] = run[r]
  BY <1>2, <1>3, <1>4, <1>6 DEF Run
<1>8. RunsInv'
  <2>1. ASSUME NEW r \in Run' PROVE Sound(run'[r]) /\ run'[r].beside \subseteq 1..(r - 1)
    <3>1. CASE r \in Run
      BY <1>7, <3>1 DEF IInv, RunsInv
    <3>2. CASE r = n
      BY <1>3, <1>4, <1>5, <1>7, <3>2
    <3> QED BY <1>7, <3>1, <3>2
  <2> QED BY <1>7, <2>1 DEF RunsInv, Sound, Told
<1>9. FileOf(temp)' /\ FileOf(prom)'
  BY <1>2, <1>7 DEF IInv, FileOf
<1>10. BesideInv'
  <2>1. InProgress' \subseteq InProgress \cup {n}
    BY <1>7 DEF InProgress
  <2>2. \A a \in InProgress \cup {n}, b \in Run : a < b => a \in InProgress
    BY <1>2, <1>3
  <2> QED BY <1>2, <1>3, <1>5, <1>7, <2>1, <2>2 DEF IInv, BesideInv
<1>11. TempInv'
  <2>1. temp = NoFile \/ temp.by \in Run
    BY DEF IInv, FileOf
  <2>2. prom.by \in Run \/ prom.by = 0
    BY DEF IInv, FileOf, NoFile
  <2>3. \A r, q \in Run : Overlapped(r, q)' <=> Overlapped(r, q)
    BY <1>7 DEF Overlapped
  <2>4. temp # NoFile /\ temp.by < prom.by => prom.by \in Run
    BY <1>2, <1>3, <2>1, <2>2
  <2> QED BY <1>2, <1>5, <1>7, <2>1, <2>2, <2>3, <2>4 DEF IInv, TempInv
<1> QED BY <1>8, <1>9, <1>10, <1>11 DEF IInv
----------------------------------------------------------------------------
(* A step of one run in progress. *)
LEMMA OneRun ==
  ASSUME IInv, NEW r \in InProgress, NEW q \in RunRec, run' = [run EXCEPT ![r] = q],
         Sound(q), q.beside = run[r].beside
  PROVE  /\ RunsInv' /\ BesideInv' /\ Run' = Run /\ run'[r] = q
         /\ \A k \in Run \ {r} : run'[k] = run[k]
         /\ \A a, b \in Run : Overlapped(a, b)' <=> Overlapped(a, b)
<1>1. run \in Seq(RunRec) /\ r \in Run /\ Run = 1..Len(run)
  BY DEF IInv, RunsInv, InProgress, Run
<1>2. run' \in Seq(RunRec) /\ Run' = Run /\ run'[r] = q
  BY <1>1 DEF Run
<1>3. \A k \in Run \ {r} : run'[k] = run[k]
  BY <1>1
<1>4. \A k \in Run : run'[k].beside = run[k].beside
  BY <1>2, <1>3
<1>5. RunsInv'
  <2>1. ASSUME NEW k \in Run PROVE Sound(run'[k]) /\ run'[k].beside \subseteq 1..(k - 1)
    <3>1. Sound(run[k]) /\ run[k].beside \subseteq 1..(k - 1)
      BY DEF IInv, RunsInv
    <3> QED BY <1>2, <1>3, <1>4, <3>1
  <2> QED BY <1>2, <2>1 DEF RunsInv, Sound, Told
<1>6. InProgress' \subseteq InProgress
  BY <1>1, <1>2, <1>3 DEF InProgress
<1>7. BesideInv'
  BY <1>2, <1>4, <1>6 DEF IInv, BesideInv
<1>8. \A a, b \in Run : Overlapped(a, b)' <=> Overlapped(a, b)
  BY <1>4 DEF Overlapped
<1> QED BY <1>2, <1>3, <1>5, <1>7, <1>8

(* The files stay what they are while no finished run changes what it has. *)
LEMMA FilesStay ==
  ASSUME IInv, NEW r \in InProgress, Run' = Run, \A k \in Run \ {r} : run'[k] = run[k],
         run[r].next = NumDisks + 1 => run'[r].next = run[r].next /\ run'[r].metrics = run[r].metrics,
         NEW f, FileOf(f)
  PROVE  f = NoFile \/ (f.by \in Run' /\ run'[f.by].next = NumDisks + 1 /\ f.metrics = run'[f.by].metrics)
BY DEF FileOf, IInv

LEMMA TempStays ==
  ASSUME IInv, NEW r \in InProgress, Run' = Run, \A k \in Run \ {r} : run'[k] = run[k],
         \A a, b \in Run : Overlapped(a, b)' <=> Overlapped(a, b),
         run'[r].pc # "move", UNCHANGED <<temp, prom>>
  PROVE  TempInv'
<1>1. temp = NoFile \/ temp.by \in Run
  BY DEF IInv, FileOf
<1>2. prom.by \in Run \/ prom.by = 0
  BY DEF IInv, FileOf, NoFile
<1>3. ~(temp.by < 0) \/ temp = NoFile
  BY <1>1 DEF IInv, RunsInv, Run
<1> QED BY <1>1, <1>2, <1>3 DEF IInv, TempInv, InProgress

(* One turn of the loop adds what is known of one disk. *)
LEMMA ReadDiskOK == ASSUME IInv, NEW r \in Run, ReadDisk(r) PROVE IInv'
<1> DEFINE d == run[r].next
           reading == run[r].seen[d]
           more == When(~Skipped(reading), DiskMetrics(d, reading))
           q == [run[r] EXCEPT !.next = d + 1,
                               !.pc = IF Dies(reading) THEN "died" ELSE "loop",
                               !.metrics = @ \o more]
<1>1. /\ run[r].pc = "loop" /\ d \in Disk /\ UNCHANGED <<temp, prom>>
      /\ run' = [run EXCEPT ![r] = q]
  <2>1. run[r].pc = "loop" /\ d \in Disk /\ UNCHANGED <<temp, prom>>
    BY DEF ReadDisk
  <2>2. run' = [run EXCEPT ![r].next = d + 1,
                           ![r].pc = IF Dies(reading) THEN "died" ELSE "loop",
                           ![r].metrics = @ \o more]
    BY DEF ReadDisk
  <2>3. run \in Seq(RunRec) /\ r \in DOMAIN run
    BY DEF IInv, RunsInv, Run
  <2> HIDE DEF d, reading, more
  <2>4. run' = [run EXCEPT ![r] = q]
    BY <2>2, <2>3 DEF RunRec
  <2> QED BY <2>1, <2>4
<1>2. run[r] \in RunRec /\ Sound(run[r]) /\ r \in InProgress
  BY <1>1 DEF IInv, RunsInv, Run, InProgress
<1>3. run[r].seen \in [Disk -> Reading] /\ run[r].metrics \in Seq(MetricRec) /\ run[r].next \in Nat
  BY <1>2, SmartmonAssumption DEF RunRec
<1>4. reading \in Reading
  BY <1>1, <1>3
<1>5. q \in RunRec /\ q.beside = run[r].beside /\ q.next = d + 1 /\ q.seen = run[r].seen
      /\ q.metrics = run[r].metrics \o more /\ q.pc # "move"
  <2>1. d + 1 \in 1..(NumDisks + 1)
    BY <1>1, SmartmonAssumption DEF Disk
  <2>2. more \in Seq(MetricRec)
    BY <1>1, <1>4, DiskOf DEF When, Of
  <2> HIDE DEF more, reading, d
  <2>3. run[r].metrics \o more \in Seq(MetricRec)
    BY <1>3, <2>2
  <2> QED BY <1>2, <2>1, <2>3 DEF RunRec
<1>6. more \in Seq(MetricRec) /\ Once(more) /\ \A m \in Rng(more) : m.disk = d
  <2>1. Of(DiskMetrics(d, reading), d, Name)
    BY <1>1, <1>4, DiskOf
  <2>2. <<>> \in Seq(MetricRec) /\ Once(<<>>) /\ Rng(<<>>) = {}
    BY DEF Once, Rng
  <2> QED BY <2>1, <2>2 DEF When, Of
<1>7. Told(Rng(more), d, reading)
  <2>1. CASE Skipped(reading)
    <3>1. more = <<>>
      BY <2>1 DEF When
    <3>2. Rng(more) = {}
      BY <3>1 DEF Rng
    <3> QED BY <2>1, <3>2 DEF Told, Lists, Alerts
  <2>2. CASE ~Skipped(reading)
    <3>1. more = DiskMetrics(d, reading)
      BY <2>2 DEF When
    <3> QED BY <1>1, <1>4, <2>2, <3>1, DiskOf DEF Told
  <2> QED BY <2>1, <2>2
<1> HIDE DEF more, q, reading
<1>8. Rng(q.metrics) = Rng(run[r].metrics) \cup Rng(more)
  BY <1>3, <1>5, <1>6, Joined
<1>9. Sound(q)
  <2>1. \A m \in Rng(run[r].metrics) : m \in MetricRec /\ m.disk < d
    BY <1>2, <1>3 DEF Sound, Rng
  <2>2. d \in Nat
    BY <1>3
  <2>3. \A m \in Rng(run[r].metrics) : m.disk \in Nat
    BY <2>1 DEF MetricRec, Disk
  <2>4. Once(q.metrics)
    <3>1. \A a \in Rng(run[r].metrics), b \in Rng(more) : a.disk # b.disk
      BY <1>6, <2>1, <2>2, <2>3
    <3> QED BY <1>2, <1>3, <1>5, <1>6, <3>1, JoinedOnce DEF Sound
  <2>5. \A m \in Rng(q.metrics) : m.disk < q.next
    BY <1>5, <1>6, <1>8, <2>1, <2>2, <2>3
  <2>6. ASSUME NEW e \in Disk, e < q.next PROVE Told(Rng(q.metrics), e, q.seen[e])
    <3>1. e \in Nat /\ (e = d \/ e < d)
      BY <1>5, <2>2, <2>6 DEF Disk
    <3>2. CASE e = d
      <4>1. \A m \in Rng(run[r].metrics) : m.disk # d
        BY <2>1, <2>2, <2>3
      <4> QED BY <1>5, <1>7, <1>8, <3>2, <4>1 DEF Told, Lists, Alerts, reading
    <3>3. CASE e < d
      <4>1. \A m \in Rng(more) : m.disk # e
        BY <1>6, <2>2, <3>1, <3>3
      <4>2. Told(Rng(run[r].metrics), e, run[r].seen[e])
        BY <1>2, <3>3 DEF Sound
      <4> QED BY <1>5, <1>8, <4>1, <4>2 DEF Told, Lists, Alerts
    <3> QED BY <3>1, <3>2, <3>3
  <2> QED BY <2>4, <2>5, <2>6 DEF Sound
<1>10. /\ RunsInv' /\ BesideInv' /\ Run' = Run /\ run'[r] = q
       /\ \A k \in Run \ {r} : run'[k] = run[k]
       /\ \A a, b \in Run : Overlapped(a, b)' <=> Overlapped(a, b)
  BY <1>1, <1>2, <1>5, <1>9, OneRun
<1>11. run[r].next # NumDisks + 1
  BY <1>1, SmartmonAssumption DEF Disk
<1>12. FileOf(temp)' /\ FileOf(prom)'
  BY <1>1, <1>2, <1>10, <1>11, FilesStay DEF IInv, FileOf
<1>13. TempInv'
  BY <1>1, <1>2, <1>5, <1>10, TempStays
<1> QED BY <1>10, <1>12, <1>13 DEF IInv

(* Steps that only change where a run is. *)
LEMMA Goes ==
  ASSUME IInv, NEW r \in InProgress, NEW place \in {"move", "ended", "died"},
         run' = [run EXCEPT ![r].pc = place]
  PROVE  /\ RunsInv' /\ BesideInv' /\ Run' = Run
         /\ run'[r].pc = place /\ run'[r].next = run[r].next /\ run'[r].metrics = run[r].metrics
         /\ \A k \in Run \ {r} : run'[k] = run[k]
         /\ \A a, b \in Run : Overlapped(a, b)' <=> Overlapped(a, b)
<1> DEFINE q == [run[r] EXCEPT !.pc = place]
<1>1. r \in Run /\ run[r] \in RunRec /\ Sound(run[r]) /\ run' = [run EXCEPT ![r] = q]
  BY DEF IInv, RunsInv, Run, InProgress
<1>2. /\ q \in RunRec /\ q.pc = place /\ q.next = run[r].next /\ q.metrics = run[r].metrics
      /\ q.seen = run[r].seen /\ q.beside = run[r].beside
  BY <1>1 DEF RunRec
<1> HIDE DEF q
<1>3. Sound(q)
  BY <1>1, <1>2 DEF Sound
<1> QED BY <1>1, <1>2, <1>3, OneRun

LEMMA writeOK == ASSUME IInv, NEW r \in Run, write_metrics_to_textfile(r) PROVE IInv'
<1>1. /\ run' = [run EXCEPT ![r].pc = "move"] /\ temp' = [by |-> r, metrics |-> run[r].metrics]
      /\ prom' = prom /\ run[r].next \notin Disk /\ r \in InProgress
  BY DEF write_metrics_to_textfile, InProgress
<1>2. /\ RunsInv' /\ BesideInv' /\ Run' = Run
      /\ run'[r].pc = "move" /\ run'[r].next = run[r].next /\ run'[r].metrics = run[r].metrics
      /\ \A k \in Run \ {r} : run'[k] = run[k]
      /\ \A a, b \in Run : Overlapped(a, b)' <=> Overlapped(a, b)
  BY <1>1, Goes
<1>3. run[r].next = NumDisks + 1
  <2>1. run[r].next \in 1..(NumDisks + 1)
    BY RunTypes DEF IInv, RunRec
  <2> QED BY <1>1, <2>1, SmartmonAssumption DEF Disk
<1>4. FileOf(temp)' /\ FileOf(prom)'
  BY <1>1, <1>2, <1>3, FilesStay DEF IInv, FileOf
<1>5. TempInv'
  <2>1. ASSUME NEW k \in Run, run'[k].pc = "move" PROVE k = r \/ Overlapped(r, k)
    <3>1. k # r => k \in InProgress
      BY <1>2, <2>1 DEF InProgress
    <3>2. k < r \/ k = r \/ r < k
      BY RunTypes DEF IInv
    <3> QED BY <1>1, <3>1, <3>2 DEF IInv, BesideInv, Overlapped
  <2>2. r < prom.by => Overlapped(r, prom.by)
    <3>1. prom.by \in Run \/ prom.by = 0
      BY DEF IInv, FileOf, NoFile
    <3>2. r \in 1..Len(run) /\ Len(run) \in Nat
      BY RunTypes DEF IInv
    <3> QED BY <1>1, <3>1, <3>2 DEF IInv, BesideInv, Overlapped
  <2>3. temp'.by = r /\ (prom.by \in Run \/ ~(r < prom.by))
    <3>1. prom.by \in Run \/ prom.by = 0
      BY DEF IInv, FileOf, NoFile
    <3>2. r \in 1..Len(run) /\ Len(run) \in Nat
      BY RunTypes DEF IInv
    <3> QED BY <1>1, <3>1, <3>2
  <2> QED BY <1>1, <1>2, <2>1, <2>2, <2>3 DEF TempInv
<1> QED BY <1>2, <1>4, <1>5 DEF IInv

LEMMA MoveOK == ASSUME IInv, NEW r \in Run, Move(r) PROVE IInv'
<1>1. /\ run' = [run EXCEPT ![r].pc = "ended"] /\ temp' = NoFile
      /\ prom' = IF temp = NoFile THEN prom ELSE temp
      /\ r \in InProgress
  BY DEF Move, InProgress
<1>2. /\ RunsInv' /\ BesideInv' /\ Run' = Run
      /\ run'[r].next = run[r].next /\ run'[r].metrics = run[r].metrics
      /\ \A k \in Run \ {r} : run'[k] = run[k]
  BY <1>1, Goes
<1>3. FileOf(temp)' /\ FileOf(prom)'
  <2>1. FileOf(prom) /\ FileOf(temp)
    BY DEF IInv
  <2>2. FileOf(prom')
    BY <1>1, <2>1
  <2> QED BY <1>1, <1>2, <2>2 DEF FileOf, IInv
<1> QED BY <1>1, <1>2, <1>3 DEF IInv, TempInv

LEMMA KilledOK == ASSUME IInv, NEW r \in Run, Killed(r) PROVE IInv'
<1>1. run' = [run EXCEPT ![r].pc = "died"] /\ UNCHANGED <<temp, prom>> /\ r \in InProgress
  BY DEF Killed
<1>2. /\ RunsInv' /\ BesideInv' /\ Run' = Run
      /\ run'[r].pc = "died" /\ run'[r].next = run[r].next /\ run'[r].metrics = run[r].metrics
      /\ \A k \in Run \ {r} : run'[k] = run[k]
      /\ \A a, b \in Run : Overlapped(a, b)' <=> Overlapped(a, b)
  BY <1>1, Goes
<1>3. FileOf(temp)' /\ FileOf(prom)'
  BY <1>1, <1>2, FilesStay DEF IInv, FileOf
<1>4. TempInv'
  BY <1>1, <1>2, TempStays
<1> QED BY <1>2, <1>3, <1>4 DEF IInv

LEMMA StutterOK == ASSUME IInv, UNCHANGED vars PROVE IInv'
<1>1. UNCHANGED <<run, temp, prom>>
  BY DEF vars
<1>2. Run' = Run /\ InProgress' = InProgress
  BY <1>1 DEF Run, InProgress
<1>3. RunsInv' /\ BesideInv'
  BY <1>1, <1>2 DEF IInv, RunsInv, BesideInv, Sound, Told
<1> QED BY <1>1, <1>2, <1>3 DEF IInv, FileOf, TempInv, Overlapped

(* What each run and each file has, and which runs were in progress when,  *)
(* at any time.                                                            *)
THEOREM Inductive == Spec => []IInv
<1>1. IInv /\ [Next]_vars => IInv'
  BY StartOK, ReadDiskOK, writeOK, MoveOK, KilledOK, StutterOK DEF Next, Ended
<1> QED BY InitOK, <1>1, PTL DEF Spec
----------------------------------------------------------------------------
(* Runs and files are of the right shape. *)
THEOREM TypeCorrect == Spec => []TypeOK
<1>1. IInv => TypeOK
  <2> SUFFICES ASSUME IInv PROVE TypeOK
    OBVIOUS
  <2>1. ASSUME NEW r \in Run
        PROVE  /\ run[r].pc \in {"loop", "move", "ended", "died"} /\ run[r].seen \in Snapshots
               /\ run[r].next \in 1..(NumDisks + 1) /\ run[r].beside \subseteq 1..(r - 1)
    BY RunTypes DEF IInv, RunsInv, RunRec
  <2>2. {temp.by, prom.by} \subseteq {0} \cup Run
    BY DEF IInv, FileOf, NoFile
  <2> QED BY <2>1, <2>2 DEF TypeOK
<1> QED BY <1>1, Inductive, PTL

(* What is published is what one run, through all its disks, has of them.  *)
LEMMA PromTold ==
  ASSUME IInv, prom # NoFile
  PROVE  /\ prom.by \in Run /\ run[prom.by].next = NumDisks + 1 /\ Once(prom.metrics)
         /\ \A d \in Disk : Told(Rng(prom.metrics), d, Seen[d])
<1>1. prom.by \in Run /\ run[prom.by].next = NumDisks + 1 /\ prom.metrics = run[prom.by].metrics
  BY DEF IInv, FileOf
<1>2. Sound(run[prom.by])
  BY <1>1 DEF IInv, RunsInv
<1>3. \A d \in Disk : d < NumDisks + 1
  BY SmartmonAssumption DEF Disk
<1> QED BY <1>1, <1>2, <1>3 DEF Sound, Seen

(* smartmon.prom is the output of one run that got through all its disks,  *)
(* and has each disk that main does not pass over.                         *)
THEOREM WholePublished == Spec => []PublishedIsWhole
<1>1. IInv => PublishedIsWhole
  <2> SUFFICES ASSUME IInv, prom # NoFile
               PROVE  /\ run[prom.by].next \notin Disk
                      /\ \A d \in Disk : (Published(d, "device_active") = {}) = Skipped(Seen[d])
    BY DEF PublishedIsWhole
  <2>1. run[prom.by].next \notin Disk
    BY PromTold, SmartmonAssumption DEF Disk
  <2>2. ASSUME NEW d \in Disk PROVE (Published(d, "device_active") = {}) = Skipped(Seen[d])
    <3>1. Lists(Rng(prom.metrics), d) <=> ~Skipped(Seen[d])
      BY PromTold DEF Told
    <3>2. Lists(Rng(prom.metrics), d) <=> Published(d, "device_active") # {}
      BY DEF Lists, Published, Rng
    <3>3. Skipped(Seen[d]) \in BOOLEAN
      BY DEF Skipped
    <3> QED BY <3>1, <3>2, <3>3
  <2> QED BY <2>1, <2>2
<1> QED BY <1>1, Inductive, PTL

(* The alert fires for the disks that smart_health_value is to report.     *)
THEOREM AlertsRight == Spec => []AlertsAreRight
<1>1. IInv => AlertsAreRight
  <2> SUFFICES ASSUME IInv, prom # NoFile, NEW d \in Disk
               PROVE  (\E m \in Published(d, "smart_healthy") : m.value < 1)
                        = (Seen[d].serial /\ Seen[d].capable /\ Seen[d].power = "active"
                             /\ Unhealthy(Seen[d]))
    BY DEF AlertsAreRight
  <2>1. Seen[d] \in Reading
    BY PromTold, RunTypes, SmartmonAssumption DEF IInv, RunRec, Seen
  <2>2. Alerts(Rng(prom.metrics), d)
          <=> ~Skipped(Seen[d]) /\ Seen[d].capable /\ Seen[d].power = "active" /\ Unhealthy(Seen[d])
    BY PromTold DEF Told
  <2>3. (\E m \in Published(d, "smart_healthy") : m.value < 1) <=> Alerts(Rng(prom.metrics), d)
    BY DEF Alerts, Published, Rng
  <2>4. Unhealthy(Seen[d]) => (Skipped(Seen[d]) <=> ~Seen[d].serial)
    BY DEF Unhealthy, Skipped
  <2>5. Seen[d].serial \in BOOLEAN /\ Seen[d].capable \in BOOLEAN /\ Unhealthy(Seen[d]) \in BOOLEAN
    BY <2>1 DEF Reading, Unhealthy
  <2> QED BY <2>2, <2>3, <2>4, <2>5
<1> QED BY <1>1, Inductive, PTL

(* No metric of a disk is given twice: pySMART and the health log do not   *)
(* both give a counter.                                                    *)
THEOREM GivenOnce == Spec => []MetricOnce
<1>1. IInv => MetricOnce
  <2> SUFFICES ASSUME IInv PROVE MetricOnce
    OBVIOUS
  <2>1. CASE prom = NoFile
    BY <2>1 DEF NoFile, MetricOnce
  <2>2. CASE prom # NoFile
    BY <2>2, PromTold DEF Once, MetricOnce
  <2> QED BY <2>1, <2>2
<1> QED BY <1>1, Inductive, PTL

(* Only an overlap lets older output replace newer, or output of another   *)
(* run be moved: what a killed run left is overwritten before any move.    *)
THEOREM NothingStale == Spec => PublishesNothingStale
<1>1. IInv /\ [Next]_vars =>
        [/\ prom'.by < prom.by => Overlapped(prom'.by, prom.by)
         /\ \A r \in Run :
              run[r].pc = "move" /\ run'[r].pc = "ended" /\ prom' # prom
                => prom'.by = r \/ Overlapped(prom'.by, r)]_vars
  <2> SUFFICES ASSUME IInv, Next
               PROVE  /\ prom'.by < prom.by => Overlapped(prom'.by, prom.by)
                      /\ \A r \in Run :
                           run[r].pc = "move" /\ run'[r].pc = "ended" /\ prom' # prom
                             => prom'.by = r \/ Overlapped(prom'.by, r)
    OBVIOUS
  <2> SUFFICES ASSUME prom' # prom
               PROVE  /\ prom'.by < prom.by => Overlapped(prom'.by, prom.by)
                      /\ \A r \in Run :
                           run[r].pc = "move" => prom'.by = r \/ Overlapped(prom'.by, r)
    <3>1. prom.by \in Nat
      BY RunTypes DEF IInv, FileOf, NoFile
    <3>2. prom' = prom => ~(prom'.by < prom.by)
      BY <3>1
    <3> QED BY <3>2
  <2>1. PICK r \in Run : Move(r)
    BY DEF Next, Start, Ended, vars, ReadDisk, write_metrics_to_textfile, Killed
  <2>2. temp # NoFile /\ prom' = temp
    BY <2>1 DEF Move
  <2> QED BY <2>2 DEF IInv, TempInv
<1> QED BY <1>1, Inductive, PTL DEF Spec, PublishesNothingStale
============================================================================
