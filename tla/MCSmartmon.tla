----------------------------- MODULE MCSmartmon -----------------------------
(* Disks chosen so that every branch of the script is taken: a warning for *)
(* an old temperature breach alone and with a present failure, a failing   *)
(* disk, one that answers with garbage, one asleep, one without a serial.  *)
EXTENDS Smartmon

Thermal == [past |-> TRUE, thermal |-> TRUE]
Present == [past |-> FALSE, thermal |-> TRUE]

Base == [serial |-> TRUE, assessment |-> "PASS", failed |-> {}, capable |-> TRUE,
         nvme |-> TRUE, power |-> "active", details |-> "json",
         attr |-> "number", log |-> "number"]

OldBreach  == [Base EXCEPT !.assessment = "WARN", !.failed = {Thermal}, !.nvme = FALSE]
NewBreach  == [Base EXCEPT !.assessment = "WARN", !.failed = {Thermal, Present}]
Failing    == [Base EXCEPT !.assessment = "FAIL", !.attr = "absent"]
Unexplained == [Base EXCEPT !.assessment = "WARN"]
BadDetails == [Base EXCEPT !.details = "not_json"]
BadPower   == [Base EXCEPT !.assessment = "FAIL", !.power = "not_json"]
NoSerial   == [Base EXCEPT !.serial = FALSE]

MCSnapshots ==
  { <<OldBreach, NewBreach>>, <<Failing, BadPower>>, <<NoSerial, Unexplained>>,
    <<Base, BadDetails>>, <<OldBreach, Failing>>, <<NewBreach, BadPower>> }

(* pySMART knows the counter but has no value for it. *)
LostSnapshots ==
  [Disk -> { Base, [Base EXCEPT !.attr = "none"], [Base EXCEPT !.attr = "absent"]}]
=============================================================================
