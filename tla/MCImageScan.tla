---------------------------- MODULE MCImageScan ----------------------------
(* Three images, one, two or three scans at a time, one new database.      *)
EXTENDS ImageScan

MCMatchSets ==
  LET m(s, k) == [severity |-> s, kernel |-> k] IN
  { {m("low", FALSE)}, {m("critical", TRUE)},
    {m("high", FALSE), m("critical", TRUE)}, {m("high", FALSE), m("critical", FALSE)} }
============================================================================
