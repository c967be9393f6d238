----------------------------- MODULE MCMonitorMain -----------------------------
(* MonitorMain at 5 Hz, with quick fetches, slow ones, and ones that outlast  *)
(* the interval.                                                              *)
EXTENDS MonitorMain

MCConnectTimes == {0, 250}
MCFetchTimes == {0, 120, 300}
===============================================================================
