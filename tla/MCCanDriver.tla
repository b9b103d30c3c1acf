----------------------------- MODULE MCCanDriver -----------------------------
(* CanDriver on a small bus, under a caller that may send any frame.       *)
EXTENDS CanDriver

SendFails == call.phase = "try" /\ call'.phase = "idle" /\ fails' = FailThreshold

\* The claim of write() that sending on an unhealthy bus "triggers reconnect"
\* inside sendFrame(): a frame that finds no socket does not fail on an
\* unhealthy bus while the 2 s since the last reconnect are over.  sendFrame()
\* leaves its loop before it can get there.
UnhealthySendReconnects ==
  [][SendFails /\ rx # "off" /\ sock = "none" => cooldown # 0]_driverVars
=============================================================================
