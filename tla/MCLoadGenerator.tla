--------------------------- MODULE MCLoadGenerator ---------------------------
(* One stream of logs and one of traces; a second is two ticks, so one and a *)
(* half noise events and half a checkout a tick.  An export may block for    *)
(* three ticks: over the cap.                                                *)
EXTENDS LoadGenerator

CONSTANTS noise, checkout

MCLogStream   == {noise}
MCTraceStream == {checkout}
MCRate == [s \in Stream |-> IF s = noise THEN 3 ELSE 1]
=============================================================================
