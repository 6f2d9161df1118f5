---------------------------- MODULE MCStatsReport ----------------------------
(* Small instances of StatsReport. *)
EXTENDS StatsReport

CONSTANTS t1, t2

MCThreads == {t1, t2}
OneThread == {t1}

MCOneSignal == <<"traces">>
=============================================================================
