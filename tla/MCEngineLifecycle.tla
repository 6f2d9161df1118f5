-------------------------- MODULE MCEngineLifecycle --------------------------
(* Small instances of EngineLifecycle. *)
EXTENDS EngineLifecycle

CONSTANTS traces, logs, metrics

MCProcessors == {traces, logs, metrics}
=============================================================================
