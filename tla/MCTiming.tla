------------------------------ MODULE MCTiming ------------------------------
(* Time in steps of five seconds.  The sandbox polls every 5 s, the default  *)
(* is 30 s; reports go out every 10 s, or every 30 s.  The loops share only  *)
(* the process, so most configurations have one of them.                     *)
EXTENDS Timing

MCConfig ==
  { [sync |-> 1, stats |-> None], [sync |-> 6, stats |-> None],
    [sync |-> None, stats |-> 2], [sync |-> None, stats |-> 6],
    [sync |-> 0, stats |-> 2] }
=============================================================================
