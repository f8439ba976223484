---------------------------- MODULE BlockBarrier ----------------------------
(***************************************************************************)
(* What StationPool::run_block() promises the real-time loop: between two  *)
(* serial sections every station is processed exactly once, and no station *)
(* is processed during a serial section (when the loop rewrites the live   *)
(* set and the channelizer output that the stations read).                 *)
(***************************************************************************)
EXTENDS Naturals

CONSTANTS Stations, MaxBlocks

VARIABLES
  phase,   \* "serial", "parallel", or "closed" once the pool is destroyed
  round,   \* blocks started
  todo     \* stations this block has not processed yet

vars == <<phase, round, todo>>

Init == phase = "serial" /\ round = 0 /\ todo = {}

Start ==
  /\ phase = "serial" /\ round < MaxBlocks
  /\ phase' = "parallel"
  /\ round' = round + 1
  /\ todo' = Stations

Process(k) ==
  /\ phase = "parallel" /\ k \in todo
  /\ todo' = todo \ {k}
  /\ UNCHANGED <<phase, round>>

Finish ==
  /\ phase = "parallel" /\ todo = {}
  /\ phase' = "serial"
  /\ UNCHANGED <<round, todo>>

Close ==
  /\ phase = "serial"
  /\ phase' = "closed"
  /\ UNCHANGED <<round, todo>>

Next == Start \/ (\E k \in Stations : Process(k)) \/ Finish \/ Close

\* A block that was started is finished.
Spec ==
  /\ Init /\ [][Next]_vars
  /\ WF_vars(\E k \in Stations : Process(k)) /\ WF_vars(Finish)
=============================================================================
