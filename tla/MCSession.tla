----------------------------- MODULE MCSession -----------------------------
(* SessionManager for TLC.  The socket slots of a process are interchangeable, *)
(* so the runs without liveness properties may permute them.                   *)
EXTENDS SessionManager, TLC

Slots == Permutations(SockId)

\* For the liveness run: the workers start in order, and a behaviour has a crash,
\* or commands and other faults, not both.  Only faults, commands and the first
\* starts are left out by it, so no fair step is ever withheld for good.
CONSTANT First

Apart ==
  /\ used.crash = 0 \/ used.stall + used.fail + used.cmd = 0
  /\ used.stall + used.fail <= 1
  /\ mem[First].proc # "new" \/ \A w \in Worker : mem[w].proc = "new"

\* Of a process that found its lease gone the run of one process says nothing.
HasLease == ~used.lost
=============================================================================
