-------------------------- MODULE MCLeaderElection --------------------------
(***************************************************************************)
(* The election on small numbers: a lease of 3, a deadline of 2, a stall   *)
(* of 1 and a start-up delay of 2 keep the order of the defaults (15 s,    *)
(* 10 s, up to 9 s, 10 min) and make every comparison of TimesAssumption   *)
(* as tight as it can be with whole numbers.                               *)
(***************************************************************************)
EXTENDS LeaderElection

=============================================================================
