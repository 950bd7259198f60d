------------------------------- MODULE MCSpawn -------------------------------
(***************************************************************************)
(* SpawnBuild with one helper, a shim, a build under its name or another,   *)
(* and a pool with as many threads as there are calls: it works with one    *)
(* thread blocked in a shim, and is exhausted with two.                     *)
(***************************************************************************)
EXTENDS SpawnBuild

MCHelper     == {"shim"}
MCHelperName == [x \in MCHelper |-> "shim"]
MCHelperSig  == [x \in MCHelper |-> "s"]
=============================================================================
