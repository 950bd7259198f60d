-------------------------------- MODULE MCJit --------------------------------
(***************************************************************************)
(* JitModule with a helper h and two helpers k1 and k2 that share the NAME  *)
(* k with different signatures, and builds under both names; the process    *)
(* has a symbol called h of its own, which is not the helper.  A linkage    *)
(* other than Import lets a function be defined; Local and Export differ    *)
(* in nothing else the model can see, so builds use one of them.            *)
(***************************************************************************)
EXTENDS JitModule

MCHelper     == {"h", "k1", "k2"}
MCHelperName == [x \in MCHelper |-> IF x = "h" THEN "h" ELSE "k"]
MCHelperSig  == [x \in MCHelper |-> IF x = "k2" THEN "t" ELSE "s"]
=============================================================================
