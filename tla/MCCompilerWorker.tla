-------------------------- MODULE MCCompilerWorker --------------------------
(* The small instances on which TLC checks CompilerWorker. *)
EXTENDS CompilerWorker
=============================================================================
