------------------------------ MODULE MCKernel ------------------------------
(* Kernel for model checking: every constant has its value in the .cfg.    *)
EXTENDS Kernel
=============================================================================
