---------------------------- MODULE MCKernelBoot ----------------------------
(* Model of KernelBoot for TLC.                                            *)
EXTENDS KernelBoot
=============================================================================
