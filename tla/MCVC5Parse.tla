----------------------------- MODULE MCVC5Parse -----------------------------
(* Instances of VC5Parse for TLC; the constants are plain numbers.               *)
EXTENDS VC5Parse
=============================================================================
