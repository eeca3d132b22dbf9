------------------------------ MODULE MCOutputDir ------------------------------
(* One output directory and a suite of two tasks.                            *)
EXTENDS OutputDir
=============================================================================
