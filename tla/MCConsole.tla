----------------------------- MODULE MCConsole -----------------------------
(* The instances of MCLab, for the lab with its display. *)
EXTENDS MCLab, ConsoleLab
=============================================================================
