-------------------------- MODULE MCResumableUpload --------------------------
(***************************************************************************)
(* ResumableUpload for TLC: archives of no byte, of one and of five units  *)
(* of 256 KiB, in chunks of two, and the limits of the code.               *)
(***************************************************************************)
EXTENDS ResumableUpload
=============================================================================
