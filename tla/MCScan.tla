------------------------------- MODULE MCScan -------------------------------
(* FileScanner: a few rows through a short pipe, or two walkers on a few   *)
(* paths, and a short channel.                                             *)
EXTENDS FileScanner
=============================================================================
