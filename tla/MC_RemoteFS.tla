---------------------------- MODULE MC_RemoteFS ----------------------------
(* Two goroutines, one file, every file system.                              *)
EXTENDS RemoteFS
=============================================================================
