---------------------------- MODULE MCRemoteAudio ----------------------------
(* One test case's connection with a few operations.                         *)
EXTENDS RemoteAudio
=============================================================================
