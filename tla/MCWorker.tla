------------------------------ MODULE MCWorker ------------------------------
(* Two chats, one of them a stream, for fewer slots than chats or as many; a   *)
(* device and a PAT login that may overlap.                                    *)
EXTENDS Worker, TLC
=============================================================================
