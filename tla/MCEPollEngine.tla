--------------------------- MODULE MCEPollEngine ---------------------------
(* Instance of EPollEngine for TLC. *)
EXTENDS EPollEngine

CONSTANTS h1, h2, h3

MCHandlers == {h1, h2, h3}

(* Two handlers on three descriptors: epoll_wait never truncates. *)
MCHandlersTwo == {h1, h2}

(* The masks InspIRCd's handlers use: a listening or DNS socket polls for *)
(* reads; a client socket wants fast reads and edge writes, and fast      *)
(* writes while its send queue is not empty.                              *)
Listener == [d \in Dirs |-> IF d = "IN" THEN "poll" ELSE "no"]
Client   == [d \in Dirs |-> IF d = "IN" THEN "fast" ELSE "edge"]
Sending  == [d \in Dirs |-> "fast"]
MCMasks  == {Listener, Client, Sending}

(* A socket that reads on edges and polls for writes. *)
EdgeReadPollWrite == [d \in Dirs |-> IF d = "IN" THEN "edge" ELSE "poll"]
MCMasksEdgePoll == MCMasks \cup {EdgeReadPollWrite}

Symmetry == Permutations(MCHandlers)
====
