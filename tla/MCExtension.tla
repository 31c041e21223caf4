---------------------------- MODULE MCExtension ----------------------------
(* Instance of Extension for TLC: a user and a channel; a synced and an   *)
(* unsynced user item and a synced channel item; three heap addresses.     *)
EXTENDS Extension, TLC

MCContainers == {"alice", "#chan"}
MCExtType == [c \in MCContainers |-> IF c = "alice" THEN "USER" ELSE "CHANNEL"]
MCItems == {"away", "cloak", "topic"}
MCItemType == [i \in MCItems |-> IF i = "topic" THEN "CHANNEL" ELSE "USER"]
MCSynced == {"away", "topic"}
PtrSymmetry == Permutations(Ptrs)
====
