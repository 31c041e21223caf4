--------------------------- MODULE ExtensionStore ---------------------------
(***************************************************************************)
(* What the extension registry promises (spec 4.E and section 6): each     *)
(* Extensible holds at most one value per item, of the item's extype;     *)
(* Get(Set(c, v)) = v until the next Unset or Set of that slot; unloading *)
(* an item clears it on every Extensible of that server; a synced item's  *)
(* changes reach the peer in order and are applied there by FromNetwork.  *)
(* Values are strings; there are no pointers, no heap and no deleter.     *)
(***************************************************************************)
EXTENDS Sequences

CONSTANTS Containers, ExtType, Items, ItemType, Synced, Strings

Servers == {"home", "peer"}
Slots == Containers \X Items
Empty == ""

VARIABLES
    val,         \* val[s][<<c, i>>]: what Get returns on server s, or Empty
    registered,  \* registered[s]: the items registered on server s
    link         \* the changes broadcast to the peer and not yet applied

vars == <<val, registered, link>>

Init ==
    /\ val = [s \in Servers |-> [k \in Slots |-> Empty]]
    /\ registered = [s \in Servers |-> Items]
    /\ link = <<>>

Put(s, k, v) == val' = [val EXCEPT ![s][k] = v]

Broadcast(c, i, v, sync) ==
    link' = IF sync /\ i \in Synced
            THEN Append(link, [c |-> c, item |-> i, value |-> v])
            ELSE link

(* Set and Unset on home: only for an item of the container's extype.   *)
(* v is the value the slot now holds, a string or Empty.                  *)
Write(c, i, sync) ==
    LET v == val'["home"][<<c, i>>] IN
    /\ i \in registered["home"]
    /\ ExtType[c] = ItemType[i]
    /\ UNCHANGED registered
    /\ v \in Strings \cup {Empty}
    /\ Broadcast(c, i, v, sync)
    /\ Put("home", <<c, i>>, v)

(* The peer applies the oldest change, or drops it for an item it does   *)
(* not have.                                                              *)
Apply ==
    /\ link # <<>>
    /\ LET m == Head(link) IN
       IF m.item \in registered["peer"] \cap Synced
       THEN Put("peer", <<m.c, m.item>>, m.value)
       ELSE UNCHANGED val
    /\ link' = Tail(link)
    /\ UNCHANGED registered

Unregister(s, i) ==
    /\ i \in registered[s]
    /\ val' = [val EXCEPT ![s] = [k \in Slots |-> IF k[2] = i THEN Empty ELSE @[k]]]
    /\ registered' = [registered EXCEPT ![s] = @ \ {i}]
    /\ UNCHANGED link

Register(s, i) ==
    /\ i \notin registered[s]
    /\ registered' = [registered EXCEPT ![s] = @ \cup {i}]
    /\ UNCHANGED <<val, link>>

Next ==
    \/ \E c \in Containers, i \in Items, sync \in BOOLEAN : Write(c, i, sync)
    \/ Apply
    \/ \E s \in Servers, i \in Items : Unregister(s, i) \/ Register(s, i)

Spec == Init /\ [][Next]_vars

====
