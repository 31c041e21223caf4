----------------------------- MODULE Extension -----------------------------
(***************************************************************************)
(* The extension registry of src/include/extension.h: SimpleExtItem<T>    *)
(* values (as StringExtItem stores them) attached to Extensibles on two   *)
(* servers.  Modules on the home server call Set, SetFwd and Unset; a     *)
(* synced item broadcasts each change, and the peer server applies it     *)
(* through FromNetwork.  The heap is explicit: a value is an address      *)
(* that "new T" hands out, that SetRaw stores and that the item's deleter  *)
(* frees, so a lost, shared or twice-deleted value is a state TLC sees.   *)
(*                                                                         *)
(* ExtensionItem's out-of-line members (SetRaw, UnsetRaw, Sync,           *)
(* registration and unload, StringExtItem::FromInternal/ToInternal) are  *)
(* not in the repository; they are modelled from the spec (4.E).          *)
(***************************************************************************)
EXTENDS Naturals, Sequences, FiniteSets, SequencesExt

CONSTANTS
    Containers,   \* Extensibles (users, channels, memberships)
    ExtType,      \* ExtType[c]: the extype tag of container c
    Items,        \* registered StringExtItems
    ItemType,     \* ItemType[i]: the extype item i was constructed with
    Synced,       \* the items constructed with sync = true
    Strings,      \* non-empty string values
    Ptrs,         \* the addresses "new std::string" can return
    NullPtr,      \* nullptr
    MaxInFlight,  \* bound on metadata messages in flight to the peer
    ReSetLive     \* whether a caller may pass Set the pointer Get returned

Home == "home"
Peer == "peer"
Servers == {Home, Peer}
Slots == Containers \X Items
(* The network string of an unset value: ToInternal(nullptr). *)
Empty == ""

VARIABLES
    ext,         \* ext[s][<<c, i>>]: the pointer SetRaw stored on server s
    heap,        \* heap[p]: "unused", "live" or "freed"
    obj,         \* obj[p]: the string at address p
    deletes,     \* deletes[p]: how often an item's deleter ran on p
    registered,  \* registered[s]: the items registered on server s
    link,        \* metadata messages from home to the peer, in order
    unsynced     \* slots whose last change on home was not broadcast

vars == <<ext, heap, obj, deletes, registered, link, unsynced>>

Init ==
    /\ ext = [s \in Servers |-> [k \in Slots |-> NullPtr]]
    /\ heap = [p \in Ptrs |-> "unused"]
    /\ obj = [p \in Ptrs |-> Empty]
    /\ deletes = [p \in Ptrs |-> 0]
    /\ registered = [s \in Servers |-> Items]
    /\ link = <<>>
    /\ unsynced = {}

Fresh == {p \in Ptrs : heap[p] = "unused"}

(* SimpleExtItem::Delete: std::default_delete, a no-op on nullptr. *)
Delete(h, p) == IF p = NullPtr THEN h ELSE [h EXCEPT ![p] = "freed"]
Deleted(d, p) == IF p = NullPtr THEN d ELSE [d EXCEPT ![p] = @ + 1]

(* The string on server s for slot <<c, i>>: Get, then ToInternal. *)
ValueOf(s, c, i) ==
    IF ext[s][<<c, i>>] = NullPtr THEN Empty ELSE obj[ext[s][<<c, i>>]]

(* The pointers a caller of Set(container, T* value) owns: one it got    *)
(* from new T, or, where callers do so, the one Get returned.             *)
CallerPtrs(c, i) ==
    Fresh \cup (IF ReSetLive THEN {ext[Home][<<c, i>>]} \ {NullPtr} ELSE {})

(* Mutant: Set stores the new value without deleting the old one. *)
SetOnNoDelete(s, c, i, p, h) ==
    /\ ExtType[c] = ItemType[i]
    /\ ext' = [ext EXCEPT ![s][<<c, i>>] = p]
    /\ heap' = h
    /\ deletes' = deletes

(* SimpleExtItem::Set(container, T* value, sync) without its Sync: the    *)
(* extype check, SetRaw and Delete of the old value.  h is the heap once  *)
(* the value exists.                                                      *)
SetOn(s, c, i, p, h) ==
    LET old == ext[s][<<c, i>>] IN
    /\ ExtType[c] = ItemType[i]
    /\ ext' = [ext EXCEPT ![s][<<c, i>>] = p]
    /\ heap' = Delete(h, old)
    /\ deletes' = Deleted(deletes, old)

(* SimpleExtItem::Unset(container, sync) without its Sync. *)
UnsetOn(s, c, i) ==
    LET old == ext[s][<<c, i>>] IN
    /\ ExtType[c] = ItemType[i]
    /\ ext' = [ext EXCEPT ![s][<<c, i>>] = NullPtr]
    /\ heap' = Delete(heap, old)
    /\ deletes' = Deleted(deletes, old)

(* "if (sync && synced) Sync(container, value)": ExtensionItem::Sync      *)
(* sends ToNetwork of the value to the peer.                              *)
Sync(c, i, v, sync) ==
    IF sync /\ i \in Synced
    THEN /\ Len(link) < MaxInFlight
         /\ link' = Append(link, [c |-> c, item |-> i, value |-> v])
    ELSE link' = link

(* Bookkeeping for ReplicaAgrees, not code: whether the caller asked for  *)
(* this change of a synced item to be broadcast.                          *)
Broadcast(c, i, sync) ==
    unsynced' = IF sync /\ i \in Synced THEN unsynced \ {<<c, i>>}
                                         ELSE unsynced \cup {<<c, i>>}

(***************************************************************************)
(* Operations of a module on the home server.                             *)
(***************************************************************************)

(* Set(container, T* value, sync), and Set(container, const T&, sync),    *)
(* which passes it new T(value).                                          *)
Set(c, i, p, v, sync) ==
    /\ i \in registered[Home]
    /\ obj' = IF p \in Fresh THEN [obj EXCEPT ![p] = v] ELSE obj
    /\ SetOn(Home, c, i, p, [heap EXCEPT ![p] = "live"])
    /\ Sync(c, i, obj'[p], sync)
    /\ Broadcast(c, i, sync)
    /\ UNCHANGED registered

(* SetFwd(container, args...): Set(container, new T(args...), false). *)
SetFwd(c, i, p, v) ==
    /\ i \in registered[Home]
    /\ p \in Fresh
    /\ obj' = [obj EXCEPT ![p] = v]
    /\ SetOn(Home, c, i, p, [heap EXCEPT ![p] = "live"])
    /\ Sync(c, i, v, FALSE)
    /\ Broadcast(c, i, FALSE)
    /\ UNCHANGED registered

(* Mutant: Unset does not broadcast the removal. *)
UnsetNoSync(c, i, sync) ==
    /\ i \in registered[Home]
    /\ UnsetOn(Home, c, i)
    /\ link' = link
    /\ Broadcast(c, i, sync)
    /\ UNCHANGED <<obj, registered>>

Unset(c, i, sync) ==
    /\ i \in registered[Home]
    /\ UnsetOn(Home, c, i)
    /\ Sync(c, i, Empty, sync)
    /\ Broadcast(c, i, sync)
    /\ UNCHANGED <<obj, registered>>

(***************************************************************************)
(* The peer applies the broadcast in order: SimpleExtItem::FromNetwork    *)
(* calls FromInternal when the item is synced, and StringExtItem's        *)
(* FromInternal unsets on an empty string and otherwise sets a copy,      *)
(* without syncing.  Metadata for an item the peer has not registered is  *)
(* dropped.                                                               *)
(***************************************************************************)
Receive ==
    /\ link # <<>>
    /\ LET m == Head(link) IN
       \/ /\ m.item \notin registered[Peer] \cap Synced
          /\ unsynced' = unsynced \cup {<<m.c, m.item>>}
          /\ UNCHANGED <<ext, heap, obj, deletes>>
       \/ /\ m.item \in registered[Peer] \cap Synced
          /\ m.value = Empty
          /\ UnsetOn(Peer, m.c, m.item)
          /\ UNCHANGED <<obj, unsynced>>
       \/ /\ m.item \in registered[Peer] \cap Synced
          /\ m.value # Empty
          /\ \E p \in Fresh :
                /\ obj' = [obj EXCEPT ![p] = m.value]
                /\ SetOn(Peer, m.c, m.item, p, [heap EXCEPT ![p] = "live"])
          /\ UNCHANGED unsynced
    /\ link' = Tail(link)
    /\ UNCHANGED registered

(***************************************************************************)
(* Module load and unload on either server (spec 4.E): unregistering an  *)
(* item deletes its value on every Extensible, and tells no other server. *)
(***************************************************************************)
(* Mutant: the walk deletes every item's value, not only item i's. *)
UnloadEvery(s, i) ==
    /\ i \in registered[s]
    /\ LET held == {ext[s][k] : k \in Slots} \ {NullPtr} IN
       /\ ext' = [ext EXCEPT ![s] = [k \in Slots |-> NullPtr]]
       /\ heap' = [p \in Ptrs |-> IF p \in held THEN "freed" ELSE heap[p]]
       /\ deletes' = [p \in Ptrs |-> IF p \in held THEN deletes[p] + 1 ELSE deletes[p]]
    /\ registered' = [registered EXCEPT ![s] = @ \ {i}]
    /\ unsynced' = unsynced \cup {<<c, i>> : c \in Containers}
    /\ UNCHANGED <<obj, link>>

Unload(s, i) ==
    /\ i \in registered[s]
    /\ LET held == {ext[s][<<c, i>>] : c \in Containers} \ {NullPtr} IN
       /\ ext' = [ext EXCEPT ![s] = [k \in Slots |-> IF k[2] = i THEN NullPtr ELSE @[k]]]
       /\ heap' = [p \in Ptrs |-> IF p \in held THEN "freed" ELSE heap[p]]
       /\ deletes' = [p \in Ptrs |-> IF p \in held THEN deletes[p] + 1 ELSE deletes[p]]
    /\ registered' = [registered EXCEPT ![s] = @ \ {i}]
    /\ unsynced' = unsynced \cup {<<c, i>> : c \in Containers}
    /\ UNCHANGED <<obj, link>>

Load(s, i) ==
    /\ i \notin registered[s]
    /\ registered' = [registered EXCEPT ![s] = @ \cup {i}]
    /\ UNCHANGED <<ext, heap, obj, deletes, link, unsynced>>

Next ==
    \/ \E c \in Containers, i \in Items, v \in Strings, sync \in BOOLEAN :
          \E p \in CallerPtrs(c, i) : Set(c, i, p, v, sync)
    \/ \E c \in Containers, i \in Items, v \in Strings, p \in Ptrs : SetFwd(c, i, p, v)
    \/ \E c \in Containers, i \in Items, sync \in BOOLEAN : Unset(c, i, sync)
    \/ Receive
    \/ \E s \in Servers, i \in Items : Unload(s, i)
    \/ \E s \in Servers, i \in Items : Load(s, i)

Spec == Init /\ [][Next]_vars

(***************************************************************************)
(* Properties.                                                            *)
(***************************************************************************)
TypeOK ==
    /\ ext \in [Servers -> [Slots -> Ptrs \cup {NullPtr}]]
    /\ heap \in [Ptrs -> {"unused", "live", "freed"}]
    /\ obj \in [Ptrs -> Strings \cup {Empty}]
    /\ deletes \in [Ptrs -> Nat]
    /\ registered \in [Servers -> SUBSET Items]
    /\ link \in Seq([c : Containers, item : Synced, value : Strings \cup {Empty}])
    /\ unsynced \subseteq Slots

Holders(p) == {<<s, k>> \in Servers \X Slots : ext[s][k] = p}

(* Extensibles own their values and the deleter runs exactly once per    *)
(* value (spec 4.E): across Set, SetFwd, Unset, FromNetwork and unload    *)
(* on both servers, a live value is stored in exactly one slot and has    *)
(* not been deleted, a freed one is in no slot and was deleted once, and  *)
(* nothing leaks (Set's and Unset's Delete of the value SetRaw/UnsetRaw  *)
(* return, Unload's walk over every Extensible).                          *)
DeleterOnce ==
    \A p \in Ptrs :
        CASE heap[p] = "live"  -> Cardinality(Holders(p)) = 1 /\ deletes[p] = 0
          [] heap[p] = "freed" -> Holders(p) = {} /\ deletes[p] = 1
          [] OTHER             -> Holders(p) = {} /\ deletes[p] = 0

(* The value the peer will hold for slot <<c, i>> once the metadata in   *)
(* flight has arrived.                                                    *)
PeerWillHold(c, i) ==
    LET k == SelectLastInSeq(link, LAMBDA m : m.c = c /\ m.item = i) IN
    IF k = 0 THEN ValueOf(Peer, c, i) ELSE link[k].value

(* A synced item's replica agrees with home (the sync round trip of spec *)
(* scenario 5): for every slot of a synced item registered on both        *)
(* servers whose last change on home was broadcast (Set or Unset with     *)
(* sync), the peer holds, or will hold once the link drains, exactly the  *)
(* string home holds, however Sets, Unsets and deliveries interleave.     *)
ReplicaAgrees ==
    \A c \in Containers, i \in Synced :
        (i \in registered[Home] \cap registered[Peer] /\ <<c, i>> \notin unsynced)
            => PeerWillHold(c, i) = ValueOf(Home, c, i)

(***************************************************************************)
(* Refinement: the registry with its heap implements the value store the *)
(* spec describes (ExtensionStore).  Get dereferences the stored pointer; *)
(* reading a freed value is undefined, and Dangling equals no string.     *)
(***************************************************************************)
Dangling == "<freed>"

Get(s, k) ==
    LET p == ext[s][k] IN
    IF p = NullPtr THEN Empty ELSE IF heap[p] = "live" THEN obj[p] ELSE Dangling

Store == INSTANCE ExtensionStore WITH val <- [s \in Servers |-> [k \in Slots |-> Get(s, k)]]

(* Every sequence of Set, SetFwd, Unset, FromNetwork, unload and load on  *)
(* the pointer-based registry is a behaviour of the value store: Get on   *)
(* each server returns what was last Set there (or nothing after Unset or *)
(* unload), no step changes a slot it was not about, and the peer changes *)
(* only by applying the oldest broadcast change, which carries the value  *)
(* home's Set or Unset wrote.                                              *)
ImplementsStore == Store!Spec

====
