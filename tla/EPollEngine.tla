---------------------------- MODULE EPollEngine ----------------------------
(***************************************************************************)
(* The epoll socket engine of src/src/socketengines/socketengine_epoll.cpp *)
(* together with the kernel's epoll instance it drives.                    *)
(*                                                                         *)
(* The engine keeps ref[fd], the EventHandler registered on each           *)
(* descriptor, and CurrentSetSize.  The kernel keeps, per descriptor, the  *)
(* interest set given to epoll_ctl and the readiness of the socket.        *)
(* DispatchEvents takes a snapshot of ready descriptors from epoll_wait    *)
(* and walks it, one step per event, calling HandleEvent of the handler    *)
(* found in ref[] at that moment.  A handler's callback runs as a sequence *)
(* of steps of its own between the call and the return: it may do I/O on  *)
(* its socket, change any handler's event mask, close any handler, or      *)
(* open a new socket, which the kernel gives the lowest free descriptor.   *)
(* The same operations are done between passes by timers and commands.     *)
(***************************************************************************)
EXTENDS Naturals, FiniteSets, Sequences, SequencesExt, TLC

CONSTANTS
    Handlers,   \* EventHandler objects, each used for one socket
    MaxFd,      \* descriptors are 0..MaxFd; GetMaxFds() = MaxFd + 1
    Masks,      \* the event masks handlers ask for
    NULL

Fds == 0..MaxFd

(* An event mask: the strategy wanted in each direction.  The FD_WANT_*   *)
(* bits of one direction are exclusive (ChangeEventMask clears the        *)
(* direction's bits before setting new ones).                             *)
Dirs == {"IN", "OUT"}
Strategy == {"no", "poll", "fast", "edge"}
Mask == [Dirs -> Strategy]

(* Readiness the kernel can report for a socket.  EPOLLERR takes the same *)
(* path through DispatchEvents as EPOLLHUP and is not told apart.         *)
Flags == {"IN", "OUT", "HUP"}

VARIABLES
    ref,        \* EPollEngine::ref[fd]
    size,       \* CurrentSetSize
    fdOf,       \* eh->GetFd(), NULL once the handler has closed (fd = -1)
    hstate,     \* "idle" (not yet created), "reg", or "closed"
    mask,       \* eh->event_mask
    interest,   \* kernel: epoll_event.events registered for fd, or NULL
    ready,      \* kernel: readiness of the socket open on fd
    pending,    \* kernel: readiness edges not yet reported (EPOLLET only)
    events,     \* the events[] array filled by the last epoll_wait
    j,          \* the loop index of DispatchEvents (1-based)
    pc,         \* "wait": between passes; "next": at the top of the loop;
                \* "write": after the read callback of events[j]
    cur,        \* the local eh of the current iteration
    running     \* the callback in progress: handler, kind, the handler that
                \* owned the descriptor when epoll_wait reported it (ghost),
                \* and where the loop continues on return; NULL if none

vars == <<ref, size, fdOf, hstate, mask, interest, ready, pending,
          events, j, pc, cur, running>>

Registered == {h \in Handlers : hstate[h] = "reg"}
OpenFds == {fdOf[h] : h \in Registered}
FreeFds == Fds \ OpenFds

(* Mutant: the edge-triggered branch tests only FD_WANT_EDGE_READ. *)
MaskToEpollNoFastRead(m) ==
    IF "poll" \in {m[d] : d \in Dirs}
    THEN {d \in Dirs : m[d] \in {"poll", "fast"}}
    ELSE {"ET"} \cup {d \in Dirs : m[d] \in IF d = "IN" THEN {"edge"}
                                               ELSE {"fast", "edge"}}

(***************************************************************************)
(* mask_to_epoll: level-triggered if either direction wants POLL, with     *)
(* IN/OUT for POLL or FAST; otherwise EPOLLET with IN/OUT for FAST or      *)
(* EDGE.                                                                   *)
(***************************************************************************)
mask_to_epoll(m) ==
    IF "poll" \in {m[d] : d \in Dirs}
    THEN {d \in Dirs : m[d] \in {"poll", "fast"}}
    ELSE {"ET"} \cup {d \in Dirs : m[d] \in {"fast", "edge"}}

(* What epoll_wait reports for fd: EPOLLHUP always; level mode reports    *)
(* current readiness, EPOLLET the edges not yet reported that are still   *)
(* ready when the kernel polls the socket at report time.                 *)
(* Edges the kernel queues when the descriptor is added or modified with   *)
(* events ev while the socket has readiness r.                            *)
Armed(ev, r) == IF "ET" \in ev THEN r ELSE {}

Reportable(f) ==
    IF interest[f] = NULL THEN {}
    ELSE LET want == (interest[f] \cap Dirs) \cup {"HUP"}
         IN  IF "ET" \in interest[f] THEN pending[f] \cap ready[f] \cap want
                                     ELSE ready[f] \cap want

(***************************************************************************)
(* The engine's operations.                                                *)
(***************************************************************************)

(* Mutant: ev.events computed from eh->GetEventMask() before the new     *)
(* mask is stored.                                                        *)
AddFdStaleMask(h, f, m) ==
    /\ ref[f] = NULL
    /\ ref' = [ref EXCEPT ![f] = h]
    /\ interest' = [interest EXCEPT ![f] = mask_to_epoll(mask[h])]
    /\ mask' = [mask EXCEPT ![h] = m]
    /\ size' = size + 1

(* AddFd: the descriptor is in range (0..MaxFd) and not in ref[]; EPOLL_   *)
(* CTL_ADD with mask_to_epoll(mask); ref[fd] = eh; SetEventMask; size+1.   *)
(* The kernel queues the socket's present readiness on ADD.               *)
AddFd(h, f, m) ==
    /\ ref[f] = NULL
    /\ ref' = [ref EXCEPT ![f] = h]
    /\ interest' = [interest EXCEPT ![f] = mask_to_epoll(m)]
    /\ mask' = [mask EXCEPT ![h] = m]
    /\ size' = size + 1

(* OnSetEvent: EPOLL_CTL_MOD only if the translated events differ.  The   *)
(* kernel re-arms the descriptor on MOD.                                  *)
OnSetEvent(h, old, new) ==
    LET f == fdOf[h] IN
    IF mask_to_epoll(old) # mask_to_epoll(new)
    THEN /\ interest' = [interest EXCEPT ![f] = mask_to_epoll(new)]
         /\ pending' = [pending EXCEPT ![f] = Armed(mask_to_epoll(new), ready[f])]
    ELSE UNCHANGED <<interest, pending>>

(* SocketEngine::ChangeEventMask (not under src/): store the new mask and *)
(* tell the backend when it changed.                                      *)
ChangeEventMask(h, m) ==
    /\ m # mask[h]
    /\ mask' = [mask EXCEPT ![h] = m]
    /\ OnSetEvent(h, mask[h], m)

(* Mutant: ref[fd] is not cleared. *)
DelFdKeepRef(h) ==
    LET f == fdOf[h] IN
    /\ interest[f] # NULL
    /\ interest' = [interest EXCEPT ![f] = NULL]
    /\ UNCHANGED ref
    /\ size' = size - 1

(* DelFd(eh, false) on a registered handler: EPOLL_CTL_DEL succeeds;      *)
(* ref[fd] = NULL; size-1.                                                *)
DelFd(h) ==
    LET f == fdOf[h] IN
    /\ interest[f] # NULL
    /\ interest' = [interest EXCEPT ![f] = NULL]
    /\ ref' = [ref EXCEPT ![f] = NULL]
    /\ size' = size - 1

(***************************************************************************)
(* What handlers do (their code is not under src/): open a socket and     *)
(* AddFd it, DelFd and close, change a mask, do I/O.                      *)
(***************************************************************************)
OpenSocket(h, m) ==
    LET f == CHOOSE x \in FreeFds : \A y \in FreeFds : x <= y IN
    /\ hstate[h] = "idle"
    /\ FreeFds # {}
    /\ AddFd(h, f, m)
    /\ fdOf' = [fdOf EXCEPT ![h] = f]
    /\ hstate' = [hstate EXCEPT ![h] = "reg"]
    /\ \E r \in SUBSET Dirs :
          /\ ready' = [ready EXCEPT ![f] = r]
          /\ pending' = [pending EXCEPT ![f] = Armed(mask_to_epoll(m), r)]

CloseSocket(h) ==
    LET f == fdOf[h] IN
    /\ hstate[h] = "reg"
    /\ DelFd(h)
    /\ fdOf' = [fdOf EXCEPT ![h] = NULL]
    /\ hstate' = [hstate EXCEPT ![h] = "closed"]
    /\ ready' = [ready EXCEPT ![f] = {}]
    /\ pending' = [pending EXCEPT ![f] = {}]
    /\ UNCHANGED mask

SetMask(h, m) ==
    /\ hstate[h] = "reg"
    /\ ChangeEventMask(h, m)
    /\ UNCHANGED <<ref, size, fdOf, hstate, ready>>

(* One thing done by a callback, a timer or a command. *)
Operation ==
    \/ \E h \in Handlers, m \in Masks : OpenSocket(h, m)
    \/ \E h \in Handlers : CloseSocket(h)
    \/ \E h \in Handlers, m \in Masks : SetMask(h, m)

(***************************************************************************)
(* The network and the peers: data, buffer space, hang-up or an error     *)
(* arrive on an open socket, each a new edge for EPOLLET.  The loop of    *)
(* DispatchEvents reads only its snapshot, so readiness that arrives      *)
(* during a pass is taken to arrive at its end.                           *)
(***************************************************************************)
SocketReady ==
    /\ pc = "wait"
    /\ running = NULL
    /\ \E f \in OpenFds, fl \in Flags :
          /\ ready' = [ready EXCEPT ![f] = @ \cup {fl}]
          /\ pending' = [pending EXCEPT ![f] = @ \cup Armed(interest[f], {fl})]
    /\ UNCHANGED <<ref, size, fdOf, hstate, mask, interest,
                   events, j, pc, cur, running>>

(***************************************************************************)
(* DispatchEvents.                                                         *)
(***************************************************************************)

(* epoll_wait(EngineHandle, events, GetMaxFds() - 1, 1000): at most       *)
(* MaxFd of the reportable descriptors, in the kernel's order; EPOLLET    *)
(* edges are consumed by the report.  None ready: the wait times out and  *)
(* the pass is empty.  The ghost field src records the handler that owned *)
(* the descriptor when the event was reported.                            *)
EpollWaitUpTo(maxevents) ==
    LET R == {f \in Fds : Reportable(f) # {}}
        n == IF Cardinality(R) <= maxevents THEN Cardinality(R) ELSE maxevents
    IN
    /\ pc = "wait"
    /\ running = NULL
    /\ \E S \in SUBSET R :
         /\ Cardinality(S) = n
         /\ \E order \in SetToSeqs(S) :
              events' = [k \in 1..n |->
                          [fd |-> order[k], ev |-> Reportable(order[k]),
                           src |-> ref[order[k]]]]
         /\ pending' = [f \in Fds |->
                          IF f \in S /\ "ET" \in interest[f]
                          THEN pending[f] \ Reportable(f)
                          ELSE pending[f]]
         /\ pc' = IF S = {} THEN "wait" ELSE "next"
    /\ j' = 1
    /\ UNCHANGED <<ref, size, fdOf, hstate, mask, interest, ready, cur,
                   running>>

(* DispatchEvents passes GetMaxFds() - 1 = MaxFd. *)
EpollWait == EpollWaitUpTo(MaxFd)

(* eh->HandleEvent(kind): the callback starts; "then" is where the loop   *)
(* goes on when it returns.                                               *)
Call(h, kind, then) ==
    running' = [h |-> h, kind |-> kind, src |-> events[j].src, then |-> then]

Errors == {"HUP"}

(* One iteration of the for loop, up to the read callback: eh = ref[fd];  *)
(* skip if NULL; EPOLLHUP or EPOLLERR: the error callback and continue;   *)
(* EPOLLIN: clear FD_READ_WILL_BLOCK and the read callback.               *)
DispatchNext ==
    LET e  == events[j]
        eh == ref[e.fd]
    IN
    /\ pc = "next"
    /\ running = NULL
    /\ j <= Len(events)
    /\ \/ /\ eh = NULL
          /\ j' = j + 1
          /\ UNCHANGED <<cur, running, pc>>
       \/ /\ eh # NULL
          /\ e.ev \cap Errors # {}
          /\ Call(eh, "error", "next")
          /\ UNCHANGED <<cur, j, pc>>
       \/ /\ eh # NULL
          /\ e.ev \cap Errors = {}
          /\ "IN" \in e.ev
          /\ Call(eh, "read", "write")
          /\ cur' = eh
          /\ UNCHANGED <<j, pc>>
       \/ /\ eh # NULL
          /\ e.ev \cap Errors = {}
          /\ "IN" \notin e.ev
          /\ cur' = eh
          /\ pc' = "write"
          /\ UNCHANGED <<j, running>>
    /\ UNCHANGED <<ref, size, fdOf, hstate, mask, interest, ready, pending,
                   events>>

(* The rest of the iteration: EPOLLOUT: clear FD_WRITE_WILL_BLOCK and the *)
(* write callback, to the eh read before the read callback ran.           *)
DispatchWrite ==
    /\ pc = "write"
    /\ running = NULL
    /\ \/ /\ "OUT" \in events[j].ev
          /\ Call(cur, "write", "next")
          /\ UNCHANGED <<j, pc>>
       \/ /\ "OUT" \notin events[j].ev
          /\ j' = j + 1
          /\ pc' = "next"
          /\ UNCHANGED running
    /\ UNCHANGED <<ref, size, fdOf, hstate, mask, interest, ready, pending,
                   events, cur>>

(* The loop ends: DispatchEvents returns to the main loop. *)
DispatchEnd ==
    /\ pc = "next"
    /\ running = NULL
    /\ j > Len(events)
    /\ pc' = "wait"
    /\ events' = <<>>
    /\ cur' = NULL
    /\ UNCHANGED <<ref, size, fdOf, hstate, mask, interest, ready, pending,
                   j, running>>

(***************************************************************************)
(* The callback in progress.  A handler that is no longer registered has  *)
(* closed its socket (its fd is -1) and does nothing.                     *)
(***************************************************************************)

(* Read to EAGAIN, or fill the send buffer.  An edge whose readiness is  *)
(* gone is never reported, so it is dropped with it.                      *)
CallbackIO ==
    LET h == running.h
        d == IF running.kind = "read" THEN "IN" ELSE "OUT"
    IN
    /\ running # NULL
    /\ running.kind \in {"read", "write"}
    /\ h \in Registered
    /\ d \in ready[fdOf[h]]
    /\ ready' = [ready EXCEPT ![fdOf[h]] = @ \ {d}]
    /\ pending' = [pending EXCEPT ![fdOf[h]] = @ \ {d}]
    /\ UNCHANGED <<ref, size, fdOf, hstate, mask, interest,
                   events, j, pc, cur, running>>

CallbackOperation ==
    /\ running # NULL
    /\ Operation
    /\ UNCHANGED <<events, j, pc, cur, running>>

(* The callback returns.  An error callback has closed its socket by then *)
(* (the handler is culled); the loop continues with the next event or     *)
(* with the write half of this one.                                       *)
CallbackReturn ==
    LET h == running.h IN
    /\ running # NULL
    /\ \/ /\ running.kind = "error"
          /\ h \in Registered
          /\ CloseSocket(h)
       \/ /\ running.kind # "error" \/ h \notin Registered
          /\ UNCHANGED <<ref, size, fdOf, hstate, mask, interest, ready,
                         pending>>
    /\ running' = NULL
    /\ pc' = running.then
    /\ j' = IF running.then = "next" THEN j + 1 ELSE j
    /\ UNCHANGED <<events, cur>>

(* Timers and commands between passes. *)
MainLoopOperation ==
    /\ pc = "wait"
    /\ running = NULL
    /\ Operation
    /\ UNCHANGED <<events, j, pc, cur, running>>

NoMask == [d \in Dirs |-> "no"]

Init ==
    /\ ref = [f \in Fds |-> NULL]
    /\ size = 0
    /\ fdOf = [h \in Handlers |-> NULL]
    /\ hstate = [h \in Handlers |-> "idle"]
    /\ mask = [h \in Handlers |-> NoMask]
    /\ interest = [f \in Fds |-> NULL]
    /\ ready = [f \in Fds |-> {}]
    /\ pending = [f \in Fds |-> {}]
    /\ events = <<>>
    /\ j = 1
    /\ pc = "wait"
    /\ cur = NULL
    /\ running = NULL

Next ==
    \/ EpollWait
    \/ DispatchNext
    \/ DispatchWrite
    \/ DispatchEnd
    \/ CallbackIO
    \/ CallbackOperation
    \/ CallbackReturn
    \/ MainLoopOperation
    \/ SocketReady

(* Each iteration of the main loop calls DispatchEvents after a bounded   *)
(* amount of timer and command work, so an epoll_wait that could report   *)
(* something infinitely often does (strong fairness: the work between     *)
(* passes can disable it, as a mask change does).  Callbacks are short    *)
(* and never block, so each dispatch step and each return happens.        *)
Fairness ==
    /\ SF_vars(EpollWait)
    /\ WF_vars(DispatchNext)
    /\ WF_vars(DispatchWrite)
    /\ WF_vars(DispatchEnd)
    /\ WF_vars(CallbackReturn)

Spec == Init /\ [][Next]_vars /\ Fairness

-----------------------------------------------------------------------------
(* Properties *)

TypeOK ==
    /\ ref \in [Fds -> Handlers \cup {NULL}]
    /\ size \in Nat
    /\ fdOf \in [Handlers -> Fds \cup {NULL}]
    /\ hstate \in [Handlers -> {"idle", "reg", "closed"}]
    /\ mask \in [Handlers -> Mask]
    /\ interest \in [Fds -> SUBSET (Dirs \cup {"ET"}) \cup {NULL}]
    /\ ready \in [Fds -> SUBSET Flags]
    /\ pending \in [Fds -> SUBSET Flags]
    /\ j \in 1..(MaxFd + 1)
    /\ pc \in {"wait", "next", "write"}
    /\ cur \in Handlers \cup {NULL}

(* AddFd, DelFd and the callbacks that run them in the middle of a pass   *)
(* keep the engine's table and the kernel in step: ref[fd] names exactly  *)
(* the registered handler whose descriptor fd is, each registered handler *)
(* is in ref[], CurrentSetSize counts them, and the kernel's epoll set    *)
(* holds exactly the descriptors in ref[].                                *)
TableConsistent ==
    /\ \A f \in Fds : ref[f] # NULL =>
          /\ ref[f] \in Registered
          /\ fdOf[ref[f]] = f
    /\ \A h \in Registered : ref[fdOf[h]] = h
    /\ size = Cardinality(Registered)
    /\ \A f \in Fds : (interest[f] = NULL) <=> (ref[f] = NULL)

(* After any sequence of AddFd and ChangeEventMask calls, the events the  *)
(* kernel watches for a registered handler are mask_to_epoll of its       *)
(* current mask: OnSetEvent's skipped EPOLL_CTL_MOD loses no change.      *)
KernelMatchesMask ==
    \A h \in Registered : interest[fdOf[h]] = mask_to_epoll(mask[h])

(* Spec 4.B: the engine must not deliver further events to a handler     *)
(* removed in the same dispatch pass.  A handler's own callback may       *)
(* remove it; what must not happen is that DispatchEvents then starts     *)
(* another callback on it (socketengine_epoll.cpp 191-195 call the write  *)
(* callback on the eh read before the read callback ran).                 *)
NoCallbackToRemoved ==
    [][running = NULL /\ running' # NULL => running'.h \in Registered']_vars

(* An event is delivered to the handler whose socket raised it, not to a  *)
(* handler that got the same descriptor number later in the pass          *)
(* (DispatchEvents reads ref[events[j].data.fd] at delivery time).        *)
EventFromOwnSocket ==
    running # NULL => running.src = running.h

(* Readiness the kernel has not yet told the handler of: in level mode   *)
(* all of it, under EPOLLET the edges not yet reported.                   *)
Untold(f) == IF "ET" \in interest[f] THEN pending[f] \cap ready[f]
                                    ELSE ready[f]

ReadCalled(h) ==
    running # NULL /\ running.h = h /\ running.kind = "read"

(* Spec 4.A/4.B: a handler that wants reads, and whose socket has data it *)
(* has not been told of, eventually gets its read callback, unless it     *)
(* stops wanting reads or is removed: mask_to_epoll must translate every  *)
(* strategy honestly and DispatchEvents must not lose the event.          *)
ReadsDelivered ==
    \A h \in Handlers :
        (h \in Registered /\ mask[h]["IN"] # "no"
                          /\ "IN" \in Untold(fdOf[h]))
          ~> (ReadCalled(h) \/ h \notin Registered \/ mask[h]["IN"] = "no")

====
