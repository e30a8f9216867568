----------------------------- MODULE EventLoop -----------------------------
(***************************************************************************)
(* The platform event loops (src/crates/tpt-t-core/src/eventloop/): epoll, *)
(* kqueue or a completion port behind one interface, with the kernel that  *)
(* keeps the interest and the callers that register descriptors.           *)
(*                                                                         *)
(* The Unix backends are edge-triggered: activity puts an armed filter on  *)
(* the kernel's ready list once, dispatch takes it off, and the handler    *)
(* must find out about everything that happened.  Callers use each token   *)
(* for one registration (the fleet server counts them), and close a        *)
(* descriptor without unregistering it (so does the fleet server); its     *)
(* number is used again afterwards.                                        *)
(***************************************************************************)
EXTENDS Naturals, Sequences, FiniteSets

CONSTANTS
    Fd,             \* descriptor numbers, or handles
    MaxToken,       \* bound on the registrations
    MaxActivity,    \* bound on the activity a handler has not seen
    MaxQueued,      \* bound on the completions queued on a port
    BatchLen        \* events taken by one wait

ASSUME LoopAssumption ==
    MaxToken \in Nat /\ MaxActivity \in Nat /\ MaxQueued \in Nat /\ BatchLen \in Nat \ {0}

VARIABLES
    backend,        \* the platform the program was built for
    regs,           \* regs: token, descriptor and filters
    registered,     \* IocpLoop.registered
    armed,          \* the kernel's interest: descriptor, filter, token
    edge,           \* the kernel's ready list: descriptor and filter
    port,           \* completions queued on the port, by token
    activity,       \* what happened on a descriptor and its handler has not seen
    watched,        \* the registrations as the callers know them
    nextToken,      \* the next unused token
    late            \* tokens delivered without a registration

loopVars == <<backend, regs, registered, armed, edge, port, activity, watched, nextToken, late>>

Flag == {"READ", "WRITE", "ERROR"}
Interest == {{"READ"}, {"READ", "WRITE"}}       \* what the callers ask for
NoReg == [token |-> 0, interest |-> {}]
Quiet == [flag \in Flag |-> 0]
Unix == backend \in {"epoll", "kqueue"}

-----------------------------------------------------------------------------
\* EpollLoop::new and KqueueLoop::new; IocpLoop::new.
UnixLoop == regs = {} /\ armed = {} /\ edge = {}
CompletionPort == registered = {} /\ port = << >>

LoopInit ==
    /\ backend \in {"epoll", "kqueue", "iocp"}
    /\ UnixLoop /\ CompletionPort
    /\ activity = [fd \in Fd |-> Quiet]
    /\ watched = [fd \in Fd |-> NoReg]
    /\ nextToken = 1 /\ late = {}

\* to_epoll_mask, and the filters arm asks for: errors and hang-ups are always
\* on for epoll, and flags of the other filters for kqueue.
Mask(interest) == IF backend = "epoll" THEN interest \cup {"ERROR"} ELSE interest

Entries(fd, token, filters) == [fd : {fd}, filter : filters, token : {token}]

\* Whether activity of a kind makes an armed filter ready.
Wakes(filter, flag) == filter = flag \/ (backend = "kqueue" /\ flag = "ERROR")

\* The armed filters of a descriptor that are ready as soon as they are added.
ReadyNow(fd, filters) ==
    {<<fd, f>> : f \in {f \in filters : \E flag \in Flag : Wakes(f, flag) /\ activity[fd][flag] > 0}}

\* The kernel adds filters; adding one again replaces its token.
Arm(fd, token, filters) ==
    /\ armed' = {e \in armed : ~(e.fd = fd /\ e.filter \in filters)} \cup Entries(fd, token, filters)
    /\ edge' = edge \cup ReadyNow(fd, filters)

\* HashMap::insert.
Insert(token, fd, filters) ==
    regs' = {r \in regs : r.token # token} \cup {[token |-> token, fd |-> fd, filters |-> filters]}

Registered(fd, interest) ==
    /\ watched' = [watched EXCEPT ![fd] = [token |-> nextToken, interest |-> interest]]
    /\ nextToken' = nextToken + 1

\* register of the Unix backends.
Register(fd, interest) ==
    /\ Unix /\ watched[fd] = NoReg /\ nextToken <= MaxToken
    /\ backend = "epoll" => \A e \in armed : e.fd # fd      \* EEXIST
    /\ Arm(fd, nextToken, Mask(interest))
    /\ Insert(nextToken, fd, Mask(interest))
    /\ Registered(fd, interest)
    /\ UNCHANGED <<backend, registered, port, activity, late>>

\* KqueueLoop::arm when the second filter fails: the first one stays armed.
ArmFails(fd) ==
    /\ backend = "kqueue" /\ watched[fd] = NoReg /\ nextToken <= MaxToken
    /\ Arm(fd, nextToken, {"READ"})
    /\ nextToken' = nextToken + 1
    /\ UNCHANGED <<backend, regs, registered, port, activity, watched, late>>

\* What unregister takes out of the kernel: the descriptor, or the filters that
\* were recorded under the token it found.
Disarms(r, e) == e.fd = r.fd /\ (backend = "kqueue" => e.filter \in r.filters)

\* unregister: any registration recorded for the descriptor.
Unregister(fd) ==
    /\ Unix
    /\ \E r \in regs :
          /\ r.fd = fd
          /\ regs' = regs \ {r}
          /\ armed' = {e \in armed : ~Disarms(r, e)}
    /\ edge' = {x \in edge : \E e \in armed' : x = <<e.fd, e.filter>>}
    /\ watched' = [watched EXCEPT ![fd] = NoReg]
    /\ UNCHANGED <<backend, registered, port, activity, nextToken, late>>

\* The caller closes a descriptor; the kernel forgets its interest.
CloseFd(fd) ==
    /\ armed' = {e \in armed : e.fd # fd}
    /\ edge' = {x \in edge : x[1] # fd}
    /\ activity' = [activity EXCEPT ![fd] = Quiet]
    /\ watched' = [watched EXCEPT ![fd] = NoReg]
    /\ UNCHANGED <<backend, regs, registered, port, nextToken, late>>

\* Data, space or a hang-up on a descriptor; on Windows, a completed operation.
Activity(fd, flag) ==
    /\ activity[fd][flag] < MaxActivity
    /\ activity' = [activity EXCEPT ![fd][flag] = @ + 1]
    /\ IF Unix
       THEN /\ edge' = edge \cup {<<e.fd, e.filter>> : e \in {e \in armed : e.fd = fd /\ Wakes(e.filter, flag)}}
            /\ UNCHANGED port
       ELSE /\ Len(port) < MaxQueued
            /\ \E e \in armed : e.fd = fd /\ port' = Append(port, e.token)
            /\ UNCHANGED edge
    /\ UNCHANGED <<backend, regs, registered, armed, watched, nextToken, late>>

-----------------------------------------------------------------------------
\* A mutated form: a dispatch that takes the bits of an event as alternatives.
EpollReadyFirst(fd) ==
    {CHOOSE f \in {g \in Flag : <<fd, g>> \in edge} :
        \/ f = "READ"
        \/ f = "WRITE" /\ <<fd, "READ">> \notin edge
        \/ {g \in Flag : <<fd, g>> \in edge} = {f}}

\* An event of the kernel, as dispatch passes it to the handler.
EpollReady(fd) ==
    LET bits == {f \in Flag : <<fd, f>> \in edge}
    IN  {f \in {"READ", "WRITE"} : f \in bits} \cup (IF "ERROR" \in bits THEN {"ERROR"} ELSE {})
KqueueReady(fd, filter) == {filter} \cup (IF activity[fd]["ERROR"] > 0 THEN {"ERROR"} ELSE {})

Event(fd, filter) ==
    [fd    |-> fd,
     token |-> (CHOOSE e \in armed : e.fd = fd /\ e.filter = filter).token,
     ready |-> IF backend = "epoll" THEN EpollReady(fd) ELSE KqueueReady(fd, filter)]

\* What one wait returns: with epoll a descriptor's filters are one event.
Waited(x) == IF backend = "epoll" THEN {y \in edge : y[1] = x[1]} ELSE {x}
Batches == {b \in SUBSET edge :
              /\ b # {} /\ \A x \in b : Waited(x) \subseteq b
              /\ Cardinality({Waited(x) : x \in b}) <= BatchLen}

\* dispatch of the Unix backends: every event of the batch goes to the handler,
\* which drains what it is told of.
Dispatch ==
    /\ Unix
    /\ \E batch \in Batches :
         LET events == {Event(x[1], x[2]) : x \in batch}
             seen(fd) == UNION {e.ready : e \in {e \in events : e.fd = fd /\ watched[fd].token = e.token}}
         IN  /\ edge' = edge \ batch
             /\ activity' = [fd \in Fd |-> [f \in Flag |-> IF f \in seen(fd) THEN 0 ELSE activity[fd][f]]]
             /\ late' = late \cup {e.token : e \in {e \in events : watched[e.fd].token # e.token}}
    /\ UNCHANGED <<backend, regs, registered, armed, port, watched, nextToken>>

-----------------------------------------------------------------------------
\* IocpLoop::register: a handle is associated with a port once.
RegisterHandle(fd) ==
    /\ ~Unix /\ nextToken <= MaxToken
    /\ \A e \in armed : e.fd # fd
    /\ armed' = armed \cup Entries(fd, nextToken, {"IO"})
    /\ registered' = registered \cup {fd}
    /\ Registered(fd, {"READ", "WRITE"})
    /\ UNCHANGED <<backend, regs, edge, port, activity, late>>

\* IocpLoop::unregister: the association stays.
UnregisterHandle(fd) ==
    /\ ~Unix /\ fd \in registered
    /\ registered' = registered \ {fd}
    /\ watched' = [watched EXCEPT ![fd] = NoReg]
    /\ UNCHANGED <<backend, regs, armed, edge, port, activity, nextToken, late>>

\* IocpLoop::post_wakeup.
PostWakeup(fd) ==
    /\ ~Unix /\ watched[fd] # NoReg /\ Len(port) < MaxQueued
    /\ port' = Append(port, watched[fd].token)
    /\ UNCHANGED <<backend, regs, registered, armed, edge, activity, watched, nextToken, late>>

\* IocpLoop::dispatch: one completion, reported readable and writable.
DispatchOne ==
    /\ ~Unix /\ port # << >>
    /\ port' = Tail(port)
    /\ activity' = [fd \in Fd |-> IF watched[fd].token = Head(port)
                                  THEN [activity[fd] EXCEPT !["READ"] = 0, !["WRITE"] = 0]
                                  ELSE activity[fd]]
    /\ late' = late \cup ({Head(port)} \ {watched[fd].token : fd \in Fd})
    /\ UNCHANGED <<backend, regs, registered, armed, edge, watched, nextToken>>

LoopNext ==
    \/ \E fd \in Fd :
          \/ \E interest \in Interest : Register(fd, interest)
          \/ ArmFails(fd) \/ Unregister(fd) \/ CloseFd(fd)
          \/ \E flag \in Flag : Activity(fd, flag)
          \/ RegisterHandle(fd) \/ UnregisterHandle(fd) \/ PostWakeup(fd)
    \/ Dispatch \/ DispatchOne

LoopSpec == LoopInit /\ [][LoopNext]_loopVars

-----------------------------------------------------------------------------
\* No edge is lost: whatever happened on a registered descriptor of a Unix
\* backend and its handler has not been told of, including what happened before
\* register, is on the kernel's ready list under that registration's token.  A
\* dispatch that drops a flag of an event leaves the descriptor silent for good,
\* as edge-triggered filters do not fire again (eventloop/linux.rs, macos.rs).
NoEdgeLost ==
    Unix => \A fd \in Fd : watched[fd] # NoReg =>
       \A flag \in watched[fd].interest \cup {"ERROR"} : activity[fd][flag] > 0 =>
          \E e \in armed : /\ e.fd = fd /\ e.token = watched[fd].token
                           /\ Wakes(e.filter, flag) /\ <<fd, e.filter>> \in edge

\* With epoll no event arrives under a token whose registration has ended, by
\* unregister or by closing the descriptor, even when the number is in use again
\* and the bookkeeping still holds the closed one (EpollLoop::unregister).
NoLateEvent == backend = "epoll" => late = {}

\* Dispatch tells the handlers neither less nor more than what happened to their
\* registrations: no edge is lost and no event is late.
EventsExact == NoEdgeLost /\ NoLateEvent

=============================================================================
