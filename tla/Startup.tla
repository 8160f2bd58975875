------------------------------ MODULE Startup ------------------------------
(***************************************************************************)
(* main(): from the command line through the creation of the ring, the TUN *)
(* device, the connection and the session to the end of the process.  The  *)
(* C++ objects that own a descriptor are entries of "scope", oldest first: *)
(* a failure anywhere destroys them in reverse order, one per step.        *)
(***************************************************************************)
EXTENDS Config, Sequences, SequencesExt

VARIABLES
    pc,         \* the statement main() has reached
    unwind,     \* [to, next]: destroy scope down to length "to", go on at "next"
    scope,      \* live owners, oldest first
    holds,      \* owner -> the descriptor in it
    groups,     \* owner of a ring -> its buffer_groups_
    wiring,     \* pointers of receiver_, transmitter_ and Monitor
    fds,        \* kernel: open descriptor -> what it is
    registered, \* kernel: <<ring descriptor, bgid>> of provided-buffer rings
    link        \* kernel: the interface is up

own_vars == <<pc, unwind, scope, holds, groups, wiring, fds, registered, link>>
vars == <<config_vars, own_vars>>

\* An owner is <<where, member>>: a member of the Session (or the separate
\* variables of main that become its members), of the session create_session
\* builds, or a variable of a block or of the probe in support_check.
Members == <<"ring", "nl", "tun", "socket">>
Of(where) == [i \in 1..4 |-> <<where, Members[i]>>]

Owners == ({"main", "local", "session"} \X ToSet(Members))
            \cup ({"main"} \X {"listener", "peer"})
            \cup ({"probe"} \X {"ring", "send", "recv"})

Rings == { o \in Owners : o[2] = "ring" }

Kind(o) == CASE o[2] \in {"socket", "peer"} -> "connection"
             [] o[2] \in {"send", "recv"} -> "pair"
             [] OTHER -> o[2]

NoFd == -1
Nowhere == <<"none", "none">>

Live == ToSet(scope)

Init ==
    /\ ConfigInit
    /\ pc = "cli"
    /\ unwind = [to |-> 0, next |-> "exit"]
    /\ scope = <<>>
    /\ holds = [o \in Owners |-> NoFd]
    /\ groups = [o \in Rings |-> <<>>]
    /\ wiring = [p \in {"receiver", "transmitter", "monitor"} |-> Nowhere]
    /\ fds = <<>>
    /\ registered = {}
    /\ link = FALSE

-----------------------------------------------------------------------------
(* Steps of main and of what it calls. *)

\* The kernel hands out the lowest free descriptors.
FreeFd == CHOOSE n \in 3..20 : n \notin DOMAIN fds /\ 3..(n - 1) \subseteq DOMAIN fds
FreeFds(count) ==
    CHOOSE s \in [1..count -> 3..(FreeFd + 9)] :
        /\ s[1] = FreeFd
        /\ \A i \in 1..count : s[i] \notin DOMAIN fds
        /\ \A i \in 1..(count - 1) : s[i] < s[i + 1]
                /\ \A n \in (s[i] + 1)..(s[i + 1] - 1) : n \in DOMAIN fds

\* Construct owners that hold new descriptors.
Acquire(owners) ==
    LET new == FreeFds(Len(owners))
        At(o) == CHOOSE i \in DOMAIN owners : owners[i] = o
    IN  /\ scope' = scope \o owners
        /\ holds' = [o \in Owners |-> IF o \in ToSet(owners) THEN new[At(o)] ELSE holds[o]]
        /\ fds' = [n \in DOMAIN fds \cup ToSet(new) |->
                    IF n \in DOMAIN fds THEN fds[n]
                    ELSE Kind(owners[CHOOSE i \in DOMAIN owners : new[i] = n])]

Goto(label) == pc' = label /\ UNCHANGED unwind

Leave(length, label) ==
    /\ pc' = "unwind"
    /\ unwind' = [to |-> length, next |-> label]

\* parse_cli_arguments, and main's look at how it returned.
Cli ==
    /\ pc = "cli"
    /\ ParseCli
    /\ CASE cli' = "getopt" -> Goto("cli")
         [] cli' = "start" -> Goto("ring")
         [] OTHER -> Goto("exit")
    /\ UNCHANGED <<scope, holds, groups, wiring, fds, registered, link>>

CreateQueue ==
    /\ pc = "ring"
    /\ Acquire(<<<<"main", "ring">>>>)
    /\ Goto("tun")
    /\ UNCHANGED <<config_vars, groups, wiring, registered, link>>

\* Its steps are TunDevice's; ~TunDevice closes fd_ before nl_.  The empty
\* "socket" is declared next.
CreateTunDevice ==
    /\ pc = "tun"
    /\ LET new == FreeFds(2)
       IN  /\ holds' = [holds EXCEPT ![<<"main", "tun">>] = new[1], ![<<"main", "nl">>] = new[2]]
           /\ fds' = [n \in DOMAIN fds \cup ToSet(new) |->
                        CASE n = new[1] -> "tun" [] n = new[2] -> "nl" [] OTHER -> fds[n]]
    /\ scope' = Of("main")
    /\ Goto(IF config.bind_address THEN "listener" ELSE "connect")
    /\ UNCHANGED <<config_vars, groups, wiring, registered, link>>

CreateListener ==
    /\ pc = "listener"
    /\ Acquire(<<<<"main", "listener">>>>)
    /\ Goto("accept")
    /\ UNCHANGED <<config_vars, groups, wiring, registered, link>>

\* Mutant: a move that leaves the descriptor in the source as well.
MovedFromKeeps(fd) == fd

\* What a moved-from FileDescriptor or IoUring holds.
MovedFrom(fd) == NoFd

\* accept_from or connect_to, then socket = std::move(*peer).
TakePeer(label) ==
    LET fd == FreeFd
    IN  /\ fds' = [n \in DOMAIN fds \cup {fd} |-> IF n = fd THEN "connection" ELSE fds[n]]
        /\ holds' = [holds EXCEPT ![<<"main", "socket">>] = fd, ![<<"main", "peer">>] = MovedFrom(fd)]
        /\ scope' = Append(scope, <<"main", "peer">>)
        /\ label

AcceptFrom ==
    /\ pc = "accept"
    /\ TakePeer(Goto("remote"))
    /\ UNCHANGED <<config_vars, groups, wiring, registered, link>>

\* get_remote_address; the block's end destroys peer and listener.
RemoteAddress ==
    /\ pc = "remote"
    /\ Leave(4, "set_up")
    /\ UNCHANGED <<config_vars, scope, holds, groups, wiring, fds, registered, link>>

ConnectTo ==
    /\ pc = "connect"
    /\ TakePeer(Leave(4, "set_up"))
    /\ UNCHANGED <<config_vars, groups, wiring, registered, link>>

SetUp ==
    /\ pc = "set_up"
    /\ link' = TRUE
    /\ Goto("create_session")
    /\ UNCHANGED <<config_vars, scope, holds, groups, wiring, fds, registered>>

\* Move the four members from one place to another.
MoveMembers(from, to) ==
    /\ holds' = [o \in Owners |->
                    CASE o \in ToSet(Of(to)) -> holds[<<from, o[2]>>]
                      [] o \in ToSet(Of(from)) -> MovedFrom(holds[o])
                      [] OTHER -> holds[o]]
    /\ groups' = [groups EXCEPT ![<<to, "ring">>] = groups[<<from, "ring">>],
                                ![<<from, "ring">>] = <<>>]

\* The local session of create_session takes ring, tun and socket.
CreateSession ==
    /\ pc = "create_session"
    /\ MoveMembers("main", "local")
    /\ scope' = scope \o Of("local")
    /\ Goto("create_receiver")
    /\ UNCHANGED <<config_vars, wiring, fds, registered, link>>

\* create_buffer_group: the group keeps the address of the ring's io_uring.
Register(o) ==
    LET bgid == Len(groups[o])
    IN  /\ groups' = [groups EXCEPT ![o] = Append(@, [bgid |-> bgid, ring_ |-> o])]
        /\ registered' = registered \cup {<<holds[o], bgid>>}

Create(label, what, next) ==
    /\ pc = label
    /\ Register(<<"local", "ring">>)
    /\ wiring' = [wiring EXCEPT ![what] = <<"local", "members">>]
    /\ Goto(next)
    /\ UNCHANGED <<config_vars, scope, holds, fds, link>>

CreateReceiver == Create("create_receiver", "receiver", "create_transmitter")
CreateTransmitter == Create("create_transmitter", "transmitter", "return")

\* Mutant: the move constructor forgets the transmitter.
RewiredReceiver(place) == [wiring EXCEPT !.receiver = place]

\* The assignments behind the members' moves.
Rewired(place) == [wiring EXCEPT !.receiver = place, !.transmitter = place]

\* return session: the Result's session is constructed from the local one,
\* which is then destroyed.
ReturnSession ==
    /\ pc = "return"
    /\ MoveMembers("local", "session")
    /\ wiring' = Rewired(<<"session", "members">>)
    /\ scope' = Of("main") \o Of("session") \o Of("local")
    /\ Leave(8, "run")
    /\ UNCHANGED <<config_vars, fds, registered, link>>

\* run: arm_recv asks support_check::recv_multishot, which tries a RECV on a
\* ring, a socket pair and a group of its own.
ProbeRing ==
    /\ pc = "run"
    /\ Acquire(<<<<"probe", "ring">>>>)
    /\ Goto("probe_pair")
    /\ UNCHANGED <<config_vars, groups, wiring, registered, link>>

ProbePair ==
    /\ pc = "probe_pair"
    /\ Acquire(<<<<"probe", "send">>, <<"probe", "recv">>>>)
    /\ Goto("probe_group")
    /\ UNCHANGED <<config_vars, groups, wiring, registered, link>>

ProbeGroup ==
    /\ pc = "probe_group"
    /\ Register(<<"probe", "ring">>)
    /\ Goto("probe_recv")
    /\ UNCHANGED <<config_vars, scope, holds, wiring, fds, link>>

ProbeAnswer ==
    /\ pc = "probe_recv"
    /\ Leave(8, "arm_read")
    /\ UNCHANGED <<config_vars, scope, holds, groups, wiring, fds, registered, link>>

\* The rest of run's start; Session has the loop.
RunStart ==
    /\ pc = "arm_read"
    /\ wiring' = [wiring EXCEPT !.monitor = <<"session", "members">>]
    /\ Goto("running")
    /\ UNCHANGED <<config_vars, scope, holds, groups, fds, registered, link>>

\* Any call fails: every object goes, then the process.
Fails ==
    /\ pc \notin {"cli", "create_session", "return", "unwind", "exit", "crashed"}
    /\ Leave(0, "exit")
    /\ UNCHANGED <<config_vars, scope, holds, groups, wiring, fds, registered, link>>

\* create_buffer_group fails between new and the assignment of br_ (data_ finds
\* no memory, for instance): ~BufferGroup reads br_ and bgid_ uninitialized
\* and may unregister a group of that ring.
GroupFails(label, o) ==
    /\ pc = label
    /\ \E lost \in registered :
          lost[1] = holds[o] /\ registered' = registered \ {lost}
    /\ Leave(0, "exit")
    /\ UNCHANGED <<config_vars, scope, holds, groups, wiring, fds, link>>

GroupNoMemory ==
    \/ GroupFails("create_receiver", <<"local", "ring">>)
    \/ GroupFails("create_transmitter", <<"local", "ring">>)
    \/ GroupFails("probe_group", <<"probe", "ring">>)

-----------------------------------------------------------------------------
(* Destruction. *)

Top == Last(scope)
HasGroups == Top \in Rings /\ groups[Top] # <<>>

\* ~BufferGroup, called by IoUring::close for each group.  Through a
\* moved-from ring the kernel finds no descriptor; through the memory of a
\* destroyed one it may find any.
FreeGroup ==
    /\ pc = "unwind" /\ Len(scope) > unwind.to
    /\ HasGroups
    /\ LET g == Head(groups[Top])
       IN  IF g.ring_ \in Live THEN registered' = registered \ {<<holds[g.ring_], g.bgid>>}
           ELSE \E lost \in {{}} \cup { {r} : r \in registered } : registered' = registered \ lost
    /\ groups' = [groups EXCEPT ![Top] = Tail(@)]
    /\ UNCHANGED <<config_vars, pc, unwind, scope, holds, wiring, fds, link>>

\* The destructor of an owner; closing the device takes the interface along.
Destroy ==
    /\ pc = "unwind" /\ Len(scope) > unwind.to
    /\ ~HasGroups
    /\ LET fd == holds[Top]
       IN  /\ fds' = [n \in DOMAIN fds \ {fd} |-> fds[n]]
           /\ registered' = { r \in registered : r[1] # fd }
           /\ link' = (link /\ ~(fd \in DOMAIN fds /\ fds[fd] = "tun"))
    /\ holds' = [holds EXCEPT ![Top] = NoFd]
    /\ scope' = Front(scope)
    /\ UNCHANGED <<config_vars, pc, unwind, groups, wiring>>

Unwound ==
    /\ pc = "unwind" /\ Len(scope) = unwind.to
    /\ Goto(unwind.next)
    /\ UNCHANGED <<config_vars, scope, holds, groups, wiring, fds, registered, link>>

\* Memory the program must not touch (an uninitialized br_, the ring of a
\* destroyed session), or an exception in a noexcept function.
Crash ==
    /\ \/ pc \in {"create_receiver", "create_transmitter", "probe_group"}
       \/ pc = "unwind" /\ Len(scope) > unwind.to /\ HasGroups
            /\ Head(groups[Top]).ring_ \notin Live
    /\ Goto("crashed")
    /\ scope' = <<>> /\ holds' = [o \in Owners |-> NoFd] /\ groups' = [o \in Rings |-> <<>>]
    /\ fds' = <<>> /\ registered' = {} /\ link' = FALSE
    /\ UNCHANGED <<config_vars, wiring>>

Next ==
    \/ Cli \/ CreateQueue \/ CreateTunDevice \/ CreateListener \/ AcceptFrom \/ RemoteAddress
    \/ ConnectTo \/ SetUp \/ CreateSession \/ CreateReceiver \/ CreateTransmitter
    \/ ReturnSession \/ ProbeRing \/ ProbePair \/ ProbeGroup \/ ProbeAnswer \/ RunStart
    \/ Fails \/ GroupNoMemory \/ FreeGroup \/ Destroy \/ Unwound \/ Crash

Spec == Init /\ [][Next]_vars

-----------------------------------------------------------------------------
(* Properties. *)

\* Every open descriptor is held by exactly one live object, of its own kind,
\* and no object holds a closed one: neither the moves into and out of
\* create_session, nor the ends of blocks, nor a failure of any call closes a
\* descriptor twice or forgets one.
DescriptorsOwned ==
    /\ \A n \in DOMAIN fds :
          \E o \in Live : /\ holds[o] = n /\ Kind(o) = fds[n]
                         /\ \A other \in Live \ {o} : holds[other] # n
    /\ \A o \in Owners : holds[o] # NoFd => o \in Live /\ holds[o] \in DOMAIN fds

\* Until the process is on its way out, the kernel knows exactly the groups of
\* the live rings: neither the local session's end nor the probe's takes one
\* of the session's along.
GroupsStayRegistered ==
    (pc = "unwind" /\ unwind.next = "exit")
        \/ registered = UNION { { <<holds[o], groups[o][i].bgid>> : i \in DOMAIN groups[o] } :
                                o \in Live \cap Rings }

\* When the loop of run() begins, the receiver, the transmitter and the monitor
\* point at the members of the session that is alive, the members hold what
\* they are for, nothing else is open (the listener and the probe are gone),
\* the interface is up and the configuration is a documented one.
SessionWired ==
    pc = "running" =>
        /\ StartsAsDocumented
        /\ \A p \in DOMAIN wiring : wiring[p] = <<"session", "members">>
        /\ DOMAIN fds = { holds[o] : o \in ToSet(Of("session")) }
        /\ \A o \in ToSet(Of("session")) : o \in Live /\ fds[holds[o]] = Kind(o)
        /\ link

\* What src/README.md:25 calls a move-only resource owner: a group is freed
\* through the ring that owns it.
GroupFreedThroughItsRing ==
    pc = "unwind" /\ Len(scope) > unwind.to /\ HasGroups => Head(groups[Top]).ring_ = Top

=============================================================================
