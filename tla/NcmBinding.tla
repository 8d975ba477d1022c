------------------------------ MODULE NcmBinding ------------------------------
(***************************************************************************)
(* The network of the process (XrealOneNcmTransport): to reach an XREAL    *)
(* One over USB Ethernet a thread binds the whole process to the glasses'  *)
(* network, runs a block and binds it to what it was bound to before.  The *)
(* IMU thread, callers of setDisplayProfile(), the camera and the          *)
(* diagnostics do so without knowing of each other.                        *)
(*                                                                         *)
(* Networks are numbered as they come; 0 is none, the default route.  What *)
(* a block does is not modelled, nor what connectSocket() tries after it.  *)
(***************************************************************************)
EXTENDS Naturals

CONSTANTS
    Threads,      \* the threads that reach the glasses
    MaxNetworks   \* bound on the networks the glasses have in turn

VARIABLES
    bound,     \* boundNetworkForProcess
    glasses,   \* the network that has the glasses' address
    networks,  \* the networks there have been
    pc,        \* per thread: where it is in withBoundNetwork()
    network,   \* per thread: the network it found
    previous,  \* per thread: what the process was bound to
    entered,   \* who has read previous before whom, and both are still inside (history)
    crossed    \* one bound or restored that was not the last to enter (history)

bindingVars == <<bound, glasses, networks, pc, network, previous, entered, crossed>>

BindingInit ==
    /\ bound = 0 /\ glasses = 0 /\ networks = 0
    /\ pc = [t \in Threads |-> "idle"]
    /\ network = [t \in Threads |-> 0] /\ previous = [t \in Threads |-> 0]
    /\ entered = {} /\ crossed = FALSE

Goto(t, at) == pc' = [pc EXCEPT ![t] = at]
Inside == {t \in Threads : pc[t] \in {"bind", "block"}}
Crosses(t) == crossed' = (crossed \/ \E u \in Inside : <<t, u>> \in entered)
Leaves(t) == entered' = {p \in entered : t \notin {p[1], p[2]}}

\* Glasses that come back have a new network.
Plug ==
    /\ glasses = 0 /\ networks < MaxNetworks
    /\ networks' = networks + 1 /\ glasses' = networks'
    /\ UNCHANGED <<bound, pc, network, previous, entered, crossed>>
Unplug ==
    /\ glasses # 0 /\ glasses' = 0
    /\ UNCHANGED <<bound, networks, pc, network, previous, entered, crossed>>

\* findNetwork(); without one the block runs all the same.
FindNetwork(t) ==
    /\ pc[t] = "idle" /\ glasses # 0
    /\ network' = [network EXCEPT ![t] = glasses]
    /\ Goto(t, "found")
    /\ UNCHANGED <<bound, glasses, networks, previous, entered, crossed>>

ReadPrevious(t) ==
    /\ pc[t] = "found"
    /\ previous' = [previous EXCEPT ![t] = bound]
    /\ entered' = entered \cup (Inside \X {t})
    /\ Goto(t, "bind")
    /\ UNCHANGED <<bound, glasses, networks, network, crossed>>

\* bindProcessToNetwork() returns false for a network that is gone.
Bind(t) ==
    /\ pc[t] = "bind" /\ network[t] = glasses
    /\ bound' = network[t]
    /\ Goto(t, "block")
    /\ Crosses(t)
    /\ UNCHANGED <<glasses, networks, network, previous, entered>>

BindFails(t) ==
    /\ pc[t] = "bind" /\ network[t] # glasses
    /\ Goto(t, "idle") /\ Leaves(t)
    /\ UNCHANGED <<bound, glasses, networks, network, previous, crossed>>

\* Mutant of Restore: the process is bound to no network when the block is over.
RestoreDefault(t) ==
    /\ pc[t] = "block"
    /\ bound' = 0
    /\ Goto(t, "idle") /\ Leaves(t) /\ Crosses(t)
    /\ UNCHANGED <<glasses, networks, network, previous>>

\* The finally clause; what it returns is not looked at.
Restore(t) ==
    /\ pc[t] = "block"
    /\ bound' = IF previous[t] \in {0, glasses} THEN previous[t] ELSE bound
    /\ Goto(t, "idle") /\ Leaves(t) /\ Crosses(t)
    /\ UNCHANGED <<glasses, networks, network, previous>>

BindingNext ==
    \/ Plug \/ Unplug
    \/ \E t \in Threads : FindNetwork(t) \/ ReadPrevious(t) \/ Bind(t) \/ BindFails(t) \/ Restore(t)

BindingSpec == BindingInit /\ [][BindingNext]_bindingVars

-----------------------------------------------------------------------------
(* Properties *)

BindingTypeOK ==
    /\ networks \in Nat /\ bound \in 0..networks /\ glasses \in 0..networks
    /\ pc \in [Threads -> {"idle", "found", "bind", "block"}]
    /\ network \in [Threads -> 0..networks] /\ previous \in [Threads -> 0..networks]
    /\ \A t \in Threads : pc[t] # "idle" => network[t] # 0
    /\ entered \subseteq Inside \X Inside /\ crossed \in BOOLEAN

\* The threads that are inside have entered one after the other.
EnteredInOrder ==
    /\ \A t, u \in Inside : t = u <=> <<t, u>> \notin entered /\ <<u, t>> \notin entered
    /\ \A t, u \in Inside : <<t, u>> \in entered => <<u, t>> \notin entered
    /\ \A t, u, v \in Inside : <<t, u>> \in entered /\ <<u, v>> \in entered => <<t, v>> \in entered

Blocks == {t \in Threads : pc[t] = "block"}
Below(t) == {u \in Blocks : <<u, t>> \in entered}
IsLast(u, blocks) == u \in blocks /\ \A v \in blocks : <<u, v>> \notin entered

\* n is what the process is bound to for the last of some blocks: the network it
\* found, unless that is gone; or none if there is no block.
IsBoundFor(n, blocks) ==
    /\ blocks = {} => n = 0
    /\ \A u \in blocks : IsLast(u, blocks) => n = network[u] \/ network[u] # glasses

\* As long as blocks of several threads are nested and never cross, whatever is
\* plugged in between, the process is bound to the network that the last block
\* asked for, if that is there, and to none when no block is left; and each thread
\* has read what it was bound to for the blocks around its own.
NestedBlocksRestore ==
    ~crossed => /\ IsBoundFor(bound, Blocks)
                /\ \A t \in Inside : IsBoundFor(previous[t], Below(t))

\* Blocks that cross can leave the process bound to the glasses for good, but
\* to nothing else than a network that a block had found.
BindingInv == BindingTypeOK /\ EnteredInOrder /\ NestedBlocksRestore
=============================================================================
