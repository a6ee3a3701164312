------------------------------ MODULE NatTable ------------------------------
(***************************************************************************)
(* What allocate_nat_port of vnfs/NAT/nat-vnf.py promises to the worker     *)
(* threads: one atomic step per call, that looks a flow up or gives it the  *)
(* next port of the pool.  NatAllocator is the same function with its lock  *)
(* and its statements one by one.                                          *)
(*                                                                         *)
(* Ports are handed out in turn and never given back: after PoolSize flows  *)
(* the pool starts over and later flows share the ports of earlier ones.    *)
(***************************************************************************)
EXTENDS Integers

CONSTANTS
    Endpoint,           \* (orig_ip, orig_port)
    Proto,              \* TCP and UDP; they share next_port
    PORT_POOL_START,
    PORT_POOL_END,
    None                \* "not in the table"

ASSUME PoolAssumption ==
    /\ PORT_POOL_START \in Nat
    /\ PORT_POOL_END \in Nat
    /\ PORT_POOL_START <= PORT_POOL_END
    /\ None \notin Nat
    /\ None \notin Endpoint

Key == Endpoint \X Proto
Port == PORT_POOL_START..PORT_POOL_END
PoolSize == PORT_POOL_END - PORT_POOL_START + 1

VARIABLES nat_table, nat_table_rev, next_port,
    allocations     \* history: number of ports handed out

natVars == <<nat_table, nat_table_rev, next_port, allocations>>

-----------------------------------------------------------------------------
\* Mutant: the pool wraps one port early.
WrapEarly(port) == IF port + 1 >= PORT_POOL_END THEN PORT_POOL_START ELSE port + 1

\* Mutant: the pool wraps one port late.
WrapLate(port) == IF port > PORT_POOL_END THEN PORT_POOL_START ELSE port + 1

\* next_port += 1, and back to the start after the end of the pool.
Successor(port) == IF port + 1 > PORT_POOL_END THEN PORT_POOL_START ELSE port + 1

Known(key) == nat_table[key] # None

\* Mutant: a flow that has a port is given another one.
AllocateAnyway(key) ==
    /\ nat_table' = [nat_table EXCEPT ![key] = next_port]
    /\ nat_table_rev' = [nat_table_rev EXCEPT ![<<next_port, key[2]>>] = key[1]]
    /\ next_port' = Successor(next_port)
    /\ allocations' = allocations + 1

AllocateNew(key) ==
    /\ ~Known(key)
    /\ nat_table' = [nat_table EXCEPT ![key] = next_port]
    /\ nat_table_rev' = [nat_table_rev EXCEPT ![<<next_port, key[2]>>] = key[1]]
    /\ next_port' = Successor(next_port)
    /\ allocations' = allocations + 1

allocate_nat_port(key) ==
    \/ Known(key) /\ UNCHANGED natVars
    \/ AllocateNew(key)

NatInit ==
    /\ nat_table = [key \in Key |-> None]
    /\ nat_table_rev = [slot \in Port \X Proto |-> None]
    /\ next_port = PORT_POOL_START
    /\ allocations = 0

NatNext == \E key \in Key : allocate_nat_port(key)

NatSpec == NatInit /\ [][NatNext]_natVars

-----------------------------------------------------------------------------
(* Properties                                                              *)

NatTypeOK ==
    /\ nat_table \in [Key -> Port \cup {None}]
    /\ nat_table_rev \in [Port \X Proto -> Endpoint \cup {None}]
    /\ next_port \in Port
    /\ allocations \in Nat

\* The reverse entry of a port names a flow that owns the port: after any number
\* of wraps an answer is never translated to a flow that has another port.
ReverseOwnsPort ==
    \A port \in Port, proto \in Proto :
        LET endpoint == nat_table_rev[<<port, proto>>]
        IN  endpoint # None => nat_table[<<endpoint, proto>>] = port

\* Until the pool wraps, the translation is one to one: no two flows, of either
\* protocol, have the same port, and every flow is found in the reverse table.
OneToOneUntilWrap ==
    allocations <= PoolSize =>
        /\ \A key, other \in Key :
             (nat_table[key] # None /\ nat_table[key] = nat_table[other]) => key = other
        /\ \A key \in Key : nat_table[key] # None =>
             nat_table_rev[<<nat_table[key], key[2]>>] = key[1]

\* A flow keeps its port for good.
PortIsKept == [][\A key \in Key : Known(key) => nat_table'[key] = nat_table[key]]_natVars
=============================================================================
