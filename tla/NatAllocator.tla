---------------------------- MODULE NatAllocator ----------------------------
(***************************************************************************)
(* allocate_nat_port of vnfs/NAT/nat-vnf.py, statement by statement, called *)
(* by the worker threads.  nat_table_lock is what makes a call atomic:      *)
(* between two statements any other worker may run up to its own acquire.   *)
(***************************************************************************)
EXTENDS Integers

CONSTANTS Worker, Endpoint, Proto, PORT_POOL_START, PORT_POOL_END, None

ASSUME AllocatorAssumption ==
    /\ PORT_POOL_START \in Nat
    /\ PORT_POOL_END \in Nat
    /\ PORT_POOL_START <= PORT_POOL_END
    /\ None \notin Nat
    /\ None \notin Worker
    /\ None \notin Endpoint

Key == Endpoint \X Proto
Port == PORT_POOL_START..PORT_POOL_END

VARIABLES
    nat_table, nat_table_rev, next_port,
    nat_table_lock,     \* the worker that holds it, or None
    call,               \* per worker: pc, the key it was called with, local port
    allocations         \* history: number of ports handed out

vars == <<nat_table, nat_table_rev, next_port, nat_table_lock, call, allocations>>

\* Outside of a call; the port returned last is kept.
Returned(port) == [pc |-> "outside", key |-> None, port |-> port]

At(w, pc) == call[w].pc = pc

Goto(w, pc) == call' = [call EXCEPT ![w].pc = pc]

-----------------------------------------------------------------------------
Call(w, key) ==
    /\ At(w, "outside")
    /\ call' = [call EXCEPT ![w] = [pc |-> "acquire", key |-> key, port |-> None]]
    /\ UNCHANGED <<nat_table, nat_table_rev, next_port, nat_table_lock, allocations>>

\* Mutant: the lock is not waited for.
Barge(w) ==
    /\ At(w, "acquire")
    /\ nat_table_lock' = w
    /\ Goto(w, "lookup")
    /\ UNCHANGED <<nat_table, nat_table_rev, next_port, allocations>>

Acquire(w) ==
    /\ At(w, "acquire")
    /\ nat_table_lock = None
    /\ nat_table_lock' = w
    /\ Goto(w, "lookup")
    /\ UNCHANGED <<nat_table, nat_table_rev, next_port, allocations>>

\* Mutant: the early return does not release the lock.
FoundKeepsLock(w) ==
    /\ At(w, "lookup")
    /\ nat_table[call[w].key] # None
    /\ call' = [call EXCEPT ![w] = Returned(nat_table[call[w].key])]
    /\ UNCHANGED <<nat_table, nat_table_rev, next_port, nat_table_lock, allocations>>

\* if key in nat_table: return nat_table[key]
Found(w) ==
    /\ At(w, "lookup")
    /\ nat_table[call[w].key] # None
    /\ nat_table_lock' = None
    /\ call' = [call EXCEPT ![w] = Returned(nat_table[call[w].key])]
    /\ UNCHANGED <<nat_table, nat_table_rev, next_port, allocations>>

\* port = next_port
ReadNextPort(w) ==
    /\ At(w, "lookup")
    /\ nat_table[call[w].key] = None
    /\ call' = [call EXCEPT ![w] = [@ EXCEPT !.pc = "increment", !.port = next_port]]
    /\ UNCHANGED <<nat_table, nat_table_rev, next_port, nat_table_lock, allocations>>

\* next_port += 1; for a moment it may lie beyond the pool
IncrementNextPort(w) ==
    /\ At(w, "increment")
    /\ next_port' = next_port + 1
    /\ Goto(w, "wrap")
    /\ UNCHANGED <<nat_table, nat_table_rev, nat_table_lock, allocations>>

\* Mutant: the end of the pool is not looked at.
NoWrap(w) ==
    /\ At(w, "wrap")
    /\ Goto(w, "table")
    /\ UNCHANGED <<nat_table, nat_table_rev, next_port, nat_table_lock, allocations>>

WrapNextPort(w) ==
    /\ At(w, "wrap")
    /\ next_port' = IF next_port > PORT_POOL_END THEN PORT_POOL_START ELSE next_port
    /\ Goto(w, "table")
    /\ UNCHANGED <<nat_table, nat_table_rev, nat_table_lock, allocations>>

WriteTable(w) ==
    /\ At(w, "table")
    /\ nat_table' = [nat_table EXCEPT ![call[w].key] = call[w].port]
    /\ allocations' = allocations + 1
    /\ Goto(w, "reverse")
    /\ UNCHANGED <<nat_table_rev, next_port, nat_table_lock>>

\* nat_table_rev[(port, proto)] = (orig_ip, orig_port); return port
WriteReverse(w) ==
    /\ At(w, "reverse")
    /\ LET key == call[w].key
       IN  nat_table_rev' = [nat_table_rev EXCEPT ![<<call[w].port, key[2]>>] = key[1]]
    /\ nat_table_lock' = None
    /\ call' = [call EXCEPT ![w] = Returned(call[w].port)]
    /\ UNCHANGED <<nat_table, next_port, allocations>>

-----------------------------------------------------------------------------
Init ==
    /\ nat_table = [key \in Key |-> None]
    /\ nat_table_rev = [slot \in Port \X Proto |-> None]
    /\ next_port = PORT_POOL_START
    /\ nat_table_lock = None
    /\ call = [w \in Worker |-> Returned(None)]
    /\ allocations = 0

InCall(w) ==
    \/ Acquire(w)
    \/ Found(w)
    \/ ReadNextPort(w)
    \/ IncrementNextPort(w)
    \/ WrapNextPort(w)
    \/ WriteTable(w)
    \/ WriteReverse(w)

Next ==
    \/ \E w \in Worker, key \in Key : Call(w, key)
    \/ \E w \in Worker : InCall(w)

Spec == Init /\ [][Next]_vars

\* A thread that is in a call runs on; the acquisition of a lock that others
\* keep taking is as fair as the interpreter's lock.
FairSpec == Spec /\ \A w \in Worker : WF_vars(InCall(w)) /\ SF_vars(Acquire(w))

-----------------------------------------------------------------------------
(* The abstract table, as a caller sees it.  A call takes effect when the   *)
(* flow is entered in nat_table: until then next_port has its value from    *)
(* before the call, and from then on the reverse entry is there.            *)

Within(pcs) == {w \in Worker : call[w].pc \in pcs}

NextPortSeen ==
    IF Within({"wrap", "table"}) = {} THEN next_port
    ELSE call[CHOOSE w \in Within({"wrap", "table"}) : TRUE].port

ReverseSeen ==
    IF Within({"reverse"}) = {} THEN nat_table_rev
    ELSE LET c == call[CHOOSE w \in Within({"reverse"}) : TRUE]
         IN  [nat_table_rev EXCEPT ![<<c.port, c.key[2]>>] = c.key[1]]

Abstract == INSTANCE NatTable
    WITH next_port <- NextPortSeen, nat_table_rev <- ReverseSeen

-----------------------------------------------------------------------------
(* Properties                                                              *)

TypeOK ==
    /\ nat_table \in [Key -> Port \cup {None}]
    /\ nat_table_rev \in [Port \X Proto -> Endpoint \cup {None}]
    /\ next_port \in PORT_POOL_START..(PORT_POOL_END + 1)
    /\ nat_table_lock \in Worker \cup {None}
    /\ call \in [Worker -> [pc : {"outside", "acquire", "lookup", "increment", "wrap",
                                 "table", "reverse"},
                           key : Key \cup {None}, port : Port \cup {None}]]
    /\ allocations \in Nat

\* Seen from outside, every call of allocate_nat_port is one atomic step of the
\* abstract table, in whatever order the workers' statements fall.
CallsAreAtomic == Abstract!NatSpec

\* A call returns the port its flow has in the table.
ReturnsTheFlowsPort ==
    [][\A w \in Worker : (~At(w, "outside") /\ At(w, "outside")') =>
         /\ call'[w].port # None
         /\ call'[w].port = nat_table'[call[w].key]]_vars

\* No call waits forever, although the workers all contend for one lock.
CallsReturn == \A w \in Worker : At(w, "acquire") ~> At(w, "outside")
=============================================================================
