---------------------------- MODULE RemoteObjects ----------------------------
(***************************************************************************)
(* The proxies of lib/remote.hpp (RemoteThread, RemoteProcess,             *)
(* RemoteProcesses, RemoteMemory), which Factory creates in RPC mode, and  *)
(* the objects they stand for on the server: new_remote, get_remote,       *)
(* delete_remote and the registered methods of lib/rpc.hpp.                *)
(*                                                                         *)
(* A proxy names its object by the address it has on the server, and the   *)
(* allocator may give an address that was freed to the next object.  The   *)
(* methods do not look into available_remote_objects; get_remote and       *)
(* delete_remote do.                                                       *)
(*                                                                         *)
(* A call is what RemoteCalls says of it: its request is executed at most  *)
(* once, maybe after the connection broke, and maybe without the client    *)
(* ever getting the answer.  The proxies are constructed and destroyed by  *)
(* the UI thread, which does one thing after the other; the memory is also *)
(* read by search threads, which the UI thread does not wait for when it   *)
(* destroys the proxy (gui_imgui.cpp:525, 548, 699, gui_imgui.hpp:134).    *)
(***************************************************************************)
EXTENDS Naturals

CONSTANTS
    Clients,      \* RPCClient objects, one per client process
    Threads,      \* the threads of the clients
    Of, UI,       \* the client of each thread, and the UI thread of each client
    Proxies,      \* the Remote... objects the clients construct
    Owner,        \* the client each of them belongs to
    Lists,        \* those that are RemoteProcesses
    Shared,       \* those that are RemoteMemory: search threads call them too
    Addrs,        \* addresses of the server's heap
    None,         \* the null RemoteObjectId, no client, no thread, no request
    RestartMax    \* bound: times the server process is replaced

ASSUME ObjectsAssumption ==
    /\ Of \in [Threads -> Clients] /\ UI \in [Clients -> Threads]
    /\ \A c \in Clients : Of[UI[c]] = c
    /\ Owner \in [Proxies -> Clients]
    /\ Lists \subseteq Proxies /\ Shared \subseteq Proxies /\ Lists \cap Shared = {}
    /\ None \notin Clients \cup Threads \cup Proxies \cup Addrs
    /\ RestartMax \in Nat

VARIABLES
    \* the server
    objects,    \* who created the object at each address; None: not in
                \* available_remote_objects
    serving,    \* the client the server is connected to
    taken,      \* the request the RPC thread has read and not executed
    restarts,
    \* connections
    conn,       \* "new", "up" or "lost", per client
    wire,       \* the request in flight, per client
    answer,     \* the answer in flight, per client
    \* clients
    mutex,      \* the thread that holds RPCClient::mutex
    pc,         \* "idle", "lock", "sent" or "dead", per thread
    call,       \* the request that each thread's call has serialised
    life,       \* "none", "here", "dying" (in the destructor) or "gone", per proxy
    obj, ok     \* the fields of the proxies

server  == <<objects, serving, taken, restarts>>
links   == <<conn, wire, answer>>
threads == <<pc, call>>
proxies == <<life, obj, ok>>
vars    == <<server, links, mutex, threads, proxies>>

Op == {"new", "method", "update", "get", "delete"}

\* Only a constructor's request carries no object.
Request == [proxy : Proxies, op : {"new"}, obj : {None}]
           \cup [proxy : Proxies, op : Op \ {"new"}, obj : Addrs]

Answer == [obj : Addrs \cup {None}]     \* all other results are alike
Done   == [obj |-> None]

ASSUME NoneAssumption == None \notin Request \cup Answer

-----------------------------------------------------------------------------
(* Connections.                                                            *)

\* Mutant: an RPCClient that lost its connection opens another one.
ConnectAgain(c) ==
    /\ conn[c] \in {"new", "lost"} /\ serving = None
    /\ conn' = [conn EXCEPT ![c] = "up"]
    /\ serving' = c
    /\ UNCHANGED <<objects, taken, restarts, wire, answer, mutex, threads, proxies>>

\* The server takes one client at a time, and a client connects only once.
Connect(c) ==
    /\ conn[c] = "new" /\ serving = None
    /\ conn' = [conn EXCEPT ![c] = "up"]
    /\ serving' = c
    /\ UNCHANGED <<objects, taken, restarts, wire, answer, mutex, threads, proxies>>

Lose(c) ==
    /\ conn[c] = "up"
    /\ conn' = [conn EXCEPT ![c] = "lost"]
    /\ UNCHANGED <<server, wire, answer, mutex, threads, proxies>>

\* The client process ends: no destructor runs.  It is also what a search thread makes
\* of it that uses a proxy which is gone.
Kill(c) ==
    /\ conn[c] # "new" /\ pc[UI[c]] # "dead"
    /\ conn' = [conn EXCEPT ![c] = "lost"]
    /\ pc' = [t \in Threads |-> IF Of[t] = c THEN "dead" ELSE pc[t]]
    /\ call' = [t \in Threads |-> IF Of[t] = c THEN None ELSE call[t]]
    /\ mutex' = [mutex EXCEPT ![c] = None]
    /\ answer' = [answer EXCEPT ![c] = None]
    /\ UNCHANGED <<server, wire, proxies>>

-----------------------------------------------------------------------------
(* The threads' side of a call.                                            *)

\* What is left of r's proxy when the call is over: `ok = ok && call(...)`, and a
\* constructor or a destructor ends, whatever the call returned.
Over(r, good) ==
    /\ ok' = [ok EXCEPT ![r.proxy] = good]
    /\ life' = [life EXCEPT ![r.proxy] =
                   IF r.op = "new" THEN "here" ELSE IF r.op = "delete" THEN "gone" ELSE @]

\* rpc_client->call(...) serialises the object, and then fails or waits for the mutex.
Issue(t, p, o) ==
    LET r == [proxy |-> p, op |-> o, obj |-> obj[p]] IN
    /\ pc[t] = "idle"
    /\ IF conn[Of[t]] = "up"
       THEN /\ pc' = [pc EXCEPT ![t] = "lock"] /\ call' = [call EXCEPT ![t] = r]
            /\ life' = IF o = "delete" THEN [life EXCEPT ![p] = "dying"] ELSE life
            /\ UNCHANGED ok
       ELSE Over(r, FALSE) /\ UNCHANGED threads
    /\ UNCHANGED <<server, links, mutex, obj>>

\* Factory has its RPCClient before it creates anything.
Construct(p) ==
    /\ life[p] = "none" /\ conn[Owner[p]] # "new"
    /\ Issue(UI[Owner[p]], p, "new")

Method(p) ==
    /\ life[p] = "here" /\ ok[p]
    /\ Issue(UI[Owner[p]], p, "method")

\* A search thread has the memory in its hands, which the UI thread may be destroying.
SearchMethod(t, p) ==
    /\ p \in Shared /\ Of[t] = Owner[p] /\ t # UI[Of[t]]
    /\ life[p] \in {"here", "dying"} /\ ok[p]
    /\ Issue(t, p, "method")

\* RemoteProcesses::update: a method call, then a copy of the list.
Update(p) ==
    /\ life[p] = "here" /\ ok[p] /\ p \in Lists
    /\ Issue(UI[Owner[p]], p, "update")

Destroy(p) ==
    /\ life[p] = "here"
    /\ IF obj[p] = None
       THEN /\ pc[UI[Owner[p]]] = "idle"
            /\ life' = [life EXCEPT ![p] = "gone"]
            /\ UNCHANGED <<server, links, mutex, threads, obj, ok>>
       ELSE Issue(UI[Owner[p]], p, "delete")

Lock(t) ==
    /\ pc[t] = "lock" /\ mutex[Of[t]] = None
    /\ conn[Of[t]] = "up"
    /\ mutex' = [mutex EXCEPT ![Of[t]] = t]
    /\ wire' = [wire EXCEPT ![Of[t]] = call[t]]
    /\ pc' = [pc EXCEPT ![t] = "sent"]
    /\ UNCHANGED <<server, conn, answer, call, proxies>>

\* The call is over with its answer, except that update() calls again, to copy the list.
Return(t) ==
    LET c == Of[t]
        r == call[t]
    IN
    /\ pc[t] = "sent" /\ answer[c] # None
    /\ answer' = [answer EXCEPT ![c] = None]
    /\ mutex' = [mutex EXCEPT ![c] = None]
    /\ obj' = IF r.op = "new" THEN [obj EXCEPT ![r.proxy] = answer[c].obj] ELSE obj
    /\ IF r.op = "update"
       THEN /\ pc' = [pc EXCEPT ![t] = "lock"]
            /\ call' = [call EXCEPT ![t] = [proxy |-> r.proxy, op |-> "get", obj |-> obj[r.proxy]]]
            /\ UNCHANGED <<life, ok>>
       ELSE /\ pc' = [pc EXCEPT ![t] = "idle"] /\ call' = [call EXCEPT ![t] = None]
            /\ Over(r, TRUE)
    /\ UNCHANGED <<server, conn, wire>>

\* A read or a write fails.  (A thread that was waiting for the mutex while
\* another one's call failed may dereference the null tunnel instead, as
\* RpcSession shows: that is a Kill.)
CallFails(t) ==
    /\ pc[t] = "sent" \/ (pc[t] = "lock" /\ mutex[Of[t]] = None)
    /\ conn[Of[t]] = "lost"
    /\ mutex' = IF pc[t] = "sent" THEN [mutex EXCEPT ![Of[t]] = None] ELSE mutex
    /\ pc' = [pc EXCEPT ![t] = "idle"] /\ call' = [call EXCEPT ![t] = None]
    /\ Over(call[t], FALSE)
    /\ UNCHANGED <<server, links, obj>>

-----------------------------------------------------------------------------
(* The server.                                                             *)

Take ==
    /\ taken = None /\ serving # None
    /\ wire[serving] # None
    /\ taken' = wire[serving]
    /\ wire' = [wire EXCEPT ![serving] = None]
    /\ UNCHANGED <<objects, serving, restarts, conn, answer, mutex, threads, proxies>>

\* The result goes out unless the connection is lost by then.
Reply(r) == answer' = IF conn[serving] = "up" THEN [answer EXCEPT ![serving] = r] ELSE answer

Served == /\ taken' = None
          /\ UNCHANGED <<serving, restarts, conn, wire, mutex, threads, proxies>>

\* new_remote: the address may be one that an object had before.
ExecNew ==
    /\ taken # None /\ taken.op = "new"
    /\ \E a \in Addrs :
          /\ objects[a] = None
          /\ objects' = [objects EXCEPT ![a] = taken.proxy]
          /\ Reply([obj |-> a])
    /\ Served

\* A registered method: it dereferences the address.  Where that is not the object of
\* the proxy any more, it is that of another or none: it returns something, or ends the
\* server (SrvRestart).
ExecMethod ==
    /\ taken # None /\ taken.op \in {"method", "update"}
    /\ Reply(Done)
    /\ Served /\ UNCHANGED objects

ExecGet ==
    /\ taken # None /\ taken.op = "get"
    /\ Reply([obj |-> IF objects[taken.obj] = None THEN None ELSE taken.obj])
    /\ Served /\ UNCHANGED objects

\* Mutant: the test of available_remote_objects is the wrong way round.
ExecDeleteInverted ==
    /\ taken # None /\ taken.op = "delete"
    /\ Reply(Done)
    /\ Served /\ UNCHANGED objects

ExecDelete ==
    /\ taken # None /\ taken.op = "delete"
    /\ objects' = [objects EXCEPT ![taken.obj] = None]
    /\ Reply(Done)
    /\ Served

\* The RPC thread's read fails: the client's objects stay where they are.
ServerNotices ==
    /\ taken = None /\ serving # None
    /\ conn[serving] = "lost"
    /\ serving' = None
    /\ wire' = [wire EXCEPT ![serving] = None]
    /\ UNCHANGED <<objects, taken, restarts, conn, answer, mutex, threads, proxies>>

\* The server process ends and another one takes its place.
SrvRestart ==
    /\ restarts < RestartMax
    /\ restarts' = restarts + 1
    /\ objects' = [a \in Addrs |-> None]
    /\ serving' = None /\ taken' = None
    /\ conn' = [c \in Clients |-> IF conn[c] = "up" THEN "lost" ELSE conn[c]]
    /\ wire' = [c \in Clients |-> None]
    /\ UNCHANGED <<answer, mutex, threads, proxies>>

-----------------------------------------------------------------------------
Init ==
    /\ objects = [a \in Addrs |-> None]
    /\ serving = None /\ taken = None /\ restarts = 0
    /\ conn = [c \in Clients |-> "new"]
    /\ wire = [c \in Clients |-> None]
    /\ answer = [c \in Clients |-> None]
    /\ mutex = [c \in Clients |-> None]
    /\ pc = [t \in Threads |-> "idle"]
    /\ call = [t \in Threads |-> None]
    /\ life = [p \in Proxies |-> "none"]
    /\ obj = [p \in Proxies |-> None]
    /\ ok = [p \in Proxies |-> TRUE]

InCall(t) == Lock(t) \/ Return(t) \/ CallFails(t)

Exec == ExecNew \/ ExecMethod \/ ExecGet \/ ExecDelete

RpcThread == Take \/ Exec \/ ServerNotices

Next ==
    \/ \E c \in Clients : Connect(c) \/ Lose(c) \/ Kill(c)
    \/ \E p \in Proxies : Construct(p) \/ Method(p) \/ Update(p) \/ Destroy(p)
    \/ \E t \in Threads, p \in Proxies : SearchMethod(t, p)
    \/ \E t \in Threads : InCall(t)
    \/ RpcThread
    \/ SrvRestart

Spec == Init /\ [][Next]_vars

-----------------------------------------------------------------------------
(* Properties.                                                             *)

\* Each variable has its type.
TypeOK ==
    /\ objects \in [Addrs -> Proxies \cup {None}]
    /\ serving \in Clients \cup {None}
    /\ taken \in Request \cup {None}
    /\ restarts \in 0..RestartMax
    /\ conn \in [Clients -> {"new", "up", "lost"}]
    /\ wire \in [Clients -> Request \cup {None}]
    /\ answer \in [Clients -> Answer \cup {None}]
    /\ mutex \in [Clients -> Threads \cup {None}]
    /\ pc \in [Threads -> {"idle", "lock", "sent", "dead"}]
    /\ call \in [Threads -> Request \cup {None}]
    /\ life \in [Proxies -> {"none", "here", "dying", "gone"}]
    /\ obj \in [Proxies -> Addrs \cup {None}]
    /\ ok \in [Proxies -> BOOLEAN]

\* A method call on a memory that the UI thread is destroying, or has destroyed.
Stale(r) == r.op = "method" /\ r.proxy \in Shared /\ life[r.proxy] \in {"dying", "gone"}

\* Whatever address a request carries, the object there is the one its own proxy
\* created, unless it is a method of a memory that was destroyed while a search thread
\* was in its call: such a request may follow delete_remote, and its method then runs on
\* a deleted object or on another proxy's (the methods do not check, rpc.hpp:265).
\* Nothing else does: delete_remote frees nobody else's object, no call of a proxy that
\* one thread uses is ever late, and get_remote never finds the address missing, which
\* would make update() dereference null (remote.hpp:154).
OwnObject ==
    taken # None /\ taken.op # "new" => objects[taken.obj] = taken.proxy \/ Stale(taken)

\* As long as the session lasts nothing leaks, in spite of those requests: an object of
\* a connected client is the one of a living proxy or of a constructor whose answer is
\* under way (remote.hpp:33-52 and the like, rpc.hpp:167-185).
NoLeakInSession ==
    \A a \in Addrs : LET p == objects[a] IN
        p # None /\ conn[Owner[p]] = "up" =>
            /\ life[p] # "gone"
            /\ obj[p] = a \/ answer[Owner[p]] = [obj |-> a]
=============================================================================
