------------------------------ MODULE RpcSession ------------------------------
(***************************************************************************)
(* The RPC session of CheatNG: RPCClient and RPCServer of lib/rpc.hpp over *)
(* TunnelTCP of lib/rpc_tunnel.hpp.  The processes are                     *)
(*   - each client process: its RPCClient object (one connection for its   *)
(*     whole life) and the threads that call through it under its mutex;   *)
(*   - the server's accept thread (TunnelTCP) and its RPC thread           *)
(*     (RPCServer), which share the tunnel's one client descriptor;        *)
(*   - the kernel: the listen queue and a FIFO of frames per direction.    *)
(* A frame is what one send() hands to one recv(): FrameChannel and        *)
(* BaseFdIO show that the byte stream below delivers whole frames in       *)
(* order or closes.  An element of Calls is one invocation of call().      *)
(*                                                                         *)
(* Read and write errors are possible exactly once the other side is gone  *)
(* (closed, reset, or its process ended): the code sets no timeouts and no *)
(* keep-alive, so a peer that silently vanishes is never noticed.  A send  *)
(* is two or more write()s, so the peer may also go in the middle of it:   *)
(* once it is gone a send may be taken and lost, fail, or raise SIGPIPE.   *)
(*                                                                         *)
(* A definition marked "Mutant" is not part of the specification: it is    *)
(* the definition after it with a plausible bug, to try the properties on. *)
(***************************************************************************)
EXTENDS Naturals, Sequences

CONSTANTS
    Clients,      \* RPCClient objects, one per client process
    Threads,      \* the threads of a client that issue calls
    Calls,        \* the invocations of RPCClient::call
    Registered,   \* those whose FunctionId init_rpc() registered on the server
    None,         \* no client, no thread, no call
    BacklogMax,   \* connections the kernel queues for accept(): listen(fd, 1)
    RestartMax    \* bound: times the server process may be started again

ASSUME RpcAssumption == /\ None \notin Clients \cup Threads \cup Calls
                        /\ Registered \subseteq Calls
                        /\ BacklogMax \in Nat \ {0}
                        /\ RestartMax \in Nat

VARIABLES
    \* the server process
    srv,        \* "up" or "down"
    fd,         \* BaseFdIO::fd of the server's tunnel: a client, or None for -1
    authed,     \* RPCServer::authed
    spc,        \* where the RPC thread is
    func,       \* the frame taken for a function id
    params,     \* the frame taken for its parameters
    restarts,   \* how often the server was started again
    \* the kernel
    backlog,    \* connections not accepted yet, in order
    sfd,        \* the server's end of each client's connection
    broken,     \* connections both ends see as reset
    toS, toC,   \* frames in flight to the server and to each client
    \* the clients
    cpc,        \* the constructor's progress, then "ready", or "dead"
    tunnel,     \* the clients whose RPCClient::tunnel is not null
    cauthed,    \* the clients whose RPCClient::authed is true
    mutex,      \* the thread that holds RPCClient::mutex
    tpc,        \* where each thread is in do_call
    cur,        \* the call each thread is making
    \* history, read by no action's guard but a call's own freshness
    outcome, executed

server  == <<srv, fd, authed, spc, func, params, restarts>>
kernel  == <<backlog, sfd, broken, toS, toC>>
object  == <<cpc, tunnel, cauthed>>
threads == <<mutex, tpc, cur>>
history == <<outcome, executed>>
vars    == <<server, kernel, object, threads, history>>

-----------------------------------------------------------------------------
(* Frames.                                                                 *)

AuthFrame == [kind |-> "auth", call |-> None]     \* cfg.auth
OkFrame   == [kind |-> "ok", call |-> None]       \* "ok"
Func(k)   == [kind |-> "func", call |-> k]        \* to_string(func_id)
Params(k) == [kind |-> "params", call |-> k]      \* the archived arguments
Ret(k)    == [kind |-> "ret", call |-> k]         \* the archived result

Frame == [kind : {"auth", "ok", "func", "params", "ret"}, call : Calls \cup {None}]

\* What the client's and the server's end can notice about the other one.
ServerGone(c) == sfd[c] = "closed" \/ c \in broken
ClientGone(c) == c \notin tunnel \/ c \in broken

\* A frame sent to a side that is gone may still be taken by the local kernel,
\* and is lost.
SendToServer(c, m) == /\ toS' = IF ServerGone(c) THEN toS
                                ELSE [toS EXCEPT ![c] = Append(@, m)]
                      /\ UNCHANGED <<backlog, sfd, broken, toC>>
SendToClient(c, m) == /\ toC' = IF ClientGone(c) THEN toC
                                ELSE [toC EXCEPT ![c] = Append(@, m)]
                      /\ UNCHANGED <<backlog, sfd, broken, toS>>

-----------------------------------------------------------------------------
(* The client's constructor.                                               *)

Connect(c) ==
    /\ cpc[c] = "new"
    /\ srv = "up"
    /\ Len(backlog) < BacklogMax
    /\ backlog' = Append(backlog, c)
    /\ sfd' = [sfd EXCEPT ![c] = "queued"]
    /\ cpc' = [cpc EXCEPT ![c] = "sendAuth"]
    /\ tunnel' = tunnel \cup {c}
    /\ UNCHANGED <<server, broken, toS, toC, cauthed, threads, history>>

\* connect() fails (nobody listens, or the queue stays full): send() finds
\* fd < 0 and the constructor drops the tunnel.
ConnectFails(c) ==
    /\ cpc[c] = "new"
    /\ srv = "down" \/ Len(backlog) >= BacklogMax
    /\ cpc' = [cpc EXCEPT ![c] = "ready"]
    /\ UNCHANGED <<server, kernel, tunnel, cauthed, threads, history>>

SendAuth(c) ==
    /\ cpc[c] = "sendAuth"
    /\ SendToServer(c, AuthFrame)
    /\ cpc' = [cpc EXCEPT ![c] = "recvOk"]
    /\ UNCHANGED <<server, tunnel, cauthed, threads, history>>

\* A client closes its socket: what it had not read is gone.
CloseClient(c) ==
    /\ tunnel' = tunnel \ {c}
    /\ cauthed' = cauthed \ {c}
    /\ toC' = [toC EXCEPT ![c] = <<>>]
    /\ UNCHANGED <<backlog, sfd, broken, toS>>

RecvOk(c) ==
    /\ cpc[c] = "recvOk"
    /\ toC[c] # <<>>
    /\ cpc' = [cpc EXCEPT ![c] = "ready"]
    /\ IF Head(toC[c]) = OkFrame
       THEN /\ toC' = [toC EXCEPT ![c] = Tail(@)]
            /\ cauthed' = cauthed \cup {c}
            /\ UNCHANGED <<backlog, sfd, broken, toS, tunnel>>
       ELSE CloseClient(c)
    /\ UNCHANGED <<server, threads, history>>

CtorIoFails(c) ==
    /\ cpc[c] \in {"sendAuth", "recvOk"}
    /\ ServerGone(c)
    /\ cpc' = [cpc EXCEPT ![c] = "ready"]
    /\ CloseClient(c)
    /\ UNCHANGED <<server, threads, history>>

-----------------------------------------------------------------------------
(* RPCClient::do_call, by one of the client's threads.                     *)

\* The test of authed at the top of do_call takes no lock.
CallAdmitted(c, t, k) ==
    /\ cpc[c] = "ready"
    /\ tpc[c][t] = "idle"
    /\ outcome[k] = "none"
    /\ c \in cauthed
    /\ tpc' = [tpc EXCEPT ![c][t] = "lock"]
    /\ cur' = [cur EXCEPT ![c][t] = k]
    /\ outcome' = [outcome EXCEPT ![k] = "pending"]
    /\ UNCHANGED <<server, kernel, object, mutex, executed>>

CallRefused(c, t, k) ==
    /\ cpc[c] = "ready"
    /\ tpc[c][t] = "idle"
    /\ outcome[k] = "none"
    /\ c \notin cauthed
    /\ outcome' = [outcome EXCEPT ![k] = "refused"]
    /\ UNCHANGED <<server, kernel, object, threads, executed>>

\* Mutant: do_call without its lock_guard.
CallNoLock(c, t) ==
    /\ tpc[c][t] = "lock"
    /\ mutex' = [mutex EXCEPT ![c] = t]
    /\ tpc' = [tpc EXCEPT ![c][t] = "sendFunc"]
    /\ UNCHANGED <<server, kernel, object, cur, history>>

CallLock(c, t) ==
    /\ tpc[c][t] = "lock"
    /\ mutex[c] = None
    /\ mutex' = [mutex EXCEPT ![c] = t]
    /\ tpc' = [tpc EXCEPT ![c][t] = "sendFunc"]
    /\ UNCHANGED <<server, kernel, object, cur, history>>

CallSendFunc(c, t) ==
    /\ tpc[c][t] = "sendFunc"
    /\ c \in tunnel
    /\ SendToServer(c, Func(cur[c][t]))
    /\ tpc' = [tpc EXCEPT ![c][t] = "sendParams"]
    /\ UNCHANGED <<server, object, mutex, cur, history>>

\* Mutant: the mutex covers the request only, not the reply.
CallSendParamsUnlocks(c, t) ==
    /\ tpc[c][t] = "sendParams"
    /\ SendToServer(c, Params(cur[c][t]))
    /\ tpc' = [tpc EXCEPT ![c][t] = "recvRet"]
    /\ mutex' = [mutex EXCEPT ![c] = None]
    /\ UNCHANGED <<server, object, cur, history>>

CallSendParams(c, t) ==
    /\ tpc[c][t] = "sendParams"
    /\ SendToServer(c, Params(cur[c][t]))
    /\ tpc' = [tpc EXCEPT ![c][t] = "recvRet"]
    /\ UNCHANGED <<server, object, mutex, cur, history>>

\* do_call returns: the lock_guard goes out of scope.
EndCall(c, t, result) ==
    /\ mutex' = [mutex EXCEPT ![c] = None]
    /\ tpc' = [tpc EXCEPT ![c][t] = "idle"]
    /\ cur' = [cur EXCEPT ![c][t] = None]
    /\ outcome' = [outcome EXCEPT ![cur[c][t]] = result]
    /\ UNCHANGED executed

CallRecv(c, t) ==
    /\ tpc[c][t] = "recvRet"
    /\ toC[c] # <<>>
    /\ toC' = [toC EXCEPT ![c] = Tail(@)]
    /\ EndCall(c, t, "ok")
    /\ UNCHANGED <<server, backlog, sfd, broken, toS, object>>

\* Mutant: the status of the last recv() is not tested.
CallIoFailsUnseen(c, t) ==
    /\ tpc[c][t] \in {"sendFunc", "sendParams", "recvRet"}
    /\ c \in tunnel
    /\ ServerGone(c)
    /\ CloseClient(c)
    /\ EndCall(c, t, "ok")
    /\ UNCHANGED <<server, cpc>>

\* A read or write fails: the tunnel closes itself, and do_call drops it and
\* clears authed before it unlocks.
CallIoFails(c, t) ==
    /\ tpc[c][t] \in {"sendFunc", "sendParams", "recvRet"}
    /\ c \in tunnel
    /\ ServerGone(c)
    /\ CloseClient(c)
    /\ EndCall(c, t, "failed")
    /\ UNCHANGED <<server, cpc>>

-----------------------------------------------------------------------------
(* A client process ends.                                                  *)

Die(c) ==
    /\ cpc' = [cpc EXCEPT ![c] = "dead"]
    /\ CloseClient(c)
    /\ mutex' = [mutex EXCEPT ![c] = None]
    /\ tpc' = [tpc EXCEPT ![c] = [t \in Threads |-> "idle"]]
    /\ cur' = [cur EXCEPT ![c] = [t \in Threads |-> None]]
    /\ UNCHANGED <<server, history>>

\* The user quits it, or it is killed.
Quit(c) == cpc[c] # "dead" /\ Die(c)

\* write() on a connection the peer has closed raises SIGPIPE, and nothing in
\* the program handles or blocks it.
ClientSigpipe(c) ==
    /\ \/ cpc[c] = "sendAuth"
       \/ \E t \in Threads : tpc[c][t] \in {"sendFunc", "sendParams"}
    /\ c \in tunnel
    /\ ServerGone(c)
    /\ Die(c)

\* do_call uses tunnel-> without testing it: another thread's failed call may
\* have dropped it since this one passed the test of authed.
NullTunnel(c, t) ==
    /\ tpc[c][t] = "sendFunc"
    /\ c \notin tunnel
    /\ Die(c)

-----------------------------------------------------------------------------
(* The server's accept thread.                                             *)

\* Mutant: the accept thread does not wait for the client to close.
AcceptAlways ==
    /\ srv = "up"
    /\ backlog # <<>>
    /\ fd' = Head(backlog)
    /\ sfd' = [sfd EXCEPT ![Head(backlog)] = "open"]
    /\ backlog' = Tail(backlog)
    /\ UNCHANGED <<srv, authed, spc, func, params, restarts, broken, toS, toC,
                   object, threads, history>>

Accept ==
    /\ srv = "up"
    /\ fd = None
    /\ backlog # <<>>
    /\ fd' = Head(backlog)
    /\ sfd' = [sfd EXCEPT ![Head(backlog)] = "open"]
    /\ backlog' = Tail(backlog)
    /\ UNCHANGED <<srv, authed, spc, func, params, restarts, broken, toS, toC,
                   object, threads, history>>

-----------------------------------------------------------------------------
(* The server's RPC thread.                                                *)

\* BaseFdIO::close on the server's tunnel: whatever client fd stands for now.
CloseFd ==
    /\ fd' = None
    /\ IF fd = None THEN UNCHANGED <<sfd, toS>>
       ELSE /\ sfd' = [sfd EXCEPT ![fd] = "closed"]
            /\ toS' = [toS EXCEPT ![fd] = <<>>]
    /\ UNCHANGED <<backlog, broken, toC>>

Take(c) == /\ toS[c] # <<>>
           /\ toS' = [toS EXCEPT ![c] = Tail(@)]
           /\ UNCHANGED <<backlog, sfd, broken, toC>>

\* Mutant: no reply to the auth string.
SrvRecvAuthSilent ==
    /\ srv = "up" /\ spc = "top" /\ fd # None
    /\ ~authed
    /\ Take(fd)
    /\ authed' = TRUE
    /\ UNCHANGED <<srv, fd, spc, func, params, restarts, object, threads, history>>

\* The first frame of a connection: the code compares cfg.auth with itself, so
\* whatever arrives is accepted.
SrvRecvAuth ==
    /\ srv = "up" /\ spc = "top" /\ fd # None
    /\ ~authed
    /\ Take(fd)
    /\ authed' = TRUE
    /\ spc' = "sendOk"
    /\ UNCHANGED <<srv, fd, func, params, restarts, object, threads, history>>

SrvSendOk ==
    /\ srv = "up" /\ spc = "sendOk"
    /\ SendToClient(fd, OkFrame)
    /\ spc' = "top"
    /\ UNCHANGED <<srv, fd, authed, func, params, restarts, object, threads, history>>

\* send("ok") fails and closes fd; its status is ignored and authed stays true.
SrvSendOkFails ==
    /\ srv = "up" /\ spc = "sendOk"
    /\ ClientGone(fd)
    /\ CloseFd
    /\ spc' = "top"
    /\ UNCHANGED <<srv, authed, func, params, restarts, object, threads, history>>

SrvRecvFunc ==
    /\ srv = "up" /\ spc = "top" /\ fd # None
    /\ authed
    /\ Take(fd)
    /\ func' = Head(toS[fd])
    /\ spc' = "recvParams"
    /\ UNCHANGED <<srv, fd, authed, params, restarts, object, threads, history>>

SrvRecvParams ==
    /\ srv = "up" /\ spc = "recvParams"
    /\ Take(fd)
    /\ params' = Head(toS[fd])
    /\ spc' = "exec"
    /\ UNCHANGED <<srv, fd, authed, func, restarts, object, threads, history>>

IsRegistered(f) == f.kind = "func" /\ f.call \in Registered

\* Mutant: the result is not sent.
SrvExecSilent ==
    /\ srv = "up" /\ spc = "exec"
    /\ IsRegistered(func)
    /\ executed' = executed \cup {func.call}
    /\ spc' = "top"
    /\ UNCHANGED <<srv, fd, authed, func, params, restarts, kernel, object, threads, outcome>>

\* do_call runs the registered function on the parameters...
SrvExec ==
    /\ srv = "up" /\ spc = "exec"
    /\ IsRegistered(func)
    /\ executed' = executed \cup {func.call}
    /\ spc' = "sendRet"
    /\ UNCHANGED <<srv, fd, authed, func, params, restarts, kernel, object, threads, outcome>>

\* ... or finds none, and no frame answers the client.
SrvUnknownFunc ==
    /\ srv = "up" /\ spc = "exec"
    /\ ~IsRegistered(func)
    /\ spc' = "top"
    /\ UNCHANGED <<srv, fd, authed, func, params, restarts, kernel, object, threads, history>>

\* Mutant: each call ends the session, but not its connection.
SrvSendRetLogsOut ==
    /\ srv = "up" /\ spc = "sendRet"
    /\ SendToClient(fd, Ret(func.call))
    /\ spc' = "top"
    /\ authed' = FALSE
    /\ UNCHANGED <<srv, fd, func, params, restarts, object, threads, history>>

SrvSendRet ==
    /\ srv = "up" /\ spc = "sendRet"
    /\ SendToClient(fd, Ret(func.call))
    /\ spc' = "top"
    /\ UNCHANGED <<srv, fd, authed, func, params, restarts, object, threads, history>>

\* Mutant: the failed connection is kept.
SrvIoFailsKeepsFd ==
    /\ srv = "up"
    /\ spc \in {"top", "recvParams", "sendRet"}
    /\ fd # None
    /\ ClientGone(fd)
    /\ authed' = FALSE
    /\ spc' = "top"
    /\ UNCHANGED <<srv, fd, func, params, restarts, kernel, object, threads, history>>

\* A read or write fails: BaseFdIO closes fd at once...
SrvIoFails ==
    /\ srv = "up"
    /\ spc \in {"top", "recvParams", "sendRet"}
    /\ fd # None
    /\ ClientGone(fd)
    /\ CloseFd
    /\ spc' = "closing"
    /\ UNCHANGED <<srv, authed, func, params, restarts, object, threads, history>>

\* ... and the RPC thread closes it once more.  The accept thread may have run
\* in between.
SrvClosing ==
    /\ srv = "up" /\ spc = "closing"
    /\ CloseFd
    /\ authed' = FALSE
    /\ spc' = "top"
    /\ UNCHANGED <<srv, func, params, restarts, object, threads, history>>

-----------------------------------------------------------------------------
(* The server process ends and is started again.                           *)

SrvDies ==
    /\ srv' = "down"
    /\ fd' = None
    /\ authed' = FALSE
    /\ spc' = "top"
    /\ backlog' = <<>>
    /\ sfd' = [c \in Clients |-> IF sfd[c] = "none" THEN "none" ELSE "closed"]
    /\ toS' = [c \in Clients |-> <<>>]
    /\ UNCHANGED <<func, params, restarts, broken, toC, object, threads, history>>

\* An exception leaves the RPC thread (a registered function may throw, for
\* one when the inspected process has just exited), or write() raises SIGPIPE.
SrvThrows == srv = "up" /\ spc = "exec" /\ SrvDies

SrvSigpipe == /\ srv = "up" /\ spc \in {"sendOk", "sendRet"}
              /\ ClientGone(fd)
              /\ SrvDies

\* server.cpp never returns from main() once it is up: somebody ends it.
SrvKilled == srv = "up" /\ SrvDies

SrvRestart ==
    /\ srv = "down"
    /\ restarts < RestartMax
    /\ srv' = "up"
    /\ restarts' = restarts + 1
    /\ UNCHANGED <<fd, authed, spc, func, params, kernel, object, threads, history>>

\* The connection is reset under both ends.
NetReset(c) ==
    /\ c \in tunnel \ broken
    /\ sfd[c] \in {"queued", "open"}
    /\ broken' = broken \cup {c}
    /\ UNCHANGED <<server, backlog, sfd, toS, toC, object, threads, history>>

-----------------------------------------------------------------------------
Init ==
    /\ srv = "up"
    /\ fd = None
    /\ authed = FALSE
    /\ spc = "top"
    /\ func = AuthFrame
    /\ params = AuthFrame
    /\ restarts = 0
    /\ backlog = <<>>
    /\ sfd = [c \in Clients |-> "none"]
    /\ broken = {}
    /\ toS = [c \in Clients |-> <<>>]
    /\ toC = [c \in Clients |-> <<>>]
    /\ cpc = [c \in Clients |-> "new"]
    /\ tunnel = {}
    /\ cauthed = {}
    /\ mutex = [c \in Clients |-> None]
    /\ tpc = [c \in Clients |-> [t \in Threads |-> "idle"]]
    /\ cur = [c \in Clients |-> [t \in Threads |-> None]]
    /\ outcome = [k \in Calls |-> "none"]
    /\ executed = {}

Ctor(c) == SendAuth(c) \/ RecvOk(c) \/ CtorIoFails(c)

\* A thread inside do_call; what it never decides by itself is below.
CallStep(c, t) ==
    \/ CallLock(c, t) \/ CallSendFunc(c, t) \/ CallSendParams(c, t)
    \/ CallRecv(c, t) \/ CallIoFails(c, t) \/ NullTunnel(c, t)

RpcThread ==
    \/ SrvRecvAuth \/ SrvSendOk \/ SrvSendOkFails
    \/ SrvRecvFunc \/ SrvRecvParams \/ SrvExec \/ SrvUnknownFunc \/ SrvSendRet
    \/ SrvIoFails \/ SrvClosing

User(c) ==
    \/ Connect(c) \/ ConnectFails(c) \/ Quit(c)
    \/ \E t \in Threads, k \in Calls : CallAdmitted(c, t, k) \/ CallRefused(c, t, k)

Fault(c) == NetReset(c) \/ ClientSigpipe(c)

ServerFault == SrvThrows \/ SrvSigpipe \/ SrvKilled \/ SrvRestart

Next ==
    \/ \E c \in Clients : User(c) \/ Ctor(c) \/ Fault(c)
    \/ \E c \in Clients, t \in Threads : CallStep(c, t)
    \/ Accept
    \/ RpcThread
    \/ ServerFault

Spec == Init /\ [][Next]_vars

\* Every thread that can take a step takes one in the end: they are ordinary
\* threads of a preemptive scheduler, blocked only in read(), accept() or the
\* mutex.  Nothing is assumed of users and faults.
Fairness ==
    /\ \A c \in Clients : WF_vars(Ctor(c))
    /\ \A c \in Clients, t \in Threads : WF_vars(CallStep(c, t))
    /\ WF_vars(Accept)
    /\ WF_vars(RpcThread)

FairSpec == Spec /\ Fairness

-----------------------------------------------------------------------------
(* Properties.                                                             *)

\* Each variable has its type.
TypeOK ==
    /\ srv \in {"up", "down"}
    /\ fd \in Clients \cup {None}
    /\ authed \in BOOLEAN
    /\ spc \in {"top", "sendOk", "recvParams", "exec", "sendRet", "closing"}
    /\ func \in Frame /\ params \in Frame
    /\ restarts \in 0..RestartMax
    /\ backlog \in Seq(Clients) /\ Len(backlog) <= BacklogMax
    /\ sfd \in [Clients -> {"none", "queued", "open", "closed"}]
    /\ broken \subseteq Clients
    /\ toS \in [Clients -> Seq(Frame)] /\ toC \in [Clients -> Seq(Frame)]
    /\ cpc \in [Clients -> {"new", "sendAuth", "recvOk", "ready", "dead"}]
    /\ tunnel \subseteq Clients /\ cauthed \subseteq Clients
    /\ mutex \in [Clients -> Threads \cup {None}]
    /\ tpc \in [Clients -> [Threads -> {"idle", "lock", "sendFunc", "sendParams", "recvRet"}]]
    /\ cur \in [Clients -> [Threads -> Calls \cup {None}]]
    /\ outcome \in [Calls -> {"none", "pending", "ok", "failed", "refused"}]
    /\ executed \subseteq Calls

\* The server holds at most one accepted connection and its tunnel's fd is that
\* one: neither of its two threads ever loses a descriptor it accepted
\* ("client fd x0/x1. 1-1 connection", rpc_tunnel.hpp:154).
OneConnection == \A c \in Clients : sfd[c] = "open" <=> fd = c

\* While a thread is between its first send() and its recv() it alone uses the
\* connection: the reply in flight, if any, is the one to its own call, and a
\* thread that is not there has neither a request nor a reply in flight
\* (the mutex of RPCClient::do_call, rpc.hpp:322).
RepliesMatch ==
    \A c \in Clients : toC[c] # <<>> /\ cpc[c] = "ready" =>
        \E t \in Threads : tpc[c][t] = "recvRet" /\ toC[c] = <<Ret(cur[c][t])>>

\* The server runs a registered function only on the parameters of the very
\* call that named it, whatever connections were lost and accepted in between
\* (the two recv() of the RPC thread, rpc.hpp:415 and 443).
ParamsMatch == spc \in {"exec", "sendRet"} /\ IsRegistered(func) => params = Params(func.call)

\* A client that has been told "ok" is never asked to authenticate again on the
\* same connection: its function id is not swallowed as an auth string (authed
\* is reset only together with the close of fd, rpc.hpp:424, 458).
AuthNotRepeated ==
    ~authed /\ fd # None /\ spc # "closing" => fd \notin cauthed

\* The refinement: do_call, its mutex, the handshake, the accept and RPC
\* threads, lost connections and restarts implement calls that run at most
\* once and return true only when they ran (rpc.hpp:316-341, 409-460).
Abstract == INSTANCE RemoteCalls
CallsAtMostOnce == Abstract!Spec

\* A client whose process is gone does not hold the server's only slot for
\* ever (rpc.hpp:416-425): the next one is accepted in the end.
SlotReleased == \A c \in Clients : (fd = c /\ cpc[c] = "dead") ~> (fd # c)

\* The thread that holds the mutex lets go of it: its call returns or its
\* process ends, so it does not block the client's other threads for ever.
MutexReleased == \A c \in Clients, t \in Threads : (mutex[c] = t) ~> (mutex[c] # t)

\* A connection the server accepted while it was waiting for an auth string
\* finishes its handshake (rpc.hpp:427-437 with 287-293).
HandshakeAnswered ==
    \A c \in Clients : (fd = c /\ ~authed /\ cpc[c] = "recvOk") ~> (cpc[c] # "recvOk")

\* No thread dereferences the null tunnel another thread's failed call left
\* behind (rpc.hpp:318, 323, 337).
NoNullTunnel ==
    \A c \in Clients, t \in Threads : tpc[c][t] = "sendFunc" => c \in tunnel
=============================================================================
