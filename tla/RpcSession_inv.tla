---------------------------- MODULE RpcSession_inv ----------------------------
(***************************************************************************)
(* The inductive invariant of RpcSession: what one connection looks like   *)
(* from its two ends at every step of the protocol.                        *)
(***************************************************************************)
EXTENDS RpcSession

Holding == {"sendFunc", "sendParams", "recvRet"}

\* The mutex is held by the one thread between the lock and the return.
LockInv == \A c \in Clients, t \in Threads : mutex[c] = t <=> tpc[c][t] \in Holding

\* A thread inside do_call makes a call of its own, and its client is alive.
ThreadInv ==
    \A c \in Clients, t \in Threads :
        /\ tpc[c][t] # "idle" => cpc[c] = "ready"
        /\ tpc[c][t] \in {"sendParams", "recvRet"} => c \in cauthed
        /\ IF tpc[c][t] = "idle" THEN cur[c][t] = None
           ELSE cur[c][t] \in Calls /\ outcome[cur[c][t]] = "pending"
        /\ \A d \in Clients, u \in Threads :
               cur[c][t] = cur[d][u] /\ cur[c][t] # None => c = d /\ t = u

\* A client past its constructor has a tunnel exactly if it has authed.
TunnelInv ==
    \A c \in Clients :
        /\ c \in tunnel => cpc[c] \in {"sendAuth", "recvOk", "ready"} /\ sfd[c] # "none"
        /\ cpc[c] \in {"sendAuth", "recvOk"} => c \in tunnel
        /\ c \in cauthed <=> c \in tunnel /\ cpc[c] = "ready"

\* A connection waits in the queue once, or is fd, or is no more.
QueueInv ==
    /\ \A i, j \in 1..Len(backlog) : backlog[i] = backlog[j] => i = j
    /\ \A c \in Clients : sfd[c] = "queued" <=> \E i \in 1..Len(backlog) : backlog[i] = c
    /\ \A c \in Clients : cpc[c] = "new" => sfd[c] = "none"

\* The RPC thread is in the middle of an exchange only with a client.
ServerInv ==
    /\ spc \notin {"top", "closing"} => fd # None /\ authed
    /\ srv = "down" => fd = None /\ backlog = <<>> /\ spc = "top" /\ ~authed

\* What the server may still read of a connection it has not finished with.
RequestInv ==
    \A c \in Clients :
        /\ sfd[c] \in {"none", "closed"} => toS[c] = <<>>
        /\ sfd[c] = "queued" \/ (fd = c /\ (spc = "closing" \/ ~authed)) =>
               toS[c] \in {<<>>, <<AuthFrame>>}
        /\ fd = c /\ spc = "top" =>
               \/ toS[c] \in {<<>>, <<AuthFrame>>}
               \/ \E k \in Calls : toS[c] \in {<<Func(k)>>, <<Func(k), Params(k)>>}
        /\ fd = c /\ spc = "recvParams" =>
               \/ func = AuthFrame /\ toS[c] = <<>>
               \/ \E k \in Calls : func = Func(k) /\ toS[c] \in {<<>>, <<Params(k)>>}
        /\ fd = c /\ spc \in {"sendOk", "exec", "sendRet"} => toS[c] = <<>>
        /\ fd = c /\ spc \in {"exec", "sendRet"} =>
               \E k \in Calls : func = Func(k) /\ params = Params(k)

\* The server is ready for the next call of c, or no longer serves it.
Awaits(c) == fd = c => spc = "top" /\ authed
\* It has read the function id of k from c, or that frame was lost.
Reads(c, k) == fd = c => /\ authed
                         /\ \/ spc = "recvParams" /\ func = Func(k)
                            \/ spc = "top" /\ c \in broken

HandshakeInv ==
    \A c \in tunnel :
        /\ cpc[c] = "sendAuth" =>
               /\ toS[c] = <<>> /\ toC[c] = <<>>
               /\ fd = c => spc \in {"top", "closing"}
        /\ cpc[c] = "recvOk" =>
               \/ /\ toS[c] = <<AuthFrame>> /\ toC[c] = <<>>
                  /\ fd = c => spc \in {"top", "closing"}
               \/ /\ toS[c] = <<>> /\ toC[c] = <<>>
                  /\ sfd[c] = "queued" => c \in broken
                  /\ fd = c => \/ spc = "sendOk"
                               \/ spc = "recvParams" /\ func = AuthFrame
                               \/ spc \in {"top", "closing"} /\ c \in broken
               \/ toS[c] = <<>> /\ toC[c] = <<OkFrame>> /\ sfd[c] # "queued" /\ Awaits(c)

CallInv ==
    \A c \in cauthed :
        /\ sfd[c] # "queued"
        /\ (\A t \in Threads : tpc[c][t] \notin {"sendParams", "recvRet"}) =>
               toS[c] = <<>> /\ toC[c] = <<>> /\ Awaits(c)
        /\ \A t \in Threads : tpc[c][t] = "sendParams" =>
               /\ toC[c] = <<>>
               /\ \/ toS[c] = <<Func(cur[c][t])>> /\ Awaits(c)
                  \/ toS[c] = <<>> /\ Reads(c, cur[c][t])
        /\ \A t \in Threads : tpc[c][t] = "recvRet" =>
               \/ /\ toC[c] = <<>>
                  /\ \/ toS[c] = <<Func(cur[c][t]), Params(cur[c][t])>> /\ Awaits(c)
                     \/ toS[c] = <<Func(cur[c][t])>> /\ Awaits(c)
                     \/ toS[c] = <<Params(cur[c][t])>> /\ (fd = c => spc = "recvParams" /\ func = Func(cur[c][t]))
                     \/ toS[c] = <<>> /\ Reads(c, cur[c][t])
                     \/ /\ toS[c] = <<>>
                        /\ fd = c => \/ spc = "top" /\ authed
                                     \/ /\ spc \in {"exec", "sendRet"}
                                        /\ func = Func(cur[c][t])
               \/ toC[c] = <<Ret(cur[c][t])>> /\ toS[c] = <<>> /\ Awaits(c)

\* A closed client reads nothing more.
ClosedInv == \A c \in Clients : c \notin tunnel => toC[c] = <<>>

\* The server has the function id of k from c, or will read it: k may still run.
Asked(c, k) == \/ toS[c] # <<>> /\ Head(toS[c]) = Func(k)
               \/ fd = c /\ spc \in {"recvParams", "exec"} /\ func = Func(k)

\* A call that may still run has not run, was begun, and was sent by one client
\* only; a reply is in flight only for a call that has run.
HistoryInv ==
    /\ \A k \in Calls, c \in Clients : Asked(c, k) =>
           /\ k \notin executed
           /\ outcome[k] \in {"pending", "failed"}
           /\ \A d \in Clients : Asked(d, k) => d = c
    /\ \A k \in Calls : outcome[k] \in {"none", "refused"} => k \notin executed
    /\ \A c \in Clients, t \in Threads :
           /\ tpc[c][t] \in {"lock", "sendFunc"} =>
                  /\ cur[c][t] \notin executed
                  /\ \A d \in Clients : ~Asked(d, cur[c][t])
           /\ tpc[c][t] \in {"sendParams", "recvRet"} =>
                  \A d \in Clients : Asked(d, cur[c][t]) => d = c
    /\ \A c \in Clients, k \in Calls : toC[c] = <<Ret(k)>> => k \in executed
    /\ spc = "sendRet" => func.call \in executed

IInv == /\ TypeOK /\ OneConnection /\ LockInv /\ ThreadInv /\ TunnelInv /\ QueueInv
        /\ ServerInv /\ RequestInv /\ HandshakeInv /\ CallInv /\ ClosedInv /\ HistoryInv
=============================================================================
