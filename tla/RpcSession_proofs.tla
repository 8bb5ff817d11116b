-------------------------- MODULE RpcSession_proofs --------------------------
(***************************************************************************)
(* Theorems about RpcSession, for any number of clients, threads and calls.*)
(***************************************************************************)
EXTENDS RpcSession_inv, SequenceTheorems, TLAPS

\* A frame built from a call is a frame.
LEMMA FramesAreFrames ==
    /\ AuthFrame \in Frame
    /\ OkFrame \in Frame
    /\ \A k \in Calls \cup {None} : Func(k) \in Frame /\ Params(k) \in Frame /\ Ret(k) \in Frame
BY DEF AuthFrame, OkFrame, Func, Params, Ret, Frame

\* What Append, Head and Tail do to the type of a sequence.
LEMMA SeqTypes ==
    ASSUME NEW S, NEW s \in Seq(S)
    PROVE  /\ \A e \in S : Append(s, e) \in Seq(S) /\ Len(Append(s, e)) = Len(s) + 1
           /\ Len(s) \in Nat
           /\ s # <<>> => Head(s) \in S /\ Tail(s) \in Seq(S) /\ Len(Tail(s)) = Len(s) - 1
OBVIOUS

\* The two directions keep their type.
LEMMA SendTypes ==
    ASSUME TypeOK, NEW c \in Clients, NEW m \in Frame
    PROVE  /\ SendToServer(c, m) => toS' \in [Clients -> Seq(Frame)]
           /\ SendToClient(c, m) => toC' \in [Clients -> Seq(Frame)]
<1>1. Append(toS[c], m) \in Seq(Frame) /\ Append(toC[c], m) \in Seq(Frame)
  BY SeqTypes DEF TypeOK
<1> QED
  BY <1>1 DEF TypeOK, SendToServer, SendToClient

LEMMA TakeTypes ==
    ASSUME TypeOK, NEW c \in Clients, Take(c)
    PROVE  toS' \in [Clients -> Seq(Frame)] /\ Head(toS[c]) \in Frame
<1>1. Head(toS[c]) \in Frame /\ Tail(toS[c]) \in Seq(Frame)
  BY SeqTypes DEF TypeOK, Take
<1> QED
  BY <1>1 DEF TypeOK, Take

-----------------------------------------------------------------------------
(* Type correctness.                                                       *)

LEMMA InitTypeOK == Init => TypeOK
<1>1. <<>> \in Seq(Frame) /\ <<>> \in Seq(Clients) /\ Len(<<>>) = 0
  OBVIOUS
<1>2. Init => authed \in BOOLEAN
  BY Zenon DEF Init
<1>3. Init => restarts \in 0..RestartMax
  BY RpcAssumption DEF Init
<1>4. Init => toS \in [Clients -> Seq(Frame)] /\ toC \in [Clients -> Seq(Frame)]
  BY <1>1 DEF Init
<1>5. Init => backlog \in Seq(Clients) /\ Len(backlog) <= BacklogMax
  BY <1>1, RpcAssumption DEF Init
<1>6. Init => func \in Frame /\ params \in Frame
  BY FramesAreFrames DEF Init
<1>7. Init => /\ tpc \in [Clients -> [Threads -> {"idle", "lock", "sendFunc", "sendParams", "recvRet"}]]
              /\ cur \in [Clients -> [Threads -> Calls \cup {None}]]
  BY DEF Init
<1> QED
  BY <1>2, <1>3, <1>4, <1>5, <1>6, <1>7 DEF Init, TypeOK

LEMMA CtorTypeOK ==
    ASSUME TypeOK, NEW c \in Clients,
           Connect(c) \/ ConnectFails(c) \/ SendAuth(c) \/ RecvOk(c) \/ CtorIoFails(c)
    PROVE  TypeOK'
<1> USE DEF server, kernel, object, threads, history
<1>0. <<>> \in Seq(Frame)
  OBVIOUS
<1>1. CASE Connect(c)
  <2>1. Append(backlog, c) \in Seq(Clients) /\ Len(Append(backlog, c)) = Len(backlog) + 1
        /\ Len(backlog) \in Nat
    BY SeqTypes DEF TypeOK
  <2> QED BY <1>1, <2>1, RpcAssumption DEF Connect, TypeOK
<1>2. CASE ConnectFails(c)
  BY <1>2 DEF ConnectFails, TypeOK
<1>3. CASE SendAuth(c)
  <2>1. toS' \in [Clients -> Seq(Frame)]
    BY <1>3, SendTypes, FramesAreFrames DEF SendAuth
  <2> QED BY <1>3, <2>1 DEF SendAuth, SendToServer, TypeOK
<1>4. CASE RecvOk(c)
  <2>1. Tail(toC[c]) \in Seq(Frame)
    BY <1>4, SeqTypes DEF RecvOk, TypeOK
  <2>2. toC' \in [Clients -> Seq(Frame)]
    BY <1>4, <2>1, <1>0 DEF RecvOk, CloseClient, TypeOK
  <2> QED BY <1>4, <2>2 DEF RecvOk, CloseClient, TypeOK
<1>5. CASE CtorIoFails(c)
  BY <1>5, <1>0 DEF CtorIoFails, CloseClient, TypeOK
<1> QED
  BY <1>1, <1>2, <1>3, <1>4, <1>5

LEMMA CallTypeOK ==
    ASSUME TypeOK, NEW c \in Clients, NEW t \in Threads,
           CallStep(c, t) \/ \E k \in Calls : CallAdmitted(c, t, k) \/ CallRefused(c, t, k)
    PROVE  TypeOK'
<1> USE DEF server, kernel, object, threads, history
<1>0. <<>> \in Seq(Frame)
  OBVIOUS
<1>1. ASSUME NEW k \in Calls, CallAdmitted(c, t, k) PROVE TypeOK'
  BY <1>1 DEF CallAdmitted, TypeOK
<1>2. ASSUME NEW k \in Calls, CallRefused(c, t, k) PROVE TypeOK'
  BY <1>2 DEF CallRefused, TypeOK
<1>3. CASE CallLock(c, t)
  BY <1>3 DEF CallLock, TypeOK
<1>4. CASE CallSendFunc(c, t)
  <2>1. Func(cur[c][t]) \in Frame
    BY FramesAreFrames DEF TypeOK
  <2>2. toS' \in [Clients -> Seq(Frame)]
    BY <1>4, <2>1, SendTypes DEF CallSendFunc
  <2> QED BY <1>4, <2>2 DEF CallSendFunc, SendToServer, TypeOK
<1>5. CASE CallSendParams(c, t)
  <2>1. Params(cur[c][t]) \in Frame
    BY FramesAreFrames DEF TypeOK
  <2>2. toS' \in [Clients -> Seq(Frame)]
    BY <1>5, <2>1, SendTypes DEF CallSendParams
  <2> QED BY <1>5, <2>2 DEF CallSendParams, SendToServer, TypeOK
<1>6. CASE CallRecv(c, t)
  <2>1. Tail(toC[c]) \in Seq(Frame)
    BY <1>6, SeqTypes DEF CallRecv, TypeOK
  <2>2. toC' \in [Clients -> Seq(Frame)]
    BY <1>6, <2>1 DEF CallRecv, TypeOK
  <2> QED BY <1>6, <2>2 DEF CallRecv, EndCall, TypeOK
<1>7. CASE CallIoFails(c, t)
  BY <1>7, <1>0 DEF CallIoFails, CloseClient, EndCall, TypeOK
<1>8. CASE NullTunnel(c, t)
  BY <1>8, <1>0 DEF NullTunnel, Die, CloseClient, TypeOK
<1> QED
  BY <1>1, <1>2, <1>3, <1>4, <1>5, <1>6, <1>7, <1>8 DEF CallStep

LEMMA ClientFaultTypeOK ==
    ASSUME TypeOK, NEW c \in Clients, Quit(c) \/ ClientSigpipe(c) \/ NetReset(c)
    PROVE  TypeOK'
<1> USE DEF server, kernel, object, threads, history
<1>0. <<>> \in Seq(Frame)
  OBVIOUS
<1>1. CASE Die(c)
  BY <1>0, <1>1 DEF Die, CloseClient, TypeOK
<1>2. CASE NetReset(c)
  BY <1>2 DEF NetReset, TypeOK
<1> QED
  BY <1>1, <1>2 DEF Quit, ClientSigpipe

LEMMA CloseFdTypes ==
    ASSUME TypeOK, CloseFd
    PROVE  /\ fd' \in Clients \cup {None}
           /\ toS' \in [Clients -> Seq(Frame)]
           /\ sfd' \in [Clients -> {"none", "queued", "open", "closed"}]
           /\ UNCHANGED <<backlog, broken, toC>>
<1>0. <<>> \in Seq(Frame)
  OBVIOUS
<1> QED
  BY <1>0 DEF CloseFd, TypeOK

LEMMA AcceptTypeOK == ASSUME TypeOK, Accept PROVE TypeOK'
<1> USE DEF server, kernel, object, threads, history
<1>1. Head(backlog) \in Clients /\ Tail(backlog) \in Seq(Clients)
      /\ Len(Tail(backlog)) <= BacklogMax
  <2>1. /\ Head(backlog) \in Clients /\ Tail(backlog) \in Seq(Clients)
        /\ Len(Tail(backlog)) = Len(backlog) - 1
        /\ Len(backlog) \in Nat /\ Len(backlog) <= BacklogMax
    BY SeqTypes DEF Accept, TypeOK
  <2> QED BY <2>1, RpcAssumption
<1> QED
  BY <1>1 DEF Accept, TypeOK

LEMMA RpcThreadTypeOK == ASSUME TypeOK, ServerInv, RpcThread PROVE TypeOK'
<1> USE DEF server, kernel, object, threads, history
<1>1. CASE SrvRecvAuth
  <2>1. toS' \in [Clients -> Seq(Frame)]
    BY <1>1, TakeTypes DEF SrvRecvAuth, TypeOK
  <2> QED BY <1>1, <2>1 DEF SrvRecvAuth, Take, TypeOK
<1>2. CASE SrvSendOk
  <2>1. toC' \in [Clients -> Seq(Frame)]
    BY <1>2, SendTypes, FramesAreFrames DEF SrvSendOk, ServerInv, TypeOK
  <2> QED BY <1>2, <2>1 DEF SrvSendOk, SendToClient, TypeOK
<1>3. CASE SrvSendOkFails
  BY <1>3, CloseFdTypes DEF SrvSendOkFails, TypeOK
<1>4. CASE SrvRecvFunc
  <2>1. toS' \in [Clients -> Seq(Frame)] /\ Head(toS[fd]) \in Frame
    BY <1>4, TakeTypes DEF SrvRecvFunc, TypeOK
  <2> QED BY <1>4, <2>1 DEF SrvRecvFunc, Take, TypeOK
<1>5. CASE SrvRecvParams
  <2>1. toS' \in [Clients -> Seq(Frame)] /\ Head(toS[fd]) \in Frame
    BY <1>5, TakeTypes DEF SrvRecvParams, ServerInv, TypeOK
  <2> QED BY <1>5, <2>1 DEF SrvRecvParams, Take, TypeOK
<1>6. CASE SrvExec
  BY <1>6, RpcAssumption DEF SrvExec, IsRegistered, TypeOK
<1>7. CASE SrvUnknownFunc
  BY <1>7 DEF SrvUnknownFunc, TypeOK
<1>8. CASE SrvSendRet
  <2>1. Ret(func.call) \in Frame
    BY FramesAreFrames DEF Frame, TypeOK
  <2>2. toC' \in [Clients -> Seq(Frame)]
    BY <1>8, <2>1, SendTypes DEF SrvSendRet, ServerInv, TypeOK
  <2> QED BY <1>8, <2>2 DEF SrvSendRet, SendToClient, TypeOK
<1>9. CASE SrvIoFails
  BY <1>9, CloseFdTypes DEF SrvIoFails, TypeOK
<1>10. CASE SrvClosing
  BY <1>10, CloseFdTypes DEF SrvClosing, TypeOK
<1> QED
  BY <1>1, <1>2, <1>3, <1>4, <1>5, <1>6, <1>7, <1>8, <1>9, <1>10 DEF RpcThread

LEMMA ServerFaultTypeOK == ASSUME TypeOK, ServerFault PROVE TypeOK'
<1> USE DEF server, kernel, object, threads, history
<1>0. <<>> \in Seq(Frame) /\ <<>> \in Seq(Clients) /\ Len(<<>>) = 0
  OBVIOUS
<1>1. CASE SrvDies
  <2>1. authed' \in BOOLEAN
    BY <1>1, Zenon DEF SrvDies
  <2>2. backlog' \in Seq(Clients) /\ Len(backlog') <= BacklogMax
    BY <1>0, <1>1, RpcAssumption DEF SrvDies
  <2>3. toS' \in [Clients -> Seq(Frame)]
    BY <1>0, <1>1 DEF SrvDies
  <2>4. sfd' \in [Clients -> {"none", "queued", "open", "closed"}]
    BY <1>1 DEF SrvDies, TypeOK
  <2> QED BY <1>1, <2>1, <2>2, <2>3, <2>4 DEF SrvDies, TypeOK
<1>2. CASE SrvRestart
  BY <1>2, RpcAssumption DEF SrvRestart, TypeOK
<1> QED
  BY <1>1, <1>2 DEF ServerFault, SrvThrows, SrvSigpipe, SrvKilled

LEMMA StutterTypeOK == ASSUME TypeOK, UNCHANGED vars PROVE TypeOK'
BY DEF TypeOK, vars, server, kernel, object, threads, history

\* A step keeps every variable in its type.
LEMMA NextTypeOK == ASSUME TypeOK, ServerInv, [Next]_vars PROVE TypeOK'
<1>1. ASSUME NEW c \in Clients, User(c) \/ Ctor(c) \/ Fault(c) PROVE TypeOK'
  BY <1>1, CtorTypeOK, CallTypeOK, ClientFaultTypeOK DEF User, Ctor, Fault
<1>2. ASSUME NEW c \in Clients, NEW t \in Threads, CallStep(c, t) PROVE TypeOK'
  BY <1>2, CallTypeOK
<1> QED
  BY <1>1, <1>2, AcceptTypeOK, RpcThreadTypeOK, ServerFaultTypeOK, StutterTypeOK DEF Next

-----------------------------------------------------------------------------
(* The inductive invariant.                                                *)

LEMMA AppendToOne == ASSUME NEW a, NEW b PROVE Append(<<a>>, b) = <<a, b>>
<1> DEFINE S == {a, b}
           s == Append(<<a>>, b)
<1>1. <<a>> \in Seq(S) /\ b \in S /\ Len(<<a>>) = 1 /\ <<a>>[1] = a
  OBVIOUS
<1>2. s \in Seq(S) /\ Len(s) = 2 /\ s[1] = a /\ s[2] = b
  BY <1>1
<1>3. <<a, b>> \in Seq(S) /\ Len(<<a, b>>) = 2 /\ <<a, b>>[1] = a /\ <<a, b>>[2] = b
  OBVIOUS
<1>4. \A i \in 1..2 : s[i] = <<a, b>>[i]
  BY <1>2, <1>3
<1> QED
  BY <1>2, <1>3, <1>4, SeqEqual

\* The sequences of at most two frames that the protocol ever has in flight.
LEMMA StreamFacts ==
    ASSUME NEW a, NEW b
    PROVE  /\ Append(<<>>, a) = <<a>> /\ Append(<<a>>, b) = <<a, b>>
           /\ Head(<<a>>) = a /\ Tail(<<a>>) = <<>>
           /\ Head(<<a, b>>) = a /\ Tail(<<a, b>>) = <<b>>
           /\ <<a>> # <<>> /\ <<a, b>> # <<>>
           /\ <<a>> # <<a, b>> /\ <<b>> # <<a, b>>
           /\ <<a>> = <<b>> => a = b
<1>1. Append(<<a>>, b) = <<a, b>>
  BY AppendToOne
<1>2. Append(<<>>, a) = <<a>> /\ Head(<<a>>) = a /\ Tail(<<a>>) = <<>>
  OBVIOUS
<1>3. Head(<<a, b>>) = a /\ Tail(<<a, b>>) = <<b>>
  OBVIOUS
<1>4. <<a>> # <<>> /\ <<a, b>> # <<>> /\ <<a>> # <<a, b>> /\ <<b>> # <<a, b>>
  OBVIOUS
<1>5. <<a>> = <<b>> => a = b
  OBVIOUS
<1> QED
  BY <1>1, <1>2, <1>3, <1>4, <1>5

LEMMA FrameFacts ==
    \A k, j :
        /\ Func(k) # AuthFrame /\ Params(k) # AuthFrame /\ Ret(k) # OkFrame
        /\ Func(k) # Params(j)
        /\ Func(k) = Func(j) => k = j
        /\ Params(k) = Params(j) => k = j
        /\ Ret(k) = Ret(j) => k = j
BY DEF Func, Params, Ret, AuthFrame, OkFrame

LEMMA ProtocolStreams ==
    /\ Head(<<AuthFrame>>) = AuthFrame /\ Tail(<<AuthFrame>>) = <<>> /\ <<AuthFrame>> # <<>>
    /\ \A k : /\ Head(<<Func(k)>>) = Func(k) /\ Tail(<<Func(k)>>) = <<>>
              /\ Head(<<Params(k)>>) = Params(k) /\ Tail(<<Params(k)>>) = <<>>
              /\ Head(<<Func(k), Params(k)>>) = Func(k)
              /\ Tail(<<Func(k), Params(k)>>) = <<Params(k)>>
              /\ <<Func(k)>> # <<>> /\ <<Params(k)>> # <<>> /\ <<Func(k), Params(k)>> # <<>>
              /\ <<Ret(k)>> # <<>> /\ <<Ret(k)>> # <<OkFrame>>
BY StreamFacts, FrameFacts

\* All of IInv but the types.
Linked == /\ OneConnection /\ LockInv /\ ThreadInv /\ TunnelInv /\ QueueInv
          /\ ServerInv /\ RequestInv /\ HandshakeInv /\ CallInv /\ ClosedInv /\ HistoryInv

LEMMA InitLinked == Init => Linked
<1> SUFFICES ASSUME Init PROVE Linked
  OBVIOUS
<1>1. OneConnection /\ LockInv /\ TunnelInv /\ ServerInv /\ ClosedInv
  BY RpcAssumption DEF Init, OneConnection, LockInv, TunnelInv, ServerInv, ClosedInv, Holding
<1>2. ThreadInv
  BY DEF Init, ThreadInv
<1>3. QueueInv
  BY DEF Init, QueueInv
<1>4. RequestInv /\ HandshakeInv /\ CallInv
  BY RpcAssumption DEF Init, RequestInv, HandshakeInv, CallInv
<1>5. HistoryInv
  <2>1. \A c \in Clients, k \in Calls : ~Asked(c, k)
    BY RpcAssumption DEF Init, Asked
  <2> QED BY <2>1 DEF Init, HistoryInv
<1> QED
  BY <1>1, <1>2, <1>3, <1>4, <1>5 DEF Linked

LEMMA ConnectLinked == ASSUME IInv, NEW c \in Clients, Connect(c) PROVE Linked'
<1> USE DEF server, kernel, object, threads, history
<1>1. /\ TypeOK /\ sfd[c] = "none" /\ fd # c /\ toS[c] = <<>> /\ toC[c] = <<>>
      /\ c \notin tunnel /\ srv = "up"
      /\ \A i \in 1..Len(backlog) : backlog[i] # c
  BY DEF IInv, Connect, QueueInv, OneConnection, RequestInv, TunnelInv, ClosedInv
<1>2. /\ Len(backlog) \in Nat
      /\ Len(backlog') = Len(backlog) + 1
      /\ backlog'[Len(backlog) + 1] = c
      /\ \A i \in 1..Len(backlog) : backlog'[i] = backlog[i]
  BY AppendProperties DEF Connect, TypeOK, IInv
<1>3. OneConnection' /\ LockInv' /\ ThreadInv' /\ ServerInv' /\ ClosedInv'
  BY <1>1 DEF IInv, Connect, OneConnection, LockInv, ThreadInv, ServerInv, ClosedInv, TypeOK
<1>4. TunnelInv'
  BY <1>1 DEF IInv, Connect, TunnelInv, TypeOK
<1>5. QueueInv'
  <2>1. ASSUME NEW i \in 1..Len(backlog'), NEW j \in 1..Len(backlog'), backlog'[i] = backlog'[j]
        PROVE  i = j
    BY <1>1, <1>2, <2>1 DEF IInv, QueueInv
  <2>2. ASSUME NEW d \in Clients
        PROVE  sfd'[d] = "queued" <=> \E i \in 1..Len(backlog') : backlog'[i] = d
    <3>1. CASE d = c
      BY <1>2, <3>1 DEF Connect, TypeOK, IInv
    <3>2. CASE d # c
      <4>1. sfd'[d] = sfd[d]
        BY <3>2 DEF Connect, TypeOK, IInv
      <4>2. (\E i \in 1..Len(backlog') : backlog'[i] = d) <=> (\E i \in 1..Len(backlog) : backlog[i] = d)
        BY <1>2, <3>2
      <4> QED BY <4>1, <4>2 DEF IInv, QueueInv
    <3> QED BY <3>1, <3>2
  <2>3. \A d \in Clients : cpc'[d] = "new" => sfd'[d] = "none"
    BY <1>1 DEF Connect, TypeOK, IInv, QueueInv
  <2> QED BY <2>1, <2>2, <2>3 DEF QueueInv
<1>6. RequestInv'
  BY <1>1 DEF IInv, Connect, RequestInv, TypeOK
<1>7. HandshakeInv' /\ CallInv'
  BY <1>1 DEF IInv, Connect, HandshakeInv, CallInv, TypeOK, Awaits, Reads, TunnelInv
<1>8. HistoryInv'
  BY <1>1 DEF IInv, Connect, HistoryInv, Asked
<1> QED
  BY <1>3, <1>4, <1>5, <1>6, <1>7, <1>8 DEF Linked

LEMMA ConnectFailsLinked == ASSUME IInv, NEW c \in Clients, ConnectFails(c) PROVE Linked'
<1> USE DEF server, kernel, object, threads, history
<1>1. c \notin tunnel /\ TypeOK
  BY DEF IInv, ConnectFails, TunnelInv
<1>2. OneConnection' /\ LockInv' /\ ThreadInv' /\ TunnelInv' /\ QueueInv' /\ ServerInv' /\ ClosedInv'
  BY <1>1 DEF IInv, ConnectFails, OneConnection, LockInv, ThreadInv, TunnelInv, QueueInv, ServerInv, ClosedInv, TypeOK
<1>3. RequestInv' /\ HandshakeInv' /\ CallInv'
  BY <1>1 DEF IInv, ConnectFails, RequestInv, HandshakeInv, CallInv, Awaits, Reads, TypeOK, TunnelInv
<1>4. HistoryInv'
  BY DEF IInv, ConnectFails, HistoryInv, Asked
<1> QED
  BY <1>2, <1>3, <1>4 DEF Linked

LEMMA SendAuthLinked == ASSUME IInv, NEW c \in Clients, SendAuth(c) PROVE Linked'
<1> USE DEF server, kernel, object, threads, history
<1>1. /\ TypeOK /\ c \in tunnel /\ c \notin cauthed /\ toS[c] = <<>> /\ toC[c] = <<>> /\ sfd[c] # "none"
      /\ fd = c => spc \in {"top", "closing"}
  BY DEF IInv, SendAuth, TunnelInv, HandshakeInv
<1>2. IF ServerGone(c) THEN toS' = toS ELSE toS' = [toS EXCEPT ![c] = <<AuthFrame>>]
  BY <1>1, StreamFacts DEF SendAuth, SendToServer
<1>3. OneConnection' /\ LockInv' /\ ThreadInv' /\ TunnelInv' /\ QueueInv' /\ ServerInv' /\ ClosedInv'
  BY <1>1 DEF IInv, SendAuth, SendToServer, OneConnection, LockInv, ThreadInv, TunnelInv, QueueInv, ServerInv, ClosedInv, TypeOK
<1>4. RequestInv'
  BY <1>1, <1>2 DEF IInv, SendAuth, SendToServer, ServerGone, RequestInv, TypeOK
<1>5. HandshakeInv'
  BY <1>1, <1>2 DEF IInv, SendAuth, SendToServer, ServerGone, HandshakeInv, OneConnection, TypeOK, Awaits
<1>6. CallInv'
  BY <1>1, <1>2 DEF IInv, SendAuth, SendToServer, CallInv, Awaits, Reads, TypeOK
<1>7. HistoryInv'
  <2>1. \A d \in Clients, k \in Calls \cup {None} : Asked(d, k)' <=> Asked(d, k)
    <3>1. \A d \in Clients : toS'[d] = toS[d] \/ (toS[d] = <<>> /\ toS'[d] = <<AuthFrame>>)
      BY <1>1, <1>2 DEF TypeOK
    <3>2. <<AuthFrame>> # <<>> /\ Head(<<AuthFrame>>) = AuthFrame
      BY StreamFacts
    <3> QED BY <3>1, <3>2, FrameFacts DEF SendAuth, Asked
  <2> QED BY <2>1 DEF IInv, SendAuth, SendToServer, HistoryInv, TypeOK
<1> QED
  BY <1>3, <1>4, <1>5, <1>6, <1>7 DEF Linked
LEMMA RecvOkLinked == ASSUME IInv, NEW c \in Clients, RecvOk(c) PROVE Linked'
<1> USE DEF server, kernel, object, threads, history
<1>1. /\ TypeOK /\ c \in tunnel /\ toS[c] = <<>> /\ toC[c] = <<OkFrame>> /\ sfd[c] \notin {"none", "queued"}
      /\ Awaits(c)
      /\ \A t \in Threads : tpc[c][t] = "idle"
  BY DEF IInv, RecvOk, TunnelInv, HandshakeInv, ThreadInv
<1>2. toC' = [toC EXCEPT ![c] = <<>>] /\ cauthed' = cauthed \cup {c} /\ UNCHANGED <<backlog, sfd, broken, toS, tunnel>>
  BY <1>1, StreamFacts DEF RecvOk, TypeOK
<1>3. OneConnection' /\ LockInv' /\ QueueInv' /\ ServerInv' /\ ClosedInv'
  BY <1>1, <1>2 DEF IInv, RecvOk, OneConnection, LockInv, QueueInv, ServerInv, ClosedInv, TypeOK
<1>4. ThreadInv' /\ TunnelInv'
  BY <1>1, <1>2 DEF IInv, RecvOk, ThreadInv, TunnelInv, TypeOK
<1>5. RequestInv' /\ HandshakeInv'
  BY <1>1, <1>2 DEF IInv, RecvOk, RequestInv, HandshakeInv, Awaits, TypeOK
<1>6. CallInv'
  <2>1. UNCHANGED <<server, backlog, sfd, broken, toS, threads>>
    BY <1>2 DEF RecvOk
  <2>2. ASSUME NEW d \in cauthed, d # c PROVE d \in Clients /\ toC'[d] = toC[d]
    BY <1>1, <1>2, <2>2 DEF TypeOK
  <2>3. toC'[c] = <<>>
    BY <1>1, <1>2 DEF TypeOK
  <2> QED BY <1>1, <1>2, <2>1, <2>2, <2>3 DEF IInv, CallInv, Awaits, Reads
<1>7. HistoryInv'
  <2>1. \A k \in Calls : <<Ret(k)>> # <<>>
    BY StreamFacts
  <2> QED BY <1>1, <1>2, <2>1 DEF IInv, RecvOk, HistoryInv, Asked, TypeOK
<1> QED
  BY <1>3, <1>4, <1>5, <1>6, <1>7 DEF Linked

LEMMA CtorIoFailsLinked == ASSUME IInv, NEW c \in Clients, CtorIoFails(c) PROVE Linked'
<1> USE DEF server, kernel, object, threads, history
<1>1. TypeOK /\ c \in tunnel /\ c \notin cauthed /\ \A t \in Threads : tpc[c][t] = "idle"
  BY DEF IInv, CtorIoFails, TunnelInv, ThreadInv
<1>2. OneConnection' /\ LockInv' /\ QueueInv' /\ ServerInv' /\ ClosedInv'
  BY <1>1 DEF IInv, CtorIoFails, CloseClient, OneConnection, LockInv, QueueInv, ServerInv, ClosedInv, TypeOK
<1>3. ThreadInv' /\ TunnelInv'
  BY <1>1 DEF IInv, CtorIoFails, CloseClient, ThreadInv, TunnelInv, TypeOK
<1>4. RequestInv' /\ HandshakeInv' /\ CallInv'
  BY <1>1 DEF IInv, CtorIoFails, CloseClient, RequestInv, HandshakeInv, CallInv, Awaits, Reads, TypeOK, TunnelInv
<1>5. HistoryInv'
  <2>1. \A k \in Calls : <<Ret(k)>> # <<>>
    BY StreamFacts
  <2>2. UNCHANGED <<server, toS, threads, history>>
    BY DEF CtorIoFails, CloseClient
  <2>3. \A d \in Clients : toC'[d] = toC[d] \/ toC'[d] = <<>>
    BY <1>1 DEF CtorIoFails, CloseClient, TypeOK
  <2> QED BY <2>1, <2>2, <2>3 DEF IInv, HistoryInv, Asked
<1> QED
  BY <1>2, <1>3, <1>4, <1>5 DEF Linked

LEMMA CallAdmittedLinked ==
    ASSUME IInv, NEW c \in Clients, NEW t \in Threads, NEW k \in Calls, CallAdmitted(c, t, k)
    PROVE  Linked'
<1> USE DEF server, kernel, object, threads, history
<1>1. /\ TypeOK /\ cpc[c] = "ready" /\ tpc[c][t] = "idle" /\ k # None
      /\ \A d \in Clients, u \in Threads : cur[d][u] # k
      /\ k \notin executed /\ \A d \in Clients : ~Asked(d, k)
  BY RpcAssumption DEF IInv, CallAdmitted, ThreadInv, HistoryInv
<1>2. OneConnection' /\ TunnelInv' /\ QueueInv' /\ ServerInv' /\ ClosedInv'
  BY DEF IInv, CallAdmitted, OneConnection, TunnelInv, QueueInv, ServerInv, ClosedInv
<1>3. LockInv'
  BY <1>1 DEF IInv, CallAdmitted, LockInv, Holding, TypeOK
<1>4. ThreadInv'
  <2>1. ASSUME NEW d \in Clients, NEW u \in Threads
        PROVE  /\ tpc'[d][u] = IF d = c /\ u = t THEN "lock" ELSE tpc[d][u]
               /\ cur'[d][u] = IF d = c /\ u = t THEN k ELSE cur[d][u]
    BY DEF CallAdmitted, TypeOK, IInv
  <2>2. \A j \in Calls : outcome'[j] = IF j = k THEN "pending" ELSE outcome[j]
    BY DEF CallAdmitted, TypeOK, IInv
  <2> QED BY <1>1, <2>1, <2>2 DEF IInv, CallAdmitted, ThreadInv
<1>5. RequestInv' /\ HandshakeInv'
  BY DEF IInv, CallAdmitted, RequestInv, HandshakeInv, Awaits
<1>6. CallInv'
  <2>1. ASSUME NEW d \in Clients, NEW u \in Threads
        PROVE  /\ tpc'[d][u] = IF d = c /\ u = t THEN "lock" ELSE tpc[d][u]
               /\ cur'[d][u] = IF d = c /\ u = t THEN k ELSE cur[d][u]
    BY DEF CallAdmitted, TypeOK, IInv
  <2>2. \A d \in cauthed : d \in Clients
    BY <1>1 DEF TypeOK
  <2>3. UNCHANGED <<server, kernel, object>>
    BY DEF CallAdmitted
  <2> QED BY <1>1, <2>1, <2>2, <2>3 DEF IInv, CallInv, Awaits, Reads
<1>7. HistoryInv'
  <2>1. ASSUME NEW d \in Clients, NEW u \in Threads
        PROVE  /\ tpc'[d][u] = IF d = c /\ u = t THEN "lock" ELSE tpc[d][u]
               /\ cur'[d][u] = IF d = c /\ u = t THEN k ELSE cur[d][u]
    BY DEF CallAdmitted, TypeOK, IInv
  <2>2. \A d \in Clients : \A j : Asked(d, j)' <=> Asked(d, j)
    BY DEF CallAdmitted, Asked
  <2>3. \A j \in Calls : outcome'[j] = IF j = k THEN "pending" ELSE outcome[j]
    BY DEF CallAdmitted, TypeOK, IInv
  <2>4. UNCHANGED <<server, kernel, object, executed>>
    BY DEF CallAdmitted
  <2> QED BY <1>1, <2>1, <2>2, <2>3, <2>4 DEF IInv, HistoryInv
<1> QED
  BY <1>2, <1>3, <1>4, <1>5, <1>6, <1>7 DEF Linked

LEMMA CallRefusedLinked ==
    ASSUME IInv, NEW c \in Clients, NEW t \in Threads, NEW k \in Calls, CallRefused(c, t, k)
    PROVE  Linked'
<1> USE DEF server, kernel, object, threads, history
<1>1. \A j \in Calls : outcome'[j] = IF j = k THEN "refused" ELSE outcome[j]
  BY DEF CallRefused, TypeOK, IInv
<1>2. outcome[k] = "none" /\ UNCHANGED <<server, kernel, object, threads, executed>>
  BY DEF CallRefused
<1>3. OneConnection' /\ LockInv' /\ TunnelInv' /\ QueueInv' /\ ServerInv' /\ ClosedInv'
  BY <1>2 DEF IInv, OneConnection, LockInv, TunnelInv, QueueInv, ServerInv, ClosedInv, Holding
<1>4. ThreadInv'
  BY <1>1, <1>2 DEF IInv, ThreadInv
<1>5. RequestInv' /\ HandshakeInv' /\ CallInv'
  BY <1>2 DEF IInv, RequestInv, HandshakeInv, CallInv, Awaits, Reads
<1>6. HistoryInv'
  <2>1. \A d \in Clients : \A j : Asked(d, j)' <=> Asked(d, j)
    BY <1>2 DEF Asked
  <2> QED BY <1>1, <1>2, <2>1 DEF IInv, HistoryInv
<1> QED
  BY <1>3, <1>4, <1>5, <1>6 DEF Linked

LEMMA CallLockLinked ==
    ASSUME IInv, NEW c \in Clients, NEW t \in Threads, CallLock(c, t)
    PROVE  Linked'
<1> USE DEF server, kernel, object, threads, history
<1>1. /\ \A d \in Clients, u \in Threads : tpc'[d][u] = IF d = c /\ u = t THEN "sendFunc" ELSE tpc[d][u]
      /\ \A d \in Clients : mutex'[d] = IF d = c THEN t ELSE mutex[d]
      /\ tpc[c][t] = "lock" /\ mutex[c] = None
      /\ UNCHANGED <<server, kernel, object, cur, history>>
  BY DEF CallLock, TypeOK, IInv
<1>2. OneConnection' /\ TunnelInv' /\ QueueInv' /\ ServerInv' /\ ClosedInv'
  BY <1>1 DEF IInv, OneConnection, TunnelInv, QueueInv, ServerInv, ClosedInv
<1>3. LockInv'
  BY <1>1, RpcAssumption DEF IInv, LockInv, Holding
<1>4. ThreadInv'
  BY <1>1 DEF IInv, ThreadInv
<1>5. RequestInv' /\ HandshakeInv'
  BY <1>1 DEF IInv, RequestInv, HandshakeInv, Awaits
<1>6. CallInv'
  <2>1. \A d \in cauthed : d \in Clients
    BY DEF IInv, TypeOK
  <2> QED BY <1>1, <2>1 DEF IInv, CallInv, Awaits, Reads
<1>7. HistoryInv'
  BY <1>1 DEF IInv, HistoryInv, Asked
<1> QED
  BY <1>2, <1>3, <1>4, <1>5, <1>6, <1>7 DEF Linked
\* A thread that sends or receives owns its client's live connection.
LEMMA HolderFacts ==
    ASSUME IInv, NEW c \in Clients, NEW t \in Threads, tpc[c][t] \in Holding,
           tpc[c][t] = "sendFunc" => c \in tunnel
    PROVE  /\ cur[c][t] \in Calls /\ outcome[cur[c][t]] = "pending"
           /\ cpc[c] = "ready" /\ c \in cauthed /\ c \in tunnel /\ sfd[c] \notin {"none", "queued"}
           /\ mutex[c] = t
           /\ \A u \in Threads : u # t => tpc[c][u] \notin Holding /\ cur[c][u] # cur[c][t]
           /\ \A d \in Clients, u \in Threads : d # c => cur[d][u] # cur[c][t]
<1>1. cur[c][t] \in Calls /\ outcome[cur[c][t]] = "pending" /\ cpc[c] = "ready" /\ cur[c][t] # None
  BY RpcAssumption DEF IInv, ThreadInv, Holding
<1>2. c \in cauthed /\ c \in tunnel /\ sfd[c] \notin {"none", "queued"}
  BY <1>1 DEF IInv, ThreadInv, TunnelInv, Holding, CallInv
<1>3. mutex[c] = t /\ \A u \in Threads : u # t => tpc[c][u] \notin Holding
  BY DEF IInv, LockInv
<1> QED
  BY <1>1, <1>2, <1>3 DEF IInv, ThreadInv

LEMMA CallSendFuncLinked ==
    ASSUME IInv, NEW c \in Clients, NEW t \in Threads, CallSendFunc(c, t)
    PROVE  Linked'
<1> USE DEF server, kernel, object, threads, history
<1> DEFINE k == cur[c][t]
<1>1. /\ TypeOK /\ k \in Calls /\ c \in cauthed /\ c \in tunnel /\ cpc[c] = "ready"
      /\ sfd[c] \notin {"none", "queued"} /\ mutex[c] = t
      /\ \A u \in Threads : u # t => tpc[c][u] \notin Holding /\ cur[c][u] # k
      /\ \A d \in Clients, u \in Threads : d # c => cur[d][u] # k
  BY HolderFacts DEF IInv, CallSendFunc, Holding
<1>2. toS[c] = <<>> /\ toC[c] = <<>> /\ Awaits(c)
  BY <1>1 DEF IInv, CallInv, CallSendFunc, Holding
<1>3. IF ServerGone(c) THEN toS' = toS ELSE toS' = [toS EXCEPT ![c] = <<Func(k)>>]
  BY <1>2, StreamFacts DEF CallSendFunc, SendToServer
<1>4. /\ \A d \in Clients, u \in Threads : tpc'[d][u] = IF d = c /\ u = t THEN "sendParams" ELSE tpc[d][u]
      /\ \A d \in Clients : d # c => toS'[d] = toS[d]
      /\ toS'[c] = IF ServerGone(c) THEN <<>> ELSE <<Func(k)>>
      /\ tpc[c][t] = "sendFunc"
      /\ UNCHANGED <<server, backlog, sfd, broken, toC, object, mutex, cur, history>>
  BY <1>1, <1>2, <1>3 DEF CallSendFunc, SendToServer, TypeOK
<1>5. OneConnection' /\ LockInv' /\ TunnelInv' /\ QueueInv' /\ ServerInv' /\ ClosedInv'
  BY <1>4 DEF IInv, OneConnection, LockInv, Holding, TunnelInv, QueueInv, ServerInv, ClosedInv
<1>6. ThreadInv'
  BY <1>1, <1>4 DEF IInv, ThreadInv
<1>7. RequestInv'
  BY <1>1, <1>2, <1>4 DEF IInv, RequestInv, ServerGone, Awaits
<1>8. HandshakeInv'
  BY <1>1, <1>4 DEF IInv, HandshakeInv, Awaits, TypeOK
<1>9. CallInv'
  <2>1. \A d \in cauthed : d \in Clients
    BY <1>1 DEF TypeOK
  <2>2. ServerGone(c) => c \in broken \/ fd # c
    BY DEF IInv, ServerGone, OneConnection
  <2>3. ASSUME NEW d \in cauthed, d # c PROVE CallInv!(d)'
    BY <1>4, <2>1, <2>3 DEF IInv, CallInv, Awaits, Reads
  <2>4. CallInv!(c)'
    BY <1>1, <1>2, <1>4, <2>1, <2>2 DEF Holding, Awaits, Reads
  <2> QED BY <1>4, <2>3, <2>4 DEF CallInv
<1>10. HistoryInv'
  <2>1. \A d \in Clients : \A j : Asked(d, j)' => Asked(d, j) \/ (d = c /\ j = k)
    <3>1. <<Func(k)>> # <<>> /\ Head(<<Func(k)>>) = Func(k)
      BY StreamFacts
    <3> QED BY <1>4, <3>1, FrameFacts DEF Asked
  <2>2. k \notin executed /\ outcome[k] = "pending" /\ \A d \in Clients : ~Asked(d, k)
    BY <1>4 DEF IInv, HistoryInv, ThreadInv
  <2> QED BY <1>1, <1>4, <2>1, <2>2 DEF IInv, HistoryInv, Holding
<1> QED
  BY <1>5, <1>6, <1>7, <1>8, <1>9, <1>10 DEF Linked

LEMMA CallSendParamsLinked ==
    ASSUME IInv, NEW c \in Clients, NEW t \in Threads, CallSendParams(c, t)
    PROVE  Linked'
<1> USE DEF server, kernel, object, threads, history
<1> DEFINE k == cur[c][t]
<1>1. /\ TypeOK /\ k \in Calls /\ c \in cauthed /\ c \in tunnel /\ cpc[c] = "ready"
      /\ sfd[c] \notin {"none", "queued"} /\ mutex[c] = t
      /\ \A u \in Threads : u # t => tpc[c][u] \notin Holding /\ cur[c][u] # k
  BY HolderFacts DEF IInv, CallSendParams, Holding
<1>2. /\ toC[c] = <<>>
      /\ \/ toS[c] = <<Func(k)>> /\ Awaits(c)
         \/ toS[c] = <<>> /\ Reads(c, k)
  BY <1>1 DEF IInv, CallInv, CallSendParams
<1>3. Append(<<Func(k)>>, Params(k)) = <<Func(k), Params(k)>> /\ Append(<<>>, Params(k)) = <<Params(k)>>
  BY StreamFacts
<1>4. /\ \A d \in Clients, u \in Threads : tpc'[d][u] = IF d = c /\ u = t THEN "recvRet" ELSE tpc[d][u]
      /\ \A d \in Clients : d # c => toS'[d] = toS[d]
      /\ ServerGone(c) => toS'[c] = toS[c]
      /\ ~ServerGone(c) /\ toS[c] = <<Func(k)>> => toS'[c] = <<Func(k), Params(k)>>
      /\ ~ServerGone(c) /\ toS[c] = <<>> => toS'[c] = <<Params(k)>>
      /\ tpc[c][t] = "sendParams"
      /\ UNCHANGED <<server, backlog, sfd, broken, toC, object, mutex, cur, history>>
  BY <1>1, <1>3 DEF CallSendParams, SendToServer, TypeOK
<1>5. OneConnection' /\ LockInv' /\ TunnelInv' /\ QueueInv' /\ ServerInv' /\ ClosedInv'
  BY <1>4 DEF IInv, OneConnection, LockInv, Holding, TunnelInv, QueueInv, ServerInv, ClosedInv
<1>6. ThreadInv'
  BY <1>1, <1>4 DEF IInv, ThreadInv
<1>a. ~ServerGone(c) => fd = c /\ c \notin broken
  BY <1>1 DEF IInv, ServerGone, OneConnection, TypeOK
<1>7. RequestInv'
  <2>1. CASE ServerGone(c)
    <3>1. \A d \in Clients : toS'[d] = toS[d]
      BY <1>4, <2>1
    <3> QED BY <1>4, <3>1 DEF IInv, RequestInv
  <2>2. CASE ~ServerGone(c)
    <3>1. ASSUME NEW d \in Clients, d # c PROVE RequestInv!(d)'
      BY <1>4, <3>1 DEF IInv, RequestInv
    <3>2. RequestInv!(c)'
      <4>1. fd = c /\ authed /\ sfd[c] = "open"
        BY <1>a, <1>2, <2>2 DEF Awaits, Reads, IInv, OneConnection
      <4>2. \/ spc = "top" /\ toS'[c] = <<Func(k), Params(k)>>
            \/ spc = "recvParams" /\ func = Func(k) /\ toS'[c] = <<Params(k)>>
        BY <1>a, <1>2, <1>4, <2>2 DEF Awaits, Reads
      <4> QED BY <1>1, <1>4, <4>1, <4>2
    <3> QED BY <3>1, <3>2 DEF RequestInv
  <2> QED BY <2>1, <2>2
<1>8. HandshakeInv'
  BY <1>1, <1>4 DEF IInv, HandshakeInv, Awaits, TypeOK
<1>9. CallInv'
  <2>1. \A d \in cauthed : d \in Clients
    BY <1>1 DEF TypeOK
  <2>3. ASSUME NEW d \in cauthed, d # c PROVE CallInv!(d)'
    BY <1>4, <2>1, <2>3 DEF IInv, CallInv, Awaits, Reads
  <2>4. CallInv!(c)'
    BY <1>1, <1>2, <1>4, <1>a, <2>1 DEF Holding, Awaits, Reads
  <2> QED BY <1>4, <2>3, <2>4 DEF CallInv
<1>10. HistoryInv'
  <2>1. \A d \in Clients : \A j : Asked(d, j)' => Asked(d, j)
    <3>1. /\ Head(<<Params(k)>>) = Params(k) /\ <<Func(k)>> # <<>>
          /\ Head(<<Func(k), Params(k)>>) = Func(k) /\ Head(<<Func(k)>>) = Func(k)
      BY StreamFacts
    <3> QED BY <1>2, <1>4, <3>1, FrameFacts DEF Asked
  <2> QED BY <1>1, <1>4, <2>1 DEF IInv, HistoryInv, Holding
<1> QED
  BY <1>5, <1>6, <1>7, <1>8, <1>9, <1>10 DEF Linked
\* EndCall touches only the caller's own thread and its own call.
LEMMA EndCallFacts ==
    ASSUME TypeOK, RpcAssumption, NEW c \in Clients, NEW t \in Threads, cur[c][t] \in Calls,
           NEW result, EndCall(c, t, result)
    PROVE  /\ \A d \in Clients, u \in Threads :
                  /\ tpc'[d][u] = IF d = c /\ u = t THEN "idle" ELSE tpc[d][u]
                  /\ cur'[d][u] = IF d = c /\ u = t THEN None ELSE cur[d][u]
           /\ \A d \in Clients : mutex'[d] = IF d = c THEN None ELSE mutex[d]
           /\ \A j \in Calls : outcome'[j] = IF j = cur[c][t] THEN result ELSE outcome[j]
           /\ executed' = executed
BY DEF EndCall, TypeOK

LEMMA CallRecvLinked ==
    ASSUME IInv, NEW c \in Clients, NEW t \in Threads, CallRecv(c, t)
    PROVE  Linked'
<1> USE DEF server, kernel, object, threads, history
<1> DEFINE k == cur[c][t]
<1>1. /\ TypeOK /\ k \in Calls /\ c \in cauthed /\ c \in tunnel /\ cpc[c] = "ready"
      /\ outcome[k] = "pending" /\ sfd[c] \notin {"none", "queued"} /\ mutex[c] = t
      /\ \A u \in Threads : u # t => tpc[c][u] \notin Holding /\ cur[c][u] # k
      /\ \A d \in Clients, u \in Threads : d # c => cur[d][u] # k
  BY HolderFacts DEF IInv, CallRecv, Holding
<1>2. toC[c] = <<Ret(k)>> /\ toS[c] = <<>> /\ Awaits(c) /\ tpc[c][t] = "recvRet"
  BY <1>1 DEF IInv, CallInv, CallRecv
<1>3. /\ toC'[c] = <<>> /\ \A d \in Clients : d # c => toC'[d] = toC[d]
      /\ UNCHANGED <<server, backlog, sfd, broken, toS, object>>
  BY <1>1, <1>2, StreamFacts DEF CallRecv, TypeOK
<1>4. /\ \A d \in Clients, u \in Threads :
             /\ tpc'[d][u] = IF d = c /\ u = t THEN "idle" ELSE tpc[d][u]
             /\ cur'[d][u] = IF d = c /\ u = t THEN None ELSE cur[d][u]
      /\ \A d \in Clients : mutex'[d] = IF d = c THEN None ELSE mutex[d]
      /\ \A j \in Calls : outcome'[j] = IF j = k THEN "ok" ELSE outcome[j]
      /\ executed' = executed
  BY <1>1, EndCallFacts, RpcAssumption DEF CallRecv
<1>5. OneConnection' /\ TunnelInv' /\ QueueInv' /\ ServerInv' /\ ClosedInv'
  BY <1>3 DEF IInv, OneConnection, TunnelInv, QueueInv, ServerInv, ClosedInv
<1>6. LockInv'
  BY <1>1, <1>4, RpcAssumption DEF IInv, LockInv, Holding
<1>7. ThreadInv'
  BY <1>1, <1>3, <1>4, RpcAssumption DEF IInv, ThreadInv
<1>8. RequestInv' /\ HandshakeInv'
  <2>1. \A d \in tunnel : d \in Clients
    BY <1>1 DEF TypeOK
  <2> QED BY <1>1, <1>3, <2>1 DEF IInv, RequestInv, HandshakeInv, Awaits
<1>9. CallInv'
  <2>1. \A d \in cauthed : d \in Clients
    BY <1>1 DEF TypeOK
  <2>2. ASSUME NEW d \in cauthed, d # c PROVE CallInv!(d)'
    BY <1>3, <1>4, <2>1, <2>2 DEF IInv, CallInv, Awaits, Reads
  <2>3. CallInv!(c)'
    BY <1>1, <1>2, <1>3, <1>4 DEF Holding, Awaits
  <2> QED BY <1>3, <2>2, <2>3 DEF CallInv
<1>10. HistoryInv'
  <2>1. \A d \in Clients : \A j : Asked(d, j)' <=> Asked(d, j)
    BY <1>3 DEF Asked
  <2>2. \A d \in Clients : ~Asked(d, k)
    BY <1>2 DEF IInv, HistoryInv, Asked, Awaits
  <2>3. \A j \in Calls : <<Ret(j)>> # <<>>
    BY StreamFacts
  <2> QED BY <1>1, <1>3, <1>4, <2>1, <2>2, <2>3 DEF IInv, HistoryInv, Holding
<1> QED
  BY <1>5, <1>6, <1>7, <1>8, <1>9, <1>10 DEF Linked

LEMMA CallIoFailsLinked ==
    ASSUME IInv, NEW c \in Clients, NEW t \in Threads, CallIoFails(c, t)
    PROVE  Linked'
<1> USE DEF server, kernel, object, threads, history
<1> DEFINE k == cur[c][t]
<1>1. /\ TypeOK /\ k \in Calls /\ c \in cauthed /\ c \in tunnel /\ cpc[c] = "ready"
      /\ outcome[k] = "pending" /\ mutex[c] = t
      /\ \A u \in Threads : u # t => tpc[c][u] \notin Holding /\ cur[c][u] # k
      /\ \A d \in Clients, u \in Threads : d # c => cur[d][u] # k
  BY HolderFacts DEF IInv, CallIoFails, Holding
<1>3. /\ tunnel' = tunnel \ {c} /\ cauthed' = cauthed \ {c}
      /\ toC'[c] = <<>> /\ \A d \in Clients : d # c => toC'[d] = toC[d]
      /\ UNCHANGED <<server, backlog, sfd, broken, toS, cpc>>
  BY <1>1 DEF CallIoFails, CloseClient, TypeOK
<1>4. /\ \A d \in Clients, u \in Threads :
             /\ tpc'[d][u] = IF d = c /\ u = t THEN "idle" ELSE tpc[d][u]
             /\ cur'[d][u] = IF d = c /\ u = t THEN None ELSE cur[d][u]
      /\ \A d \in Clients : mutex'[d] = IF d = c THEN None ELSE mutex[d]
      /\ \A j \in Calls : outcome'[j] = IF j = k THEN "failed" ELSE outcome[j]
      /\ executed' = executed
  BY <1>1, EndCallFacts, RpcAssumption DEF CallIoFails
<1>5. OneConnection' /\ TunnelInv' /\ QueueInv' /\ ServerInv' /\ ClosedInv'
  BY <1>1, <1>3 DEF IInv, OneConnection, TunnelInv, QueueInv, ServerInv, ClosedInv
<1>6. LockInv'
  BY <1>1, <1>4, RpcAssumption DEF IInv, LockInv, Holding
<1>7. ThreadInv'
  BY <1>1, <1>3, <1>4, RpcAssumption DEF IInv, ThreadInv, Holding
<1>8. RequestInv' /\ HandshakeInv'
  <2>1. \A d \in tunnel : d \in Clients
    BY <1>1 DEF TypeOK
  <2> QED BY <1>1, <1>3, <2>1 DEF IInv, RequestInv, HandshakeInv, Awaits
<1>9. CallInv'
  <2>1. \A d \in cauthed : d \in Clients
    BY <1>1 DEF TypeOK
  <2> QED BY <1>3, <1>4, <2>1 DEF IInv, CallInv, Awaits, Reads
<1>10. HistoryInv'
  <2>1. \A d \in Clients : \A j : Asked(d, j)' <=> Asked(d, j)
    BY <1>3 DEF Asked
  <2>2. \A j \in Calls : <<Ret(j)>> # <<>>
    BY StreamFacts
  <2>3. \A j \in Calls : outcome'[j] \in {"none", "refused"} => outcome[j] \in {"none", "refused"}
    BY <1>1, <1>4
  <2>4. \A j \in Calls : outcome[j] \in {"pending", "failed"} => outcome'[j] \in {"pending", "failed"}
    BY <1>1, <1>4
  <2>5. \A d \in Clients, u \in Threads :
            tpc'[d][u] # "idle" => tpc'[d][u] = tpc[d][u] /\ cur'[d][u] = cur[d][u]
    BY <1>4
  <2>6. \A d \in Clients : toC'[d] = <<>> \/ toC'[d] = toC[d]
    BY <1>3
  <2> QED BY <1>3, <1>4, <2>1, <2>2, <2>3, <2>4, <2>5, <2>6 DEF IInv, HistoryInv
<1> QED
  BY <1>5, <1>6, <1>7, <1>8, <1>9, <1>10 DEF Linked

LEMMA DieLinked == ASSUME IInv, NEW c \in Clients, Die(c) PROVE Linked'
<1> USE DEF server, kernel, object, threads, history
<1>1. TypeOK
  BY DEF IInv
<1>2. /\ tunnel' = tunnel \ {c} /\ cauthed' = cauthed \ {c}
      /\ toC'[c] = <<>> /\ \A d \in Clients : d # c => toC'[d] = toC[d]
      /\ \A d \in Clients : cpc'[d] = IF d = c THEN "dead" ELSE cpc[d]
      /\ \A d \in Clients, u \in Threads :
             /\ tpc'[d][u] = IF d = c THEN "idle" ELSE tpc[d][u]
             /\ cur'[d][u] = IF d = c THEN None ELSE cur[d][u]
      /\ \A d \in Clients : mutex'[d] = IF d = c THEN None ELSE mutex[d]
      /\ UNCHANGED <<server, backlog, sfd, broken, toS, history>>
  BY <1>1 DEF Die, CloseClient, TypeOK
<1>3. OneConnection' /\ TunnelInv' /\ QueueInv' /\ ServerInv' /\ ClosedInv'
  BY <1>2 DEF IInv, OneConnection, TunnelInv, QueueInv, ServerInv, ClosedInv
<1>4. LockInv'
  BY <1>2, RpcAssumption DEF IInv, LockInv, Holding
<1>5. ThreadInv'
  BY <1>2, RpcAssumption DEF IInv, ThreadInv
<1>6. RequestInv' /\ HandshakeInv' /\ CallInv'
  <2>1. (\A d \in tunnel : d \in Clients) /\ (\A d \in cauthed : d \in Clients)
    BY <1>1 DEF TypeOK
  <2> QED BY <1>2, <2>1 DEF IInv, RequestInv, HandshakeInv, CallInv, Awaits, Reads
<1>7. HistoryInv'
  <2>1. \A d \in Clients : \A j : Asked(d, j)' <=> Asked(d, j)
    BY <1>2 DEF Asked
  <2>2. \A j \in Calls : <<Ret(j)>> # <<>>
    BY StreamFacts
  <2> QED BY <1>2, <2>1, <2>2 DEF IInv, HistoryInv
<1> QED
  BY <1>3, <1>4, <1>5, <1>6, <1>7 DEF Linked

LEMMA NetResetLinked == ASSUME IInv, NEW c \in Clients, NetReset(c) PROVE Linked'
<1> USE DEF server, kernel, object, threads, history
<1>1. broken' = broken \cup {c} /\ UNCHANGED <<server, backlog, sfd, toS, toC, object, threads, history>>
  BY DEF NetReset
<1>2. OneConnection' /\ LockInv' /\ ThreadInv' /\ TunnelInv' /\ QueueInv' /\ ServerInv' /\ ClosedInv'
  BY <1>1 DEF IInv, OneConnection, LockInv, ThreadInv, TunnelInv, QueueInv, ServerInv, ClosedInv, Holding
<1>3. RequestInv' /\ HandshakeInv' /\ CallInv'
  BY <1>1 DEF IInv, RequestInv, HandshakeInv, CallInv, Awaits, Reads
<1>4. HistoryInv'
  BY <1>1 DEF IInv, HistoryInv, Asked
<1> QED
  BY <1>2, <1>3, <1>4 DEF Linked

LEMMA StutterLinked == ASSUME IInv, UNCHANGED vars PROVE Linked'
<1> USE DEF vars, server, kernel, object, threads, history
<1>1. OneConnection' /\ LockInv' /\ ThreadInv' /\ TunnelInv' /\ QueueInv' /\ ServerInv' /\ ClosedInv'
  BY DEF IInv, OneConnection, LockInv, ThreadInv, TunnelInv, QueueInv, ServerInv, ClosedInv, Holding
<1>2. RequestInv' /\ HandshakeInv' /\ CallInv' /\ HistoryInv'
  BY DEF IInv, RequestInv, HandshakeInv, CallInv, HistoryInv, Asked, Awaits, Reads
<1> QED
  BY <1>1, <1>2 DEF Linked
LEMMA AcceptLinked == ASSUME IInv, Accept PROVE Linked'
<1> USE DEF server, kernel, object, threads, history
<1> DEFINE c == Head(backlog)
<1>1. /\ TypeOK /\ srv = "up" /\ fd = None /\ fd' = c /\ spc \in {"top", "closing"}
      /\ UNCHANGED <<srv, authed, spc, func, params, restarts, broken, toS, toC,
                     object, threads, history>>
  BY DEF IInv, Accept, ServerInv
<1>2. /\ Len(backlog) \in Nat \ {0} /\ c \in Clients /\ c = backlog[1]
      /\ Len(backlog') = Len(backlog) - 1
      /\ \A i \in 1..Len(backlog') : backlog'[i] = backlog[i + 1]
  <2>1. backlog \in Seq(Clients) /\ backlog # <<>> /\ backlog' = Tail(backlog)
    BY <1>1 DEF Accept, TypeOK
  <2>2. /\ Len(backlog') = Len(backlog) - 1
        /\ \A i \in 1..Len(backlog') : backlog'[i] = backlog[i + 1]
    BY <2>1, HeadTailProperties
  <2>3. Len(backlog) \in Nat \ {0} /\ c \in Clients /\ c = backlog[1]
    BY <2>1
  <2> QED BY <2>2, <2>3
<1>3. /\ sfd[c] = "queued" /\ \A d \in Clients : sfd'[d] = IF d = c THEN "open" ELSE sfd[d]
      /\ \A i \in 2..Len(backlog) : backlog[i] # c
  BY <1>1, <1>2 DEF IInv, Accept, QueueInv, TypeOK
<1>4. OneConnection'
  BY <1>1, <1>2, <1>3, RpcAssumption DEF IInv, OneConnection
<1>5. LockInv' /\ ThreadInv' /\ TunnelInv' /\ ServerInv' /\ ClosedInv'
  BY <1>1, <1>2, <1>3, RpcAssumption DEF IInv, LockInv, ThreadInv, TunnelInv, ServerInv, ClosedInv, Holding
<1>6. QueueInv'
  <2>1. ASSUME NEW i \in 1..Len(backlog'), NEW j \in 1..Len(backlog'), backlog'[i] = backlog'[j]
        PROVE  i = j
    BY <1>2, <2>1 DEF IInv, QueueInv
  <2>2. ASSUME NEW d \in Clients
        PROVE  sfd'[d] = "queued" <=> \E i \in 1..Len(backlog') : backlog'[i] = d
    <3>1. CASE d = c
      <4>1. \A i \in 1..Len(backlog') : i + 1 \in 2..Len(backlog)
        BY <1>2
      <4> QED BY <1>2, <1>3, <3>1, <4>1
    <3>2. CASE d # c
      <4>1. ASSUME NEW i \in 1..Len(backlog), backlog[i] = d
            PROVE  i - 1 \in 1..Len(backlog') /\ backlog'[i - 1] = d
        BY <1>2, <3>2, <4>1
      <4>2. ASSUME NEW i \in 1..Len(backlog'), backlog'[i] = d
            PROVE  i + 1 \in 1..Len(backlog) /\ backlog[i + 1] = d
        BY <1>2, <4>2
      <4>3. sfd'[d] = sfd[d] /\ (sfd[d] = "queued" <=> \E i \in 1..Len(backlog) : backlog[i] = d)
        BY <1>3, <3>2 DEF IInv, QueueInv
      <4> QED BY <4>1, <4>2, <4>3
    <3> QED BY <3>1, <3>2
  <2>3. \A d \in Clients : cpc'[d] = "new" => sfd'[d] = "none"
    BY <1>1, <1>3 DEF IInv, QueueInv
  <2> QED BY <2>1, <2>2, <2>3 DEF QueueInv
<1>7. RequestInv'
  BY <1>1, <1>2, <1>3 DEF IInv, RequestInv
<1>8. HandshakeInv' /\ CallInv'
  <2>1. (\A d \in tunnel : d \in Clients) /\ (\A d \in cauthed : d \in Clients)
    BY <1>1 DEF TypeOK
  <2>2. c \notin cauthed
    BY <1>3 DEF IInv, CallInv
  <2>3. HandshakeInv'
    BY <1>1, <1>2, <1>3, <2>1, RpcAssumption DEF IInv, HandshakeInv, Awaits
  <2>4. CallInv'
    BY <1>1, <1>2, <1>3, <2>1, <2>2, RpcAssumption DEF IInv, CallInv, Awaits, Reads
  <2> QED BY <2>3, <2>4
<1>9. HistoryInv'
  BY <1>1 DEF IInv, HistoryInv, Asked
<1> QED
  BY <1>4, <1>5, <1>6, <1>7, <1>8, <1>9 DEF Linked

\* Closing fd leaves no trace of the exchange it was in.
LEMMA CloseFdLinked ==
    ASSUME IInv, CloseFd, spc' \in {"top", "closing"}, srv = "up",
           UNCHANGED <<srv, func, params, restarts, object, threads, history>>
    PROVE  Linked'
<1> USE DEF server, kernel, object, threads, history
<1>1. /\ TypeOK /\ fd' = None /\ UNCHANGED <<backlog, broken, toC>>
      /\ \A d \in Clients : toS'[d] = IF d = fd THEN <<>> ELSE toS[d]
      /\ \A d \in Clients : sfd'[d] = IF d = fd THEN "closed" ELSE sfd[d]
  BY RpcAssumption DEF IInv, CloseFd, TypeOK
<1>2. OneConnection' /\ LockInv' /\ ThreadInv' /\ TunnelInv' /\ ServerInv' /\ ClosedInv'
  <2>1. OneConnection'
    BY <1>1, RpcAssumption DEF IInv, OneConnection
  <2>2. LockInv' /\ ThreadInv'
    BY DEF IInv, LockInv, ThreadInv, Holding
  <2>3. TunnelInv' /\ ClosedInv'
    BY <1>1 DEF IInv, TunnelInv, ClosedInv
  <2>4. ServerInv'
    BY DEF ServerInv
  <2> QED BY <2>1, <2>2, <2>3, <2>4
<1>3. QueueInv'
  BY <1>1 DEF IInv, QueueInv, OneConnection
<1>4. RequestInv'
  BY <1>1, RpcAssumption DEF IInv, RequestInv
<1>5. HandshakeInv' /\ CallInv'
  <2>1. (\A d \in tunnel : d \in Clients) /\ (\A d \in cauthed : d \in Clients)
    BY <1>1 DEF TypeOK
  <2>2. \A d \in Clients : fd' # d
    BY <1>1, RpcAssumption
  <2>3. HandshakeInv'
    BY <1>1, <2>1, <2>2 DEF IInv, HandshakeInv, Awaits, OneConnection
  <2>4. CallInv'
    BY <1>1, <2>1, <2>2 DEF IInv, CallInv, Awaits, Reads
  <2> QED BY <2>3, <2>4
<1>6. HistoryInv'
  <2>1. \A d \in Clients : \A j : Asked(d, j)' => Asked(d, j)
    BY <1>1, RpcAssumption DEF Asked
  <2> QED BY <1>1, <2>1 DEF IInv, HistoryInv
<1> QED
  BY <1>2, <1>3, <1>4, <1>5, <1>6 DEF Linked

LEMMA SrvDiesLinked == ASSUME IInv, SrvDies PROVE Linked'
<1> USE DEF server, kernel, object, threads, history
<1>1. /\ TypeOK /\ srv' = "down" /\ fd' = None /\ spc' = "top" /\ backlog' = <<>>
      /\ UNCHANGED <<func, params, restarts, broken, toC, object, threads, history>>
      /\ \A d \in Clients : toS'[d] = <<>>
      /\ \A d \in Clients : sfd'[d] = IF sfd[d] = "none" THEN "none" ELSE "closed"
      /\ \A d \in Clients : fd' # d
  BY RpcAssumption DEF IInv, SrvDies
<1>2. ~authed'
  <2>1. authed' = FALSE
    BY Zenon DEF SrvDies
  <2> QED BY <2>1
<1>3. OneConnection' /\ LockInv' /\ ThreadInv' /\ TunnelInv' /\ ClosedInv'
  BY <1>1 DEF IInv, OneConnection, LockInv, ThreadInv, TunnelInv, ClosedInv, Holding
<1>4. ServerInv'
  BY <1>1, <1>2 DEF ServerInv
<1>5. QueueInv'
  BY <1>1 DEF IInv, QueueInv
<1>6. RequestInv'
  BY <1>1 DEF RequestInv
<1>7. HandshakeInv' /\ CallInv'
  <2>1. (\A d \in tunnel : d \in Clients) /\ (\A d \in cauthed : d \in Clients)
    BY <1>1 DEF TypeOK
  <2>2. HandshakeInv'
    BY <1>1, <2>1 DEF IInv, HandshakeInv, Awaits
  <2>3. CallInv'
    BY <1>1, <2>1 DEF IInv, CallInv, Awaits, Reads
  <2> QED BY <2>2, <2>3
<1>8. HistoryInv'
  <2>1. \A d \in Clients : \A j : ~Asked(d, j)'
    BY <1>1 DEF Asked
  <2> QED BY <1>1, <2>1 DEF IInv, HistoryInv
<1> QED
  BY <1>3, <1>4, <1>5, <1>6, <1>7, <1>8 DEF Linked

LEMMA SrvRestartLinked == ASSUME IInv, SrvRestart PROVE Linked'
<1> USE DEF server, kernel, object, threads, history
<1>1. srv' = "up" /\ UNCHANGED <<fd, authed, spc, func, params, kernel, object, threads, history>>
  BY DEF SrvRestart
<1>2. OneConnection' /\ LockInv' /\ ThreadInv' /\ TunnelInv' /\ QueueInv' /\ ServerInv' /\ ClosedInv'
  BY <1>1 DEF IInv, OneConnection, LockInv, ThreadInv, TunnelInv, QueueInv, ServerInv, ClosedInv, Holding
<1>3. RequestInv' /\ HandshakeInv' /\ CallInv' /\ HistoryInv'
  BY <1>1 DEF IInv, RequestInv, HandshakeInv, CallInv, HistoryInv, Asked, Awaits, Reads
<1> QED
  BY <1>2, <1>3 DEF Linked
\* What Take(fd) leaves in flight.
LEMMA TakeFacts ==
    ASSUME IInv, NEW c \in Clients, Take(c)
    PROVE  /\ toS[c] # <<>>
           /\ toS'[c] = Tail(toS[c]) /\ \A d \in Clients : d # c => toS'[d] = toS[d]
           /\ UNCHANGED <<backlog, sfd, broken, toC>>
BY DEF IInv, TypeOK, Take

LEMMA SrvRecvAuthLinked == ASSUME IInv, SrvRecvAuth PROVE Linked'
<1> USE DEF server, kernel, object, threads, history
<1>1. /\ TypeOK /\ fd \in Clients /\ spc = "top" /\ ~authed /\ srv = "up"
      /\ authed' = TRUE /\ spc' = "sendOk"
      /\ UNCHANGED <<srv, fd, func, params, restarts, object, threads, history>>
  BY DEF IInv, SrvRecvAuth, TypeOK
<1>2. /\ toS[fd] = <<AuthFrame>> /\ toS'[fd] = <<>>
      /\ \A d \in Clients : d # fd => toS'[d] = toS[d]
      /\ UNCHANGED <<backlog, sfd, broken, toC>>
  <2>1. toS[fd] = <<AuthFrame>>
    BY <1>1, TakeFacts DEF IInv, SrvRecvAuth, RequestInv
  <2> QED BY <1>1, <2>1, TakeFacts, ProtocolStreams DEF SrvRecvAuth
<1>3. /\ fd \notin cauthed
      /\ fd \in tunnel => cpc[fd] = "recvOk" /\ toC[fd] = <<>> /\ sfd[fd] # "queued"
  <2>1. fd \notin cauthed
    BY <1>1, <1>2, StreamFacts, FrameFacts DEF IInv, CallInv, Awaits, Reads
  <2> QED BY <1>1, <1>2, <2>1, StreamFacts DEF IInv, HandshakeInv, TunnelInv, OneConnection
<1>4. OneConnection' /\ LockInv' /\ ThreadInv' /\ TunnelInv' /\ QueueInv' /\ ServerInv' /\ ClosedInv'
  BY <1>1, <1>2, RpcAssumption DEF IInv, OneConnection, LockInv, ThreadInv, TunnelInv, QueueInv, ServerInv, ClosedInv, Holding
<1>5. RequestInv'
  BY <1>1, <1>2, <1>3 DEF IInv, RequestInv, OneConnection
<1>6. HandshakeInv' /\ CallInv'
  <2>1. (\A d \in tunnel : d \in Clients) /\ (\A d \in cauthed : d \in Clients)
    BY <1>1 DEF TypeOK
  <2>2. HandshakeInv'
    BY <1>1, <1>2, <1>3, <2>1 DEF IInv, HandshakeInv, Awaits
  <2>3. CallInv'
    BY <1>1, <1>2, <1>3, <2>1 DEF IInv, CallInv, Awaits, Reads
  <2> QED BY <2>2, <2>3
<1>7. HistoryInv'
  <2>1. \A d \in Clients : \A j : Asked(d, j)' => Asked(d, j)
    BY <1>1, <1>2 DEF Asked
  <2> QED BY <1>1, <1>2, <2>1 DEF IInv, HistoryInv
<1> QED
  BY <1>4, <1>5, <1>6, <1>7 DEF Linked

LEMMA SrvSendOkLinked == ASSUME IInv, SrvSendOk PROVE Linked'
<1> USE DEF server, kernel, object, threads, history
<1>1. /\ TypeOK /\ fd \in Clients /\ spc = "sendOk" /\ authed /\ srv = "up" /\ spc' = "top"
      /\ UNCHANGED <<srv, fd, authed, func, params, restarts, backlog, sfd, broken, toS, object, threads, history>>
  BY DEF IInv, SrvSendOk, SendToClient, ServerInv, TypeOK
<1>2. /\ fd \notin cauthed /\ toS[fd] = <<>>
      /\ fd \in tunnel => cpc[fd] = "recvOk" /\ toC[fd] = <<>> /\ sfd[fd] # "queued"
  <2>1. fd \notin cauthed
    BY <1>1 DEF IInv, CallInv, Awaits, Reads
  <2> QED BY <1>1, <2>1 DEF IInv, HandshakeInv, TunnelInv, OneConnection, RequestInv, Awaits
<1>3. /\ \A d \in Clients : d # fd => toC'[d] = toC[d]
      /\ ClientGone(fd) => toC'[fd] = toC[fd]
      /\ ~ClientGone(fd) => toC'[fd] = <<OkFrame>>
  BY <1>1, <1>2, StreamFacts DEF SrvSendOk, SendToClient, ClientGone, TypeOK
<1>4. OneConnection' /\ LockInv' /\ ThreadInv' /\ TunnelInv' /\ QueueInv' /\ ServerInv'
  BY <1>1 DEF IInv, OneConnection, LockInv, ThreadInv, TunnelInv, QueueInv, ServerInv, Holding
<1>5. ClosedInv'
  BY <1>1, <1>3 DEF IInv, ClosedInv, ClientGone
<1>6. RequestInv'
  BY <1>1, <1>2 DEF IInv, RequestInv
<1>7. HandshakeInv' /\ CallInv'
  <2>1. (\A d \in tunnel : d \in Clients) /\ (\A d \in cauthed : d \in Clients)
    BY <1>1 DEF TypeOK
  <2>2. HandshakeInv'
    BY <1>1, <1>2, <1>3, <2>1 DEF IInv, HandshakeInv, Awaits, ClientGone
  <2>3. CallInv'
    BY <1>1, <1>2, <1>3, <2>1 DEF IInv, CallInv, Awaits, Reads
  <2> QED BY <2>2, <2>3
<1>8. HistoryInv'
  <2>1. \A d \in Clients : \A j : Asked(d, j)' => Asked(d, j)
    BY <1>1 DEF Asked
  <2>2. \A j \in Calls : <<Ret(j)>> # <<OkFrame>>
    BY StreamFacts, FrameFacts
  <2>3. \A d \in Clients : toC'[d] = toC[d] \/ toC'[d] = <<OkFrame>>
    BY <1>3
  <2> QED BY <1>1, <2>1, <2>2, <2>3 DEF IInv, HistoryInv
<1> QED
  BY <1>4, <1>5, <1>6, <1>7, <1>8 DEF Linked

LEMMA SrvRecvFuncLinked == ASSUME IInv, SrvRecvFunc PROVE Linked'
<1> USE DEF server, kernel, object, threads, history
<1>1. /\ TypeOK /\ fd \in Clients /\ spc = "top" /\ authed /\ srv = "up"
      /\ spc' = "recvParams" /\ func' = Head(toS[fd])
      /\ UNCHANGED <<srv, fd, authed, params, restarts, object, threads, history>>
  BY DEF IInv, SrvRecvFunc, TypeOK
<1>2. /\ toS[fd] # <<>> /\ toS'[fd] = Tail(toS[fd])
      /\ \A d \in Clients : d # fd => toS'[d] = toS[d]
      /\ UNCHANGED <<backlog, sfd, broken, toC>>
  BY <1>1, TakeFacts DEF SrvRecvFunc
<1>3. \/ toS[fd] = <<AuthFrame>> /\ func' = AuthFrame /\ toS'[fd] = <<>>
      \/ \E k \in Calls : /\ func' = Func(k)
                          /\ \/ toS[fd] = <<Func(k)>> /\ toS'[fd] = <<>>
                             \/ toS[fd] = <<Func(k), Params(k)>> /\ toS'[fd] = <<Params(k)>>
  <2>1. \/ toS[fd] = <<AuthFrame>>
        \/ \E k \in Calls : toS[fd] \in {<<Func(k)>>, <<Func(k), Params(k)>>}
    BY <1>1, <1>2 DEF IInv, RequestInv
  <2> QED BY <1>1, <1>2, <2>1, ProtocolStreams
<1>4. OneConnection' /\ LockInv' /\ ThreadInv' /\ TunnelInv' /\ QueueInv' /\ ServerInv' /\ ClosedInv'
  BY <1>1, <1>2, RpcAssumption DEF IInv, OneConnection, LockInv, ThreadInv, TunnelInv, QueueInv, ServerInv, ClosedInv, Holding
<1>5. RequestInv'
  BY <1>1, <1>2, <1>3 DEF IInv, RequestInv, OneConnection
<1>6. HandshakeInv'
  <2>1. \A d \in tunnel : d \in Clients
    BY <1>1 DEF TypeOK
  <2>2. ASSUME NEW d \in tunnel, d # fd PROVE HandshakeInv!(d)'
    BY <1>1, <1>2, <2>1, <2>2 DEF IInv, HandshakeInv, Awaits
  <2>3. ASSUME fd \in tunnel PROVE HandshakeInv!(fd)'
    <3>1. CASE cpc[fd] \notin {"sendAuth", "recvOk"}
      BY <1>1, <3>1
    <3>2. CASE cpc[fd] \in {"sendAuth", "recvOk"}
      <4>1. cpc[fd] = "recvOk" /\ toS[fd] = <<AuthFrame>> /\ toC[fd] = <<>> /\ sfd[fd] # "queued"
        BY <1>1, <1>2, <2>3, <3>2 DEF IInv, HandshakeInv, OneConnection
      <4>2. func' = AuthFrame /\ toS'[fd] = <<>>
        BY <1>1, <1>2, <4>1, ProtocolStreams
      <4> QED BY <1>1, <1>2, <4>1, <4>2
    <3> QED BY <3>1, <3>2
  <2> QED BY <1>1, <2>2, <2>3 DEF HandshakeInv
<1>7. CallInv'
  <2>0. \A d \in cauthed : d \in Clients
    BY <1>1 DEF TypeOK
  <2>1. ASSUME NEW d \in cauthed, d # fd PROVE CallInv!(d)'
    BY <1>1, <1>2, <2>0, <2>1 DEF IInv, CallInv, Awaits, Reads
  <2>2. ASSUME fd \in cauthed PROVE CallInv!(fd)'
    <3>1. /\ sfd[fd] # "queued"
          /\ \E t \in Threads :
                /\ tpc[fd][t] \in {"sendParams", "recvRet"}
                /\ toC[fd] = <<>>
                /\ \/ toS[fd] = <<Func(cur[fd][t])>>
                   \/ tpc[fd][t] = "recvRet" /\ toS[fd] = <<Func(cur[fd][t]), Params(cur[fd][t])>>
      BY <1>1, <1>2, <2>2 DEF IInv, CallInv, Reads
    <3>2. PICK t \in Threads :
                /\ tpc[fd][t] \in {"sendParams", "recvRet"}
                /\ toC[fd] = <<>>
                /\ \/ toS[fd] = <<Func(cur[fd][t])>>
                   \/ tpc[fd][t] = "recvRet" /\ toS[fd] = <<Func(cur[fd][t]), Params(cur[fd][t])>>
      BY <3>1
    <3>3. /\ func' = Func(cur[fd][t])
          /\ \/ toS'[fd] = <<>>
             \/ tpc[fd][t] = "recvRet" /\ toS'[fd] = <<Params(cur[fd][t])>>
      BY <1>1, <1>2, <3>2, ProtocolStreams
    <3>4. \A u \in Threads : u # t => tpc[fd][u] \notin Holding
      BY <1>1, <3>2 DEF IInv, LockInv, Holding
    <3> QED BY <1>1, <1>2, <3>1, <3>2, <3>3, <3>4 DEF Holding, Reads, Awaits
  <2> QED BY <1>1, <2>1, <2>2 DEF CallInv
<1>8. HistoryInv'
  <2>1. \A j : Asked(fd, j)' => func' = Func(j)
    BY <1>1, <1>2, <1>3, ProtocolStreams, FrameFacts DEF Asked
  <2>2. \A d \in Clients : \A j : Asked(d, j)' => Asked(d, j)
    BY <1>1, <1>2, <2>1 DEF Asked
  <2> QED BY <1>1, <1>2, <2>2 DEF IInv, HistoryInv
<1> QED
  BY <1>4, <1>5, <1>6, <1>7, <1>8 DEF Linked
LEMMA SrvRecvParamsLinked == ASSUME IInv, SrvRecvParams PROVE Linked'
<1> USE DEF server, kernel, object, threads, history
<1>1. /\ TypeOK /\ fd \in Clients /\ spc = "recvParams" /\ authed /\ srv = "up"
      /\ spc' = "exec" /\ params' = Head(toS[fd])
      /\ UNCHANGED <<srv, fd, authed, func, restarts, object, threads, history>>
  BY DEF IInv, SrvRecvParams, ServerInv, TypeOK
<1>2. /\ toS[fd] # <<>> /\ toS'[fd] = Tail(toS[fd])
      /\ \A d \in Clients : d # fd => toS'[d] = toS[d]
      /\ UNCHANGED <<backlog, sfd, broken, toC>>
  BY <1>1, TakeFacts DEF SrvRecvParams
<1>3. PICK k \in Calls : func = Func(k) /\ toS[fd] = <<Params(k)>>
  BY <1>1, <1>2 DEF IInv, RequestInv
<1>4. params' = Params(k) /\ toS'[fd] = <<>>
  BY <1>1, <1>2, <1>3, ProtocolStreams
<1>5. OneConnection' /\ LockInv' /\ ThreadInv' /\ TunnelInv' /\ QueueInv' /\ ServerInv' /\ ClosedInv'
  BY <1>1, <1>2, RpcAssumption DEF IInv, OneConnection, LockInv, ThreadInv, TunnelInv, QueueInv, ServerInv, ClosedInv, Holding
<1>6. RequestInv'
  BY <1>1, <1>2, <1>3, <1>4 DEF IInv, RequestInv, OneConnection
<1>7. HandshakeInv'
  <2>1. \A d \in tunnel : d \in Clients
    BY <1>1 DEF TypeOK
  <2>2. fd \in tunnel => cpc[fd] \notin {"sendAuth", "recvOk"}
    BY <1>1, <1>2, <1>3, FrameFacts DEF IInv, HandshakeInv, Awaits
  <2> QED BY <1>1, <1>2, <2>1, <2>2 DEF IInv, HandshakeInv, Awaits
<1>8. CallInv'
  <2>0. \A d \in cauthed : d \in Clients
    BY <1>1 DEF TypeOK
  <2>1. ASSUME NEW d \in cauthed, d # fd PROVE CallInv!(d)'
    BY <1>1, <1>2, <2>0, <2>1 DEF IInv, CallInv, Awaits, Reads
  <2>2. ASSUME fd \in cauthed PROVE CallInv!(fd)'
    <3>1. /\ sfd[fd] # "queued" /\ toC[fd] = <<>>
          /\ \E t \in Threads : tpc[fd][t] = "recvRet" /\ func = Func(cur[fd][t])
      BY <1>1, <1>2, <2>2 DEF IInv, CallInv, Awaits, Reads
    <3>2. PICK t \in Threads : tpc[fd][t] = "recvRet" /\ func = Func(cur[fd][t])
      BY <3>1
    <3>3. \A u \in Threads : u # t => tpc[fd][u] \notin Holding
      BY <1>1, <3>2 DEF IInv, LockInv, Holding
    <3> QED BY <1>1, <1>2, <1>4, <3>1, <3>2, <3>3 DEF Holding, Reads, Awaits
  <2> QED BY <1>1, <2>1, <2>2 DEF CallInv
<1>9. HistoryInv'
  <2>1. \A d \in Clients : \A j : Asked(d, j)' => Asked(d, j)
    BY <1>1, <1>2, <1>4 DEF Asked
  <2> QED BY <1>1, <1>2, <2>1 DEF IInv, HistoryInv
<1> QED
  BY <1>5, <1>6, <1>7, <1>8, <1>9 DEF Linked

LEMMA SrvExecLinked == ASSUME IInv, SrvExec PROVE Linked'
<1> USE DEF server, kernel, object, threads, history
<1>1. /\ TypeOK /\ fd \in Clients /\ spc = "exec" /\ authed /\ srv = "up" /\ spc' = "sendRet"
      /\ executed' = executed \cup {func.call}
      /\ UNCHANGED <<srv, fd, authed, func, params, restarts, kernel, object, threads, outcome>>
  BY DEF IInv, SrvExec, ServerInv, TypeOK
<1>2. PICK k \in Calls : func = Func(k) /\ params = Params(k)
  BY <1>1 DEF IInv, RequestInv
<1>3. func.call = k
  BY <1>2 DEF Func
<1>4. OneConnection' /\ LockInv' /\ ThreadInv' /\ TunnelInv' /\ QueueInv' /\ ServerInv' /\ ClosedInv'
  BY <1>1, RpcAssumption DEF IInv, OneConnection, LockInv, ThreadInv, TunnelInv, QueueInv, ServerInv, ClosedInv, Holding
<1>5. RequestInv' /\ HandshakeInv' /\ CallInv'
  <2>1. (\A d \in tunnel : d \in Clients) /\ (\A d \in cauthed : d \in Clients)
    BY <1>1 DEF TypeOK
  <2>2. RequestInv'
    BY <1>1 DEF IInv, RequestInv
  <2>3. HandshakeInv'
    BY <1>1, <2>1 DEF IInv, HandshakeInv, Awaits
  <2>4. CallInv'
    BY <1>1, <2>1 DEF IInv, CallInv, Awaits, Reads
  <2> QED BY <2>2, <2>3, <2>4
<1>6. HistoryInv'
  <2>1. \A d \in Clients : \A j : Asked(d, j)' => Asked(d, j) /\ j # k
    <3>1. \A d \in Clients : \A j : Asked(d, j)' => Asked(d, j)
      BY <1>1 DEF Asked
    <3>2. Asked(fd, k) /\ toS[fd] = <<>>
      BY <1>1, <1>2 DEF IInv, RequestInv, Asked
    <3>3. \A d \in Clients : Asked(d, k) => d = fd
      BY <1>1, <3>2 DEF IInv, HistoryInv
    <3>4. ASSUME NEW d \in Clients, Asked(d, k)' PROVE FALSE
      <4>1. d = fd
        BY <3>1, <3>3, <3>4
      <4> QED BY <1>1, <3>2, <3>4, <4>1 DEF Asked
    <3> QED BY <3>1, <3>4
  <2>2. Asked(fd, k)
    BY <1>1, <1>2 DEF Asked
  <2>3. outcome[k] \in {"pending", "failed"}
    BY <1>1, <2>2 DEF IInv, HistoryInv
  <2> QED BY <1>1, <1>3, <2>1, <2>2, <2>3 DEF IInv, HistoryInv
<1> QED
  BY <1>4, <1>5, <1>6 DEF Linked

LEMMA SrvUnknownFuncLinked == ASSUME IInv, SrvUnknownFunc PROVE Linked'
<1> USE DEF server, kernel, object, threads, history
<1>1. /\ TypeOK /\ fd \in Clients /\ spc = "exec" /\ authed /\ srv = "up" /\ spc' = "top"
      /\ UNCHANGED <<srv, fd, authed, func, params, restarts, kernel, object, threads, history>>
  BY DEF IInv, SrvUnknownFunc, ServerInv, TypeOK
<1>2. OneConnection' /\ LockInv' /\ ThreadInv' /\ TunnelInv' /\ QueueInv' /\ ServerInv' /\ ClosedInv'
  BY <1>1, RpcAssumption DEF IInv, OneConnection, LockInv, ThreadInv, TunnelInv, QueueInv, ServerInv, ClosedInv, Holding
<1>3. RequestInv' /\ HandshakeInv' /\ CallInv'
  <2>1. (\A d \in tunnel : d \in Clients) /\ (\A d \in cauthed : d \in Clients)
    BY <1>1 DEF TypeOK
  <2>2. RequestInv'
    BY <1>1 DEF IInv, RequestInv
  <2>3. HandshakeInv'
    BY <1>1, <2>1 DEF IInv, HandshakeInv, Awaits
  <2>4. CallInv'
    BY <1>1, <2>1 DEF IInv, CallInv, Awaits, Reads
  <2> QED BY <2>2, <2>3, <2>4
<1>4. HistoryInv'
  <2>1. \A d \in Clients : \A j : Asked(d, j)' => Asked(d, j)
    BY <1>1 DEF Asked
  <2> QED BY <1>1, <2>1 DEF IInv, HistoryInv
<1> QED
  BY <1>2, <1>3, <1>4 DEF Linked

LEMMA SrvSendRetLinked == ASSUME IInv, SrvSendRet PROVE Linked'
<1> USE DEF server, kernel, object, threads, history
<1>1. /\ TypeOK /\ fd \in Clients /\ spc = "sendRet" /\ authed /\ srv = "up" /\ spc' = "top"
      /\ UNCHANGED <<srv, fd, authed, func, params, restarts, backlog, sfd, broken, toS, object, threads, history>>
  BY DEF IInv, SrvSendRet, SendToClient, ServerInv, TypeOK
<1>2. PICK k \in Calls : func = Func(k) /\ toS[fd] = <<>>
  BY <1>1 DEF IInv, RequestInv
<1>3. func.call = k /\ k \in executed
  BY <1>1, <1>2 DEF Func, IInv, HistoryInv
<1>4. /\ fd \in tunnel => fd \in cauthed
      /\ fd \in cauthed => /\ toC[fd] = <<>> /\ sfd[fd] # "queued"
                           /\ \E t \in Threads : tpc[fd][t] = "recvRet" /\ cur[fd][t] = k
  <2>1. fd \in tunnel => fd \in cauthed
    BY <1>1 DEF IInv, HandshakeInv, TunnelInv, Awaits
  <2>2. fd \in cauthed => /\ toC[fd] = <<>> /\ sfd[fd] # "queued"
                          /\ \E t \in Threads : tpc[fd][t] = "recvRet" /\ func = Func(cur[fd][t])
    BY <1>1 DEF IInv, CallInv, Awaits, Reads
  <2> QED BY <1>2, <2>1, <2>2, FrameFacts
<1>5. /\ \A d \in Clients : d # fd => toC'[d] = toC[d]
      /\ ClientGone(fd) => toC'[fd] = toC[fd]
      /\ ~ClientGone(fd) => toC'[fd] = <<Ret(k)>>
  BY <1>1, <1>3, <1>4, StreamFacts DEF SrvSendRet, SendToClient, ClientGone, TypeOK
<1>6. OneConnection' /\ LockInv' /\ ThreadInv' /\ TunnelInv' /\ QueueInv' /\ ServerInv'
  BY <1>1 DEF IInv, OneConnection, LockInv, ThreadInv, TunnelInv, QueueInv, ServerInv, Holding
<1>7. ClosedInv'
  BY <1>1, <1>5 DEF IInv, ClosedInv, ClientGone
<1>8. RequestInv'
  BY <1>1, <1>2 DEF IInv, RequestInv
<1>9. HandshakeInv'
  <2>1. \A d \in tunnel : d \in Clients
    BY <1>1 DEF TypeOK
  <2>2. fd \in tunnel => cpc[fd] \notin {"sendAuth", "recvOk"}
    BY <1>1, <1>4 DEF IInv, TunnelInv
  <2> QED BY <1>1, <1>5, <2>1, <2>2 DEF IInv, HandshakeInv, Awaits
<1>10. CallInv'
  <2>0. \A d \in cauthed : d \in Clients
    BY <1>1 DEF TypeOK
  <2>1. ASSUME NEW d \in cauthed, d # fd PROVE CallInv!(d)'
    BY <1>1, <1>5, <2>0, <2>1 DEF IInv, CallInv, Awaits, Reads
  <2>2. ASSUME fd \in cauthed PROVE CallInv!(fd)'
    <3>1. PICK t \in Threads : tpc[fd][t] = "recvRet" /\ cur[fd][t] = k
      BY <1>4, <2>2
    <3>2. \A u \in Threads : u # t => tpc[fd][u] \notin Holding
      BY <1>1, <3>1 DEF IInv, LockInv, Holding
    <3>3. toC'[fd] = <<>> \/ toC'[fd] = <<Ret(k)>>
      BY <1>4, <1>5, <2>2
    <3> QED BY <1>1, <1>2, <1>4, <2>2, <3>1, <3>2, <3>3 DEF Holding, Reads, Awaits
  <2> QED BY <1>1, <2>1, <2>2 DEF CallInv
<1>11. HistoryInv'
  <2>1. \A d \in Clients : \A j : Asked(d, j)' => Asked(d, j)
    BY <1>1 DEF Asked
  <2>2. \A d \in Clients, j \in Calls : toC'[d] = <<Ret(j)>> => toC[d] = <<Ret(j)>> \/ j = k
    <3>1. \A j : <<Ret(k)>> = <<Ret(j)>> => Ret(k) = Ret(j)
      BY StreamFacts
    <3> QED BY <1>5, <3>1, FrameFacts
  <2> QED BY <1>1, <1>3, <2>1, <2>2 DEF IInv, HistoryInv
<1> QED
  BY <1>6, <1>7, <1>8, <1>9, <1>10, <1>11 DEF Linked

LEMMA RpcThreadLinked == ASSUME IInv, RpcThread PROVE Linked'
<1>1. ASSUME SrvSendOkFails \/ SrvIoFails \/ SrvClosing PROVE Linked'
  <2>1. /\ CloseFd /\ spc' \in {"top", "closing"} /\ srv = "up"
        /\ UNCHANGED <<srv, func, params, restarts, object, threads, history>>
    BY <1>1 DEF SrvSendOkFails, SrvIoFails, SrvClosing
  <2> QED BY <2>1, CloseFdLinked
<1> QED
  BY <1>1, SrvRecvAuthLinked, SrvSendOkLinked, SrvRecvFuncLinked, SrvRecvParamsLinked,
     SrvExecLinked, SrvUnknownFuncLinked, SrvSendRetLinked DEF RpcThread

LEMMA CallStepLinked ==
    ASSUME IInv, NEW c \in Clients, NEW t \in Threads, CallStep(c, t) PROVE Linked'
BY CallLockLinked, CallSendFuncLinked, CallSendParamsLinked, CallRecvLinked,
   CallIoFailsLinked, DieLinked DEF CallStep, NullTunnel

LEMMA ClientLinked ==
    ASSUME IInv, NEW c \in Clients, User(c) \/ Ctor(c) \/ Fault(c) PROVE Linked'
BY ConnectLinked, ConnectFailsLinked, DieLinked, CallAdmittedLinked, CallRefusedLinked,
   SendAuthLinked, RecvOkLinked, CtorIoFailsLinked, NetResetLinked
   DEF User, Ctor, Fault, Quit, ClientSigpipe

\* IInv is inductive: it holds at the start, and a step keeps it.
LEMMA InductiveIInv == (Init => IInv) /\ (IInv /\ [Next]_vars => IInv')
<1>1. Init => IInv
  BY InitTypeOK, InitLinked DEF Linked, IInv
<1>2. ASSUME IInv, [Next]_vars PROVE IInv'
  <2>1. TypeOK'
    BY <1>2, NextTypeOK DEF IInv
  <2>2. Linked'
    BY <1>2, ClientLinked, CallStepLinked, AcceptLinked, RpcThreadLinked, SrvDiesLinked,
       SrvRestartLinked, StutterLinked DEF Next, ServerFault, SrvThrows, SrvSigpipe, SrvKilled
  <2> QED BY <2>1, <2>2 DEF Linked, IInv
<1> QED
  BY <1>1, <1>2

-----------------------------------------------------------------------------
(* The theorems.                                                           *)

\* In every state the server and its clients can reach, the two ends of each
\* connection agree on where the protocol stands.
THEOREM Invariance == Spec => []IInv
BY InductiveIInv, PTL DEF Spec

\* Every variable keeps its type.
THEOREM TypeCorrect == Spec => []TypeOK
<1>1. IInv => TypeOK
  BY DEF IInv
<1> QED
  BY <1>1, Invariance, PTL

\* The server has at most one accepted connection, the one fd stands for.
THEOREM OneConnectionAlways == Spec => []OneConnection
<1>1. IInv => OneConnection
  BY DEF IInv
<1> QED
  BY <1>1, Invariance, PTL

\* A reply in flight answers the call of the thread that waits for it.
THEOREM RepliesMatchAlways == Spec => []RepliesMatch
<1>1. IInv => RepliesMatch
  <2> SUFFICES ASSUME IInv, NEW c \in Clients, toC[c] # <<>>, cpc[c] = "ready"
               PROVE  \E t \in Threads : tpc[c][t] = "recvRet" /\ toC[c] = <<Ret(cur[c][t])>>
    BY DEF RepliesMatch
  <2>1. c \in cauthed
    BY DEF IInv, ClosedInv, TunnelInv
  <2>2. PICK t \in Threads : tpc[c][t] \in {"sendParams", "recvRet"}
    BY <2>1 DEF IInv, CallInv
  <2> QED BY <2>1, <2>2 DEF IInv, CallInv
<1> QED
  BY <1>1, Invariance, PTL

\* The server runs a function only on its own call's parameters.
THEOREM ParamsMatchAlways == Spec => []ParamsMatch
<1>1. IInv => ParamsMatch
  <2> SUFFICES ASSUME IInv, spc \in {"exec", "sendRet"} PROVE params = Params(func.call)
    BY DEF ParamsMatch
  <2>1. fd \in Clients
    BY DEF IInv, ServerInv, TypeOK
  <2>2. PICK k \in Calls : func = Func(k) /\ params = Params(k)
    BY <2>1 DEF IInv, RequestInv
  <2>3. func.call = k
    BY <2>2 DEF Func
  <2> QED BY <2>2, <2>3
<1> QED
  BY <1>1, Invariance, PTL

\* A client that has been told "ok" is not asked for its auth string again.
THEOREM AuthNotRepeatedAlways == Spec => []AuthNotRepeated
<1>1. IInv => AuthNotRepeated
  <2> SUFFICES ASSUME IInv, ~authed, fd # None, spc # "closing", fd \in cauthed PROVE FALSE
    BY DEF AuthNotRepeated
  <2>1. spc = "top"
    BY DEF IInv, ServerInv, TypeOK
  <2>2. toS[fd] \in {<<>>, <<AuthFrame>>}
    BY DEF IInv, RequestInv, TypeOK
  <2>3. fd \in broken /\ \E t \in Threads : tpc[fd][t] \in {"sendParams", "recvRet"}
    BY <2>1 DEF IInv, CallInv, Awaits, Reads
  <2> QED BY <2>1, <2>2, <2>3, ProtocolStreams, FrameFacts DEF IInv, CallInv, Awaits, Reads
<1> QED
  BY <1>1, Invariance, PTL

\* One step of the session is one step of the abstract calls, or none.
LEMMA StepSimulation == ASSUME IInv, [Next]_vars PROVE [Abstract!Next]_(Abstract!vars)
<1> USE DEF server, kernel, object, threads, history, Abstract!vars
<1>0. TypeOK
  BY DEF IInv
<1>1. ASSUME UNCHANGED history PROVE [Abstract!Next]_(Abstract!vars)
  BY <1>1
<1>2. ASSUME NEW c \in Clients, User(c) \/ Ctor(c) \/ Fault(c) PROVE [Abstract!Next]_(Abstract!vars)
  <2>1. ASSUME NEW t \in Threads, NEW k \in Calls, CallAdmitted(c, t, k)
        PROVE  Abstract!Next
    BY <2>1 DEF CallAdmitted, Abstract!Next, Abstract!Begin
  <2>2. ASSUME NEW t \in Threads, NEW k \in Calls, CallRefused(c, t, k)
        PROVE  Abstract!Next
    BY <2>2 DEF CallRefused, Abstract!Next, Abstract!Refuse
  <2>3. ASSUME \/ Connect(c) \/ ConnectFails(c) \/ SendAuth(c) \/ RecvOk(c) \/ CtorIoFails(c)
               \/ Quit(c) \/ NetReset(c) \/ ClientSigpipe(c)
        PROVE  UNCHANGED history
    BY <2>3 DEF Connect, ConnectFails, SendAuth, RecvOk, CtorIoFails, Quit, NetReset, ClientSigpipe, Die
  <2> QED BY <1>1, <1>2, <2>1, <2>2, <2>3 DEF User, Ctor, Fault
<1>3. ASSUME NEW c \in Clients, NEW t \in Threads, CallStep(c, t) PROVE [Abstract!Next]_(Abstract!vars)
  <2> DEFINE k == cur[c][t]
  <2>1. CASE CallRecv(c, t)
    <3>1. k \in Calls /\ outcome[k] = "pending" /\ c \in cauthed
      BY <2>1, HolderFacts DEF CallRecv, Holding
    <3>2. toC[c] = <<Ret(k)>>
      BY <2>1, <3>1 DEF IInv, CallInv, CallRecv
    <3>3. k \in executed
      BY <3>1, <3>2 DEF IInv, HistoryInv
    <3> QED BY <2>1, <3>1, <3>3 DEF CallRecv, EndCall, Abstract!Next, Abstract!Return
  <2>2. CASE CallIoFails(c, t)
    <3>1. k \in Calls /\ outcome[k] = "pending"
      BY <2>2, HolderFacts DEF CallIoFails, Holding
    <3> QED BY <2>2, <3>1 DEF CallIoFails, EndCall, Abstract!Next, Abstract!Fail
  <2>3. ASSUME CallLock(c, t) \/ CallSendFunc(c, t) \/ CallSendParams(c, t) \/ NullTunnel(c, t)
        PROVE  UNCHANGED history
    BY <2>3 DEF CallLock, CallSendFunc, CallSendParams, NullTunnel, Die
  <2> QED BY <1>1, <1>3, <2>1, <2>2, <2>3 DEF CallStep
<1>4. ASSUME RpcThread PROVE [Abstract!Next]_(Abstract!vars)
  <2>1. CASE SrvExec
    <3>1. fd \in Clients /\ spc = "exec"
      BY <2>1 DEF IInv, SrvExec, ServerInv, TypeOK
    <3>2. PICK k \in Calls : func = Func(k)
      BY <3>1 DEF IInv, RequestInv
    <3>3. func.call = k /\ Asked(fd, k)
      BY <3>1, <3>2 DEF Func, Asked
    <3>4. k \notin executed /\ outcome[k] \in {"pending", "failed"}
      BY <3>1, <3>3 DEF IInv, HistoryInv
    <3> QED BY <2>1, <3>3, <3>4 DEF SrvExec, Abstract!Next, Abstract!Execute
  <2>2. ASSUME \/ SrvRecvAuth \/ SrvSendOk \/ SrvSendOkFails \/ SrvRecvFunc \/ SrvRecvParams
               \/ SrvUnknownFunc \/ SrvSendRet \/ SrvIoFails \/ SrvClosing
        PROVE  UNCHANGED history
    BY <2>2 DEF SrvRecvAuth, SrvSendOk, SrvSendOkFails, SrvRecvFunc, SrvRecvParams,
                SrvUnknownFunc, SrvSendRet, SrvIoFails, SrvClosing
  <2> QED BY <1>1, <1>4, <2>1, <2>2 DEF RpcThread
<1>5. ASSUME Accept \/ ServerFault \/ UNCHANGED vars PROVE UNCHANGED history
  BY <1>5 DEF Accept, ServerFault, SrvThrows, SrvSigpipe, SrvKilled, SrvDies, SrvRestart, vars
<1> QED
  BY <1>1, <1>2, <1>3, <1>4, <1>5 DEF Next

\* The session implements RemoteCalls: a call runs at most once, and its caller
\* is told that it succeeded only if it ran.
THEOREM Refinement == Spec => CallsAtMostOnce
<1>1. Init => Abstract!Init
  BY DEF Init, Abstract!Init
<1>2. IInv /\ [Next]_vars => [Abstract!Next]_(Abstract!vars)
  BY StepSimulation
<1> QED
  BY <1>1, <1>2, Invariance, PTL DEF Spec, CallsAtMostOnce, Abstract!Spec
-----------------------------------------------------------------------------
(* A client with one thread: what the counterexample to NoNullTunnel needs   *)
(* is another one.                                                         *)

\* A thread that passed the test of authed and has not sent yet has a tunnel.
Admitted == \A c \in Clients, t \in Threads : tpc[c][t] \in {"lock", "sendFunc"} => c \in tunnel

LEMMA AdmittedStep ==
    ASSUME \A t, u \in Threads : t = u, IInv, Admitted, [Next]_vars
    PROVE  Admitted'
<1> USE DEF Admitted
<1>0. TypeOK
  BY DEF IInv
<1>1. ASSUME NEW c \in Clients, CloseClient(c), UNCHANGED <<tpc, mutex>>, cpc[c] # "ready"
      PROVE  Admitted'
  BY <1>1 DEF CloseClient, IInv, ThreadInv
<1>2. ASSUME NEW c \in Clients, Die(c) PROVE Admitted'
  BY <1>0, <1>2 DEF Die, CloseClient, TypeOK
<1>3. ASSUME NEW c \in Clients, RecvOk(c) \/ CtorIoFails(c) PROVE Admitted'
  <2>1. cpc[c] # "ready" /\ UNCHANGED <<tpc, mutex>>
    BY <1>3 DEF RecvOk, CtorIoFails, threads
  <2>2. CASE CloseClient(c)
    BY <1>1, <2>1, <2>2
  <2>3. CASE ~CloseClient(c)
    BY <1>3, <2>1, <2>3 DEF RecvOk, CtorIoFails
  <2> QED BY <2>2, <2>3
<1>4. ASSUME NEW c \in Clients, NEW t \in Threads, CallStep(c, t) PROVE Admitted'
  <2>1. CASE CallIoFails(c, t)
    BY <1>0, <2>1 DEF CallIoFails, CloseClient, EndCall, TypeOK
  <2>2. CASE CallRecv(c, t)
    BY <1>0, <2>2 DEF CallRecv, EndCall, object, TypeOK
  <2>3. CASE CallLock(c, t)
    BY <1>0, <2>3 DEF CallLock, object, TypeOK
  <2>4. CASE CallSendFunc(c, t)
    BY <1>0, <2>4 DEF CallSendFunc, object, TypeOK
  <2>5. CASE CallSendParams(c, t)
    BY <1>0, <2>5 DEF CallSendParams, object, TypeOK
  <2> QED BY <1>2, <1>4, <2>1, <2>2, <2>3, <2>4, <2>5 DEF CallStep, NullTunnel
<1>5. ASSUME NEW c \in Clients, NEW t \in Threads, NEW k \in Calls, CallAdmitted(c, t, k)
      PROVE  Admitted'
  <2>1. c \in tunnel
    BY <1>5 DEF CallAdmitted, IInv, TunnelInv
  <2> QED BY <1>0, <1>5, <2>1 DEF CallAdmitted, object, TypeOK
<1>6. ASSUME NEW c \in Clients, \/ Connect(c) \/ ConnectFails(c) \/ SendAuth(c) \/ NetReset(c)
                               \/ \E t \in Threads, k \in Calls : CallRefused(c, t, k)
      PROVE  Admitted'
  BY <1>6 DEF Connect, ConnectFails, SendAuth, NetReset, CallRefused, object, threads
<1>7. ASSUME Accept \/ RpcThread \/ ServerFault \/ UNCHANGED vars PROVE UNCHANGED <<tpc, tunnel>>
  BY <1>7 DEF Accept, RpcThread, SrvRecvAuth, SrvSendOk, SrvSendOkFails, SrvRecvFunc, SrvRecvParams,
       SrvExec, SrvUnknownFunc, SrvSendRet, SrvIoFails, SrvClosing, ServerFault, SrvThrows, SrvSigpipe,
       SrvKilled, SrvDies, SrvRestart, vars, object, threads
<1> QED
  BY <1>2, <1>3, <1>4, <1>5, <1>6, <1>7 DEF Next, User, Ctor, Fault, Quit, ClientSigpipe

\* A client with one calling thread never uses a tunnel that is gone: the
\* failed call that drops it clears authed, which that thread tests next.
THEOREM NoNullTunnelAlone ==
    ASSUME \A t, u \in Threads : t = u
    PROVE  Spec => []NoNullTunnel
<1>1. Init => Admitted
  BY DEF Init, Admitted
<1>2. IInv /\ Admitted /\ [Next]_vars => Admitted'
  BY AdmittedStep
<1>3. Admitted => NoNullTunnel
  BY DEF Admitted, NoNullTunnel
<1> QED
  BY <1>1, <1>2, <1>3, Invariance, PTL DEF Spec
=============================================================================
