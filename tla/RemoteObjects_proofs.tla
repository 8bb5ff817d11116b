------------------------- MODULE RemoteObjects_proofs -------------------------
(***************************************************************************)
(* Proofs about RemoteObjects: its types, which requests reach the object  *)
(* their own proxy created, and that a session leaks nothing.              *)
(*                                                                         *)
(* The argument: the one request that a client has sent is the call of the *)
(* thread that holds its mutex, and it is in exactly one place: on the     *)
(* wire, taken, or answered.  So while the connection lasts, a proxy that  *)
(* is not being destroyed has its object, and so has, when it is sent, a   *)
(* request that was serialised before: unless its proxy is a memory that   *)
(* the UI thread began to destroy since.  Once the connection is lost, no  *)
(* further request follows the one that is under way.                      *)
(***************************************************************************)
EXTENDS RemoteObjects, TLAPS

\* The mutex is held by the thread whose request was sent.
Holder ==
    /\ \A t \in Threads : pc[t] = "sent" => mutex[Of[t]] = t
    /\ \A c \in Clients : mutex[c] # None => Of[mutex[c]] = c /\ pc[mutex[c]] = "sent"

\* Where in its life a proxy is while the UI thread makes a call of it.
Stage(o) == IF o = "new" THEN "none" ELSE IF o = "delete" THEN "dying" ELSE "here"

\* r is a call that thread t makes: as the UI thread, or to read the memory.
Proper(t, r) ==
    /\ Of[t] = Owner[r.proxy]
    /\ r.op # "new" => r.obj = obj[r.proxy] /\ life[r.proxy] # "none"
    /\ \/ t # UI[Of[t]] /\ r.op = "method" /\ r.proxy \in Shared
       \/ t = UI[Of[t]] /\ life[r.proxy] = Stage(r.op)
Calls ==
    \A t \in Threads : /\ pc[t] \in {"lock", "sent"} <=> call[t] # None
                       /\ call[t] # None => Proper(t, call[t])

\* Only a proxy that is constructed has an object, and one whose methods are called does.
Shape ==
    \A p \in Proxies :
        /\ life[p] = "none" => obj[p] = None
        /\ life[p] \in {"here", "dying"} /\ ok[p] => obj[p] # None

\* The server's client, and those that have not connected.
Session ==
    /\ serving # None => conn[serving] # "new"
    /\ \A c \in Clients : conn[c] = "up" => serving = c
    /\ \A c \in Clients : conn[c] = "new" => wire[c] = None /\ answer[c] = None
    /\ \A t \in Threads : conn[Of[t]] = "new" => pc[t] = "idle"
    /\ \A p \in Proxies : conn[Owner[p]] = "new" => life[p] = "none"
    /\ \A a \in Addrs : objects[a] # None => conn[Owner[objects[a]]] # "new"

\* r is the call that c's mutex is held for.
Current(c, r) == mutex[c] # None /\ call[mutex[c]] = r

\* r finds the object of its proxy, or is a method of a memory that is destroyed.
Reaches(r) == r.op # "new" => objects[r.obj] = r.proxy \/ Stale(r)

OnWire ==
    \A c \in Clients : wire[c] # None =>
        /\ Owner[wire[c].proxy] = c /\ Reaches(wire[c])
        /\ conn[c] = "up" => Current(c, wire[c]) /\ answer[c] = None

Taken ==
    taken # None =>
        /\ serving = Owner[taken.proxy] /\ wire[serving] = None /\ Reaches(taken)
        /\ conn[serving] = "up" => Current(serving, taken) /\ answer[serving] = None

\* Answers of a connection that was lost may be left behind.
Replied ==
    \A c \in Clients : answer[c] # None =>
        /\ mutex[c] # None /\ call[mutex[c]].op = "new" => answer[c].obj # None
        /\ conn[c] = "up" =>
              LET r == call[mutex[c]]
                  a == answer[c].obj
              IN  /\ mutex[c] # None
                  /\ a # None => objects[a] = r.proxy /\ (r.op # "new" => a = r.obj)
                  /\ r.op = "delete" => a = None /\ objects[r.obj] # r.proxy

\* While the connection lasts a proxy has its object until the UI thread destroys it, and
\* a call that waits for the mutex finds it.
Kept ==
    /\ \A p \in Proxies :
          conn[Owner[p]] = "up" /\ life[p] = "here" /\ obj[p] # None => objects[obj[p]] = p
    /\ \A t \in Threads : conn[Of[t]] = "up" /\ pc[t] = "lock" => Reaches(call[t])

IInv == /\ TypeOK /\ Holder /\ Calls /\ Shape /\ Session /\ OnWire /\ Taken /\ Replied /\ Kept
        /\ NoLeakInSession

-----------------------------------------------------------------------------
\* The fields of a request.
LEMMA Fields ==
    ASSUME NEW r \in Request
    PROVE  /\ r # None /\ r.proxy \in Proxies /\ r.op \in Op
           /\ r.op = "new" => r.obj = None
           /\ r.op # "new" => r.obj \in Addrs
  <1>1. r # None BY NoneAssumption
  <1>2. CASE r \in [proxy : Proxies, op : {"new"}, obj : {None}] BY <1>1, <1>2 DEF Op
  <1>3. CASE r \in [proxy : Proxies, op : Op \ {"new"}, obj : Addrs] BY <1>1, <1>3 DEF Op
  <1> QED BY <1>2, <1>3 DEF Request

\* A request from its fields.
LEMMA IsRequest ==
    ASSUME NEW p \in Proxies, NEW o \in Op, NEW a \in Addrs \cup {None}, o = "new" <=> a = None
    PROVE  LET r == [proxy |-> p, op |-> o, obj |-> a]
           IN  r \in Request /\ r.proxy = p /\ r.op = o /\ r.obj = a
  BY ObjectsAssumption DEF Request

\* The field of an answer.
LEMMA AnswerField ==
    /\ \A r \in Answer : r # None /\ r.obj \in Addrs \cup {None}
    /\ \A a \in Addrs \cup {None} : [obj |-> a] \in Answer /\ [obj |-> a].obj = a
    /\ Done \in Answer /\ Done.obj = None /\ Done # None
  <1>1. \A r \in Answer : r # None BY NoneAssumption
  <1> QED BY <1>1 DEF Answer, Done

\* At first nobody is connected and there are no objects.
LEMMA InitIInv == Init => IInv
  <1> SUFFICES ASSUME Init PROVE IInv OBVIOUS
  <1> USE DEF Init
  <1>1. TypeOK BY ObjectsAssumption DEF TypeOK, Op
  <1>2. Holder /\ Calls /\ Shape /\ Session
    BY ObjectsAssumption DEF Holder, Calls, Shape, Session
  <1>3. OnWire /\ Taken /\ Replied /\ Kept
    BY ObjectsAssumption DEF OnWire, Taken, Replied, Kept
  <1>4. NoLeakInSession BY ObjectsAssumption DEF NoLeakInSession
  <1> QED BY <1>1, <1>2, <1>3, <1>4 DEF IInv

\* The server takes a client.
LEMMA ConnectIInv ==
    ASSUME IInv, NEW c \in Clients, Connect(c)
    PROVE  IInv'
  <1> USE ObjectsAssumption DEF IInv
  <1>1. TypeOK'
    BY Fields, AnswerField DEF Connect, server, links, threads, proxies, TypeOK
  <1>2. Holder'
    BY Fields, AnswerField DEF Connect, server, links, threads, proxies, Holder, TypeOK,
       Calls
  <1>3. Calls'
    BY Fields, AnswerField DEF Connect, server, links, threads, proxies, Calls, TypeOK,
       Proper, Holder, Shape, Session
  <1>4. Shape'
    BY Fields, AnswerField DEF Connect, server, links, threads, proxies, Shape, TypeOK,
       Holder, Calls, Proper, Stage
  <1>5. Session'
    BY Fields, AnswerField DEF Connect, server, links, threads, proxies, Session, TypeOK,
       Holder, Calls, Proper, Stage, Shape
  <1>6. OnWire'
    BY Fields, AnswerField DEF Connect, server, links, threads, proxies, OnWire, TypeOK,
       Current, Reaches, Stale, Holder, Calls, Proper, Stage, Shape, Session
  <1>7. Taken'
    BY Fields, AnswerField DEF Connect, server, links, threads, proxies, Taken, TypeOK,
       Current, Reaches, Stale, Holder, Calls, Proper, Stage, Shape, Session
  <1>8. Replied'
    BY Fields, AnswerField DEF Connect, server, links, threads, proxies, Replied, TypeOK,
       Holder, Calls, Proper, Stage, Shape, Session
  <1>9. Kept'
    BY Fields, AnswerField DEF Connect, server, links, threads, proxies, Kept, TypeOK,
       Reaches, Stale, Holder, Calls, Proper, Stage, Shape, Session
  <1>10. NoLeakInSession'
    BY Fields, AnswerField DEF Connect, server, links, threads, proxies, NoLeakInSession,
       TypeOK, Holder, Calls, Proper, Stage, Shape, Session
  <1> QED BY <1>1, <1>2, <1>3, <1>4, <1>5, <1>6, <1>7, <1>8, <1>9, <1>10

\* A connection is lost.
LEMMA LoseIInv ==
    ASSUME IInv, NEW c \in Clients, Lose(c)
    PROVE  IInv'
  <1> USE ObjectsAssumption DEF IInv
  <1>1. TypeOK'
    BY Fields, AnswerField DEF Lose, server, links, threads, proxies, TypeOK
  <1>2. Holder'
    BY Fields, AnswerField DEF Lose, server, links, threads, proxies, Holder, TypeOK, Calls
  <1>3. Calls'
    BY Fields, AnswerField DEF Lose, server, links, threads, proxies, Calls, TypeOK, Proper,
       Holder, Shape, Session
  <1>4. Shape'
    BY Fields, AnswerField DEF Lose, server, links, threads, proxies, Shape, TypeOK, Holder,
       Calls, Proper, Stage
  <1>5. Session'
    BY Fields, AnswerField DEF Lose, server, links, threads, proxies, Session, TypeOK,
       Holder, Calls, Proper, Stage, Shape
  <1>6. OnWire'
    BY Fields, AnswerField DEF Lose, server, links, threads, proxies, OnWire, TypeOK,
       Current, Reaches, Stale, Holder, Calls, Proper, Stage, Shape, Session
  <1>7. Taken'
    BY Fields, AnswerField DEF Lose, server, links, threads, proxies, Taken, TypeOK,
       Current, Reaches, Stale, Holder, Calls, Proper, Stage, Shape, Session
  <1>8. Replied'
    BY Fields, AnswerField DEF Lose, server, links, threads, proxies, Replied, TypeOK,
       Holder, Calls, Proper, Stage, Shape, Session
  <1>9. Kept'
    BY Fields, AnswerField DEF Lose, server, links, threads, proxies, Kept, TypeOK, Reaches,
       Stale, Holder, Calls, Proper, Stage, Shape, Session
  <1>10. NoLeakInSession'
    BY Fields, AnswerField DEF Lose, server, links, threads, proxies, NoLeakInSession,
       TypeOK, Holder, Calls, Proper, Stage, Shape, Session
  <1> QED BY <1>1, <1>2, <1>3, <1>4, <1>5, <1>6, <1>7, <1>8, <1>9, <1>10

\* A client ends.
LEMMA KillIInv ==
    ASSUME IInv, NEW c \in Clients, Kill(c)
    PROVE  IInv'
  <1> USE ObjectsAssumption DEF IInv
  <1>1. TypeOK'
    BY Fields, AnswerField DEF Kill, server, links, threads, proxies, TypeOK
  <1>2. Holder'
    BY Fields, AnswerField DEF Kill, server, links, threads, proxies, Holder, TypeOK, Calls
  <1>3. Calls'
    BY Fields, AnswerField DEF Kill, server, links, threads, proxies, Calls, TypeOK, Proper,
       Holder, Shape, Session
  <1>4. Shape'
    BY Fields, AnswerField DEF Kill, server, links, threads, proxies, Shape, TypeOK, Holder,
       Calls, Proper, Stage
  <1>5. Session'
    BY Fields, AnswerField DEF Kill, server, links, threads, proxies, Session, TypeOK,
       Holder, Calls, Proper, Stage, Shape
  <1>6. OnWire'
    BY Fields, AnswerField DEF Kill, server, links, threads, proxies, OnWire, TypeOK,
       Current, Reaches, Stale, Holder, Calls, Proper, Stage, Shape, Session
  <1>7. Taken'
    BY Fields, AnswerField DEF Kill, server, links, threads, proxies, Taken, TypeOK,
       Current, Reaches, Stale, Holder, Calls, Proper, Stage, Shape, Session
  <1>8. Replied'
    BY Fields, AnswerField DEF Kill, server, links, threads, proxies, Replied, TypeOK,
       Holder, Calls, Proper, Stage, Shape, Session
  <1>9. Kept'
    BY Fields, AnswerField DEF Kill, server, links, threads, proxies, Kept, TypeOK, Reaches,
       Stale, Holder, Calls, Proper, Stage, Shape, Session
  <1>10. NoLeakInSession'
    BY Fields, AnswerField DEF Kill, server, links, threads, proxies, NoLeakInSession,
       TypeOK, Holder, Calls, Proper, Stage, Shape, Session
  <1> QED BY <1>1, <1>2, <1>3, <1>4, <1>5, <1>6, <1>7, <1>8, <1>9, <1>10

\* A thread that is not in a call makes one.
LEMMA IssueIInv ==
    ASSUME IInv, NEW t \in Threads, NEW p \in Proxies, NEW o \in Op, Issue(t, p, o),
           conn[Of[t]] # "new", Of[t] = Owner[p], o = "new" <=> obj[p] = None,
           o = "new" <=> life[p] = "none",
           \/ t # UI[Of[t]] /\ o = "method" /\ p \in Shared /\ life[p] \in {"here", "dying"}
           \/ t = UI[Of[t]] /\ life[p] = IF o = "new" THEN "none" ELSE "here"
    PROVE  IInv'
  <1> USE ObjectsAssumption DEF IInv
  <1> DEFINE r == [proxy |-> p, op |-> o, obj |-> obj[p]]
  <1>r. r \in Request /\ r # None /\ r.proxy = p /\ r.op = o /\ r.obj = obj[p]
    BY IsRequest, Fields DEF TypeOK
  <1>u. /\ UNCHANGED <<objects, serving, taken, restarts, conn, wire, answer, mutex, obj>>
        /\ pc[t] = "idle"
    BY DEF Issue, server, links
  <1>q. r' = r BY <1>u
  <1>s. \/ /\ conn[Of[t]] = "up"
           /\ pc' = [pc EXCEPT ![t] = "lock"] /\ call' = [call EXCEPT ![t] = r]
           /\ life' = IF o = "delete" THEN [life EXCEPT ![p] = "dying"] ELSE life
           /\ ok' = ok
        \/ /\ conn[Of[t]] # "up" /\ pc' = pc /\ call' = call
           /\ ok' = [ok EXCEPT ![p] = FALSE]
           /\ life' = [life EXCEPT ![p] = IF o = "new" THEN "here" ELSE IF o = "delete" THEN "gone" ELSE @]
    BY <1>r DEF Issue, Over, threads
  <1> HIDE DEF r
  <1>l. /\ \A q \in Proxies : q # p => life'[q] = life[q] /\ ok'[q] = ok[q]
        /\ \A q \in Proxies : life[q] \in {"dying", "gone"} => life'[q] \in {"dying", "gone"}
        /\ \A q \in Proxies : life'[q] = "none" => life[q] = "none"
        /\ life' \in [Proxies -> {"none", "here", "dying", "gone"}]
        /\ o \notin {"new", "delete"} => life' = life
        /\ conn[Of[t]] = "up" => life'[p] = IF o = "delete" THEN "dying" ELSE life[p]
        /\ conn[Of[t]] # "up" => life'[p] # "none"
    BY <1>s DEF TypeOK
  <1>1. TypeOK'
    <2>1. pc' \in [Threads -> {"idle", "lock", "sent", "dead"}] BY <1>s DEF TypeOK
    <2>2. call' \in [Threads -> Request \cup {None}] BY <1>r, <1>s DEF TypeOK
    <2>3. ok' \in [Proxies -> BOOLEAN] 
      <3>1. CASE ok' = ok BY <3>1 DEF TypeOK
      <3>2. CASE ok' = [ok EXCEPT ![p] = FALSE] BY <3>2 DEF TypeOK
      <3> QED BY <1>s, <3>1, <3>2, Zenon
    <2> QED BY <1>l, <1>u, <2>1, <2>2, <2>3 DEF TypeOK
  <1>p. /\ \A v \in Threads : v # t => pc'[v] = pc[v] /\ call'[v] = call[v]
        /\ conn[Of[t]] = "up" => pc'[t] = "lock" /\ call'[t] = r
        /\ conn[Of[t]] # "up" => pc'[t] = "idle" /\ call'[t] = call[t]
    BY <1>s, <1>u DEF TypeOK
  <1>c. call[t] = None BY <1>u DEF Calls
  <1>2. Holder' BY <1>p, <1>u DEF Holder, TypeOK
  <1>3. Calls'
    <2>1. ASSUME NEW v \in Threads, v # t, call[v] # None PROVE Proper(v, call[v])'
      <3>1. call[v].proxy \in Proxies BY <2>1, Fields DEF TypeOK
      <3>2. Proper(v, call[v]) BY <2>1 DEF Calls
      <3>3. life'[call[v].proxy] # "none" \/ life[call[v].proxy] = "none" BY <1>l, <3>1
      <3>4. CASE v # UI[Of[v]] BY <1>l, <1>p, <1>u, <2>1, <3>1, <3>2, <3>4 DEF Proper
      <3>5. CASE v = UI[Of[v]]
        <4>1. call[v].proxy # p \/ life' = life BY <1>l, <2>1, <3>2, <3>5 DEF Proper
        <4> QED BY <1>l, <1>p, <1>u, <2>1, <3>1, <3>2, <3>5, <4>1 DEF Proper
      <3> QED BY <3>4, <3>5
    <2>2. ASSUME conn[Of[t]] = "up" PROVE Proper(t, r)'
      BY <1>l, <1>q, <1>r, <1>u, <2>2 DEF Proper, Stage
    <2> QED BY <1>c, <1>p, <1>q, <1>r, <2>1, <2>2 DEF Calls
  <1>4. Shape'
    <2>1. ASSUME NEW q \in Proxies, life'[q] = "none" PROVE obj'[q] = None
      BY <1>l, <1>u, <2>1 DEF Shape
    <2>2. ASSUME NEW q \in Proxies, life'[q] \in {"here", "dying"}, ok'[q] PROVE obj'[q] # None
      BY <1>l, <1>s, <1>u, <2>2 DEF Shape, TypeOK
    <2> QED BY <2>1, <2>2 DEF Shape
  <1>5. Session' BY <1>l, <1>p, <1>u DEF Session, TypeOK
  <1>k. \A q \in Request : Reaches(q) => Reaches(q)' BY <1>l, <1>u, Fields DEF Reaches, Stale
  <1>6. OnWire'
    <2>1. ASSUME NEW c \in Clients, wire[c] # None, conn[c] = "up" PROVE call'[mutex[c]] = call[mutex[c]]
      <3>1. mutex[c] \in Threads /\ pc[mutex[c]] = "sent" BY <2>1 DEF OnWire, Current, Holder, TypeOK
      <3> QED BY <1>p, <1>u, <3>1
    <2> QED BY <1>k, <1>u, <2>1, Fields DEF OnWire, Current, TypeOK
  <1>7. Taken'
    <2>1. ASSUME taken # None, conn[serving] = "up" PROVE call'[mutex[serving]] = call[mutex[serving]]
      <3>1. serving \in Clients BY <2>1, Fields DEF Taken, TypeOK
      <3>2. mutex[serving] \in Threads /\ pc[mutex[serving]] = "sent" BY <2>1, <3>1 DEF Taken, Current, Holder, TypeOK
      <3> QED BY <1>p, <1>u, <3>2
    <2> QED BY <1>k, <1>u, <2>1, Fields DEF Taken, Current, TypeOK
  <1>8. Replied'
    <2>1. ASSUME NEW c \in Clients, mutex[c] # None PROVE call'[mutex[c]] = call[mutex[c]]
      <3>1. mutex[c] \in Threads /\ pc[mutex[c]] = "sent" BY <2>1 DEF Holder, TypeOK
      <3> QED BY <1>p, <1>u, <3>1
    <2> QED BY <1>u, <2>1 DEF Replied
  <1>9. Kept'
    <2>1. ASSUME NEW q \in Proxies, conn[Owner[q]] = "up", life'[q] = "here", obj[q] # None PROVE objects[obj[q]] = q
      <3>1. life[q] = "here" BY <1>l, <2>1 DEF Shape
      <3> QED BY <2>1, <3>1 DEF Kept
    <2>2. ASSUME NEW v \in Threads, v # t, conn[Of[v]] = "up", pc[v] = "lock" PROVE Reaches(call[v])'
      <3>1. call[v] \in Request /\ Reaches(call[v]) BY <2>2 DEF Calls, Kept, TypeOK
      <3>2. call'[v] = call[v] BY <1>p, <2>2
      <3> QED BY <1>k, <3>1, <3>2 DEF Reaches, Stale
    <2>3. ASSUME conn[Of[t]] = "up" PROVE Reaches(r)'
      <3>1. CASE o = "new" BY <1>q, <1>r, <3>1 DEF Reaches
      <3>2. CASE o # "new" /\ life[p] = "here"
        BY <1>q, <1>r, <1>u, <2>3, <3>2 DEF Kept, Reaches
      <3>3. CASE o # "new" /\ life[p] # "here"
        <4>1. o = "method" /\ p \in Shared /\ life'[p] \in {"dying", "gone"} BY <1>l, <3>3
        <4> QED BY <1>q, <1>r, <4>1 DEF Reaches, Stale
      <3> QED BY <3>1, <3>2, <3>3
    <2> QED BY <1>p, <1>q, <1>u, <2>1, <2>2, <2>3 DEF Kept
  <1>10. NoLeakInSession'
    <2>1. ASSUME NEW a \in Addrs, objects[a] # None, conn[Owner[objects[a]]] = "up"
          PROVE  life'[objects[a]] # "gone"
      <3>1. objects[a] \in Proxies BY <2>1 DEF TypeOK
      <3>2. life[objects[a]] # "gone" BY <2>1 DEF NoLeakInSession
      <3> QED BY <1>l, <2>1, <3>1, <3>2 DEF TypeOK
    <2> QED BY <1>u, <2>1 DEF NoLeakInSession
  <1> QED BY <1>1, <1>2, <1>3, <1>4, <1>5, <1>6, <1>7, <1>8, <1>9, <1>10

\* The calls that the UI thread makes.
LEMMA CallsIInv ==
    ASSUME IInv, NEW p \in Proxies, Construct(p) \/ Method(p) \/ Update(p) \/ Destroy(p)
    PROVE  IInv'
  <1> DEFINE t == UI[Owner[p]]
  <1>0. {"new", "method", "update", "delete"} \subseteq Op BY DEF Op
  <1>1. t \in Threads /\ Of[t] = Owner[p] /\ t = UI[Of[t]] BY ObjectsAssumption
  <1>2. conn[Owner[p]] = "new" => life[p] = "none" BY DEF IInv, Session
  <1> HIDE DEF t
  <1>3. CASE Construct(p)
    <2>1. Issue(t, p, "new") /\ life[p] = "none" /\ conn[Owner[p]] # "new" BY <1>3 DEF Construct, t
    <2>2. obj[p] = None BY <2>1 DEF IInv, Shape
    <2> QED BY <1>0, <1>1, <2>1, <2>2, IssueIInv
  <1>4. CASE Method(p)
    <2>1. Issue(t, p, "method") /\ life[p] = "here" /\ ok[p] BY <1>4 DEF Method, t
    <2>2. obj[p] # None BY <2>1 DEF IInv, Shape
    <2> QED BY <1>0, <1>1, <1>2, <2>1, <2>2, IssueIInv
  <1>5. CASE Update(p)
    <2>1. Issue(t, p, "update") /\ life[p] = "here" /\ ok[p] BY <1>5 DEF Update, t
    <2>2. obj[p] # None BY <2>1 DEF IInv, Shape
    <2> QED BY <1>0, <1>1, <1>2, <2>1, <2>2, IssueIInv
  <1>6. CASE Destroy(p) /\ obj[p] # None
    <2>1. Issue(t, p, "delete") /\ life[p] = "here" BY <1>6 DEF Destroy, t
    <2> QED BY <1>0, <1>1, <1>2, <1>6, <2>1, IssueIInv
  <1>7. CASE Destroy(p) /\ obj[p] = None
    <2>1. life[p] = "here" /\ life' = [life EXCEPT ![p] = "gone"] /\ pc[t] = "idle"
          /\ UNCHANGED <<objects, serving, taken, restarts, conn, wire, answer, mutex, pc, call, obj, ok>>
      BY <1>7 DEF Destroy, server, links, threads, t
    <2> USE ObjectsAssumption DEF IInv
    <2>2. TypeOK' BY <2>1 DEF TypeOK
    <2>3. Holder' BY <2>1 DEF Holder
    <2>4. Calls'
      <3>1. ASSUME NEW v \in Threads, call[v] # None PROVE Proper(v, call[v])'
        <4>1. call[v].proxy \in Proxies /\ call[v].op \in Op /\ Proper(v, call[v]) /\ call[v] \in Request
          BY <3>1, Fields DEF Calls, TypeOK
        <4>2. CASE call[v].proxy = p
          <5>1. v # UI[Of[v]]
            <6>1. pc[v] # "idle" BY <3>1 DEF Calls
            <6>2. Of[v] = Owner[p] BY <4>1, <4>2 DEF Proper
            <6> QED BY <2>1, <6>1, <6>2 DEF t
          <5> QED BY <2>1, <4>1, <5>1 DEF Proper, TypeOK
        <4>3. CASE call[v].proxy # p BY <2>1, <4>1, <4>3 DEF Proper, TypeOK
        <4> QED BY <4>2, <4>3
      <3> QED BY <2>1, <3>1 DEF Calls, Proper
    <2>5. Shape' BY <2>1 DEF TypeOK, Shape
    <2>6. Session' BY <1>2, <2>1 DEF TypeOK, Session
    <2>7. \A q \in Request : Reaches(q) => Reaches(q)' BY <2>1, Fields DEF Reaches, Stale, TypeOK
    <2>8. OnWire' BY <2>1, <2>7 DEF OnWire, Current, TypeOK
    <2>9. Taken' BY <2>1, <2>7 DEF Taken, Current, TypeOK
    <2>10. Replied' BY <2>1 DEF Replied
    <2>11. Kept' BY <2>1, <2>7 DEF TypeOK, Kept, Calls
    <2>12. NoLeakInSession'
      <3>1. ASSUME NEW a \in Addrs, objects[a] = p, conn[Owner[p]] = "up" PROVE FALSE
        <4>1. answer[Owner[p]] = [obj |-> a] BY <1>7, <3>1 DEF NoLeakInSession
        <4>2. answer[Owner[p]] # None /\ answer[Owner[p]].obj = a /\ a # None BY <4>1, AnswerField
        <4> DEFINE v == mutex[Owner[p]]
        <4>3. v # None /\ objects[a] = call[v].proxy /\ (call[v].op # "new" => a = call[v].obj)
          BY <3>1, <4>2 DEF Replied
        <4>4. v \in Threads /\ pc[v] = "sent" /\ Of[v] = Owner[p] BY <4>3 DEF Holder, TypeOK
        <4>5. call[v] # None /\ Proper(v, call[v]) BY <4>4 DEF Calls
        <4>6. call[v].proxy = p BY <3>1, <4>3
        <4> HIDE DEF v
        <4>7. v # UI[Of[v]] BY <2>1, <4>4 DEF t
        <4>8. call[v].op = "method" /\ call[v].obj = obj[p] BY <4>5, <4>6, <4>7 DEF Proper
        <4> QED BY <1>7, <4>2, <4>3, <4>8
      <3> QED BY <2>1, <3>1 DEF NoLeakInSession, TypeOK
    <2> QED BY <2>2, <2>3, <2>4, <2>5, <2>6, <2>8, <2>9, <2>10, <2>11, <2>12
  <1> QED BY <1>3, <1>4, <1>5, <1>6, <1>7

\* A search thread reads the memory.
LEMMA SearchMethodIInv ==
    ASSUME IInv, NEW t \in Threads, NEW p \in Proxies, SearchMethod(t, p)
    PROVE  IInv'
  <1>1. /\ Issue(t, p, "method") /\ p \in Shared /\ Of[t] = Owner[p] /\ t # UI[Of[t]]
        /\ life[p] \in {"here", "dying"} /\ ok[p]
    BY DEF SearchMethod
  <1>2. obj[p] # None /\ conn[Owner[p]] # "new" BY <1>1 DEF IInv, Shape, Session
  <1> QED BY <1>1, <1>2, IssueIInv DEF Op

\* The request is written.
LEMMA LockIInv ==
    ASSUME IInv, NEW t \in Threads, Lock(t)
    PROVE  IInv'
  <1> USE ObjectsAssumption DEF IInv
  <1>1. TypeOK'
    BY Fields, AnswerField DEF Lock, server, links, threads, proxies, TypeOK
  <1>2. Holder'
    <2>1. /\ mutex' = [mutex EXCEPT ![Of[t]] = t] /\ pc' = [pc EXCEPT ![t] = "sent"]
          /\ Of[t] \in Clients /\ mutex[Of[t]] = None /\ t # None
      BY DEF Lock
    <2>2. \A v \in Threads : Of[v] = Of[t] => pc[v] # "sent" BY <2>1 DEF Holder
    <2> QED BY <2>1, <2>2 DEF Holder, TypeOK
  <1>3. Calls'
    BY Fields, AnswerField DEF Lock, server, links, threads, proxies, Calls, TypeOK, Proper,
       Holder, Shape, Session
  <1>4. Shape'
    BY Fields, AnswerField DEF Lock, server, links, threads, proxies, Shape, TypeOK, Holder,
       Calls, Proper, Stage
  <1>5. Session'
    BY Fields, AnswerField DEF Lock, server, links, threads, proxies, Session, TypeOK,
       Holder, Calls, Proper, Stage, Shape
  <1>6. OnWire'
    <2>1. /\ call[t] \in Request /\ Reaches(call[t]) /\ Owner[call[t].proxy] = Of[t]
          /\ mutex[Of[t]] = None
      BY DEF Lock, Calls, Kept, Proper, TypeOK
    <2>2. answer[Of[t]] = None BY <2>1 DEF Lock, Replied
    <2>3. \A r \in Request : Reaches(r)' <=> Reaches(r)
      BY DEF Lock, server, proxies, Reaches, Stale
    <2>4. /\ wire'[Of[t]] = call[t] /\ mutex'[Of[t]] = t /\ t # None
          /\ \A c \in Clients \ {Of[t]} : wire'[c] = wire[c] /\ mutex'[c] = mutex[c]
          /\ UNCHANGED <<conn, answer, call>>
      BY DEF Lock, TypeOK
    <2> QED BY <2>1, <2>2, <2>3, <2>4 DEF OnWire, Current, TypeOK
  <1>7. Taken'
    BY Fields, AnswerField DEF Lock, server, links, threads, proxies, Taken, TypeOK,
       Current, Reaches, Stale, Holder, Calls, Proper, Stage, Shape, Session
  <1>8. Replied'
    BY Fields, AnswerField DEF Lock, server, links, threads, proxies, Replied, TypeOK,
       Holder, Calls, Proper, Stage, Shape, Session
  <1>9. Kept'
    BY Fields, AnswerField DEF Lock, server, links, threads, proxies, Kept, TypeOK, Reaches,
       Stale, Holder, Calls, Proper, Stage, Shape, Session
  <1>10. NoLeakInSession'
    BY Fields, AnswerField DEF Lock, server, links, threads, proxies, NoLeakInSession,
       TypeOK, Holder, Calls, Proper, Stage, Shape, Session
  <1> QED BY <1>1, <1>2, <1>3, <1>4, <1>5, <1>6, <1>7, <1>8, <1>9, <1>10

\* The answer is read.
LEMMA ReturnIInv ==
    ASSUME IInv, NEW t \in Threads, Return(t)
    PROVE  IInv'
  <1> USE ObjectsAssumption DEF IInv
  <1> DEFINE c == Of[t]
             r == call[t]
             p == r.proxy
             b == answer[c].obj
  <1>r. /\ r \in Request /\ r # None /\ p \in Proxies /\ r.op \in Op
        /\ r.op = "new" => r.obj = None
        /\ r.op # "new" => r.obj \in Addrs
    BY Fields DEF Return, Calls, TypeOK
  <1>c. c \in Clients /\ pc[t] = "sent" /\ mutex[c] = t /\ t # None /\ Proper(t, r)
    BY <1>r DEF Return, Holder, Calls
  <1>a. /\ answer[c] # None /\ answer[c] \in Answer /\ b \in Addrs \cup {None}
        /\ r.op = "new" => b # None
        /\ conn[c] = "up" =>
              /\ b # None => objects[b] = p /\ (r.op # "new" => b = r.obj)
              /\ r.op = "delete" => b = None /\ objects[r.obj] # p
    BY <1>c, AnswerField DEF Return, Replied, TypeOK
  <1> DEFINE again == [proxy |-> p, op |-> "get", obj |-> obj[p]]
  <1>u. /\ UNCHANGED <<objects, serving, taken, restarts, conn, wire>>
        /\ answer' = [answer EXCEPT ![c] = None]
        /\ mutex' = [mutex EXCEPT ![c] = None]
        /\ obj' = IF r.op = "new" THEN [obj EXCEPT ![p] = b] ELSE obj
    BY DEF Return, server
  <1>s. \/ /\ r.op = "update"
           /\ pc' = [pc EXCEPT ![t] = "lock"] /\ call' = [call EXCEPT ![t] = again]
           /\ life' = life /\ ok' = ok
        \/ /\ r.op # "update"
           /\ pc' = [pc EXCEPT ![t] = "idle"] /\ call' = [call EXCEPT ![t] = None]
           /\ ok' = [ok EXCEPT ![p] = TRUE]
           /\ life' = [life EXCEPT ![p] = IF r.op = "new" THEN "here"
                                          ELSE IF r.op = "delete" THEN "gone" ELSE @]
    BY DEF Return, Over
  <1>p. Of[t] = Owner[p] /\ (r.op # "new" => r.obj = obj[p] /\ life[p] # "none")
    BY <1>c DEF Proper
  <1>n. r.op = "new" => life[p] = "none" /\ obj[p] = None
    BY <1>c, <1>r DEF Proper, Stage, Shape
  <1>g. r.op = "update" => /\ t = UI[Of[t]] /\ life[p] = "here" /\ obj[p] \in Addrs
                           /\ again \in Request /\ again # None /\ again.proxy = p
                           /\ again.op = "get" /\ again.obj = obj[p]
    <2>1. r.op = "update" => t = UI[Of[t]] /\ life[p] = "here" /\ obj[p] \in Addrs /\ obj[p] # None
      BY <1>c, <1>p, <1>r DEF Proper, Stage
    <2>2. "get" \in Op BY DEF Op
    <2>3. r.op = "update" => again \in Request /\ again.proxy = p /\ again.op = "get" /\ again.obj = obj[p]
      BY <1>r, <2>1, <2>2, IsRequest
    <2> QED BY <2>1, <2>3, Fields
  <1> HIDE DEF c, r, p, b, again
  <1>l. /\ \A q \in Proxies : q # p => life'[q] = life[q] /\ ok'[q] = ok[q] /\ obj'[q] = obj[q]
        /\ r.op # "new" => obj' = obj
        /\ r.op = "new" => obj'[p] = b
        /\ \A q \in Proxies : life[q] \in {"dying", "gone"} => life'[q] \in {"dying", "gone"}
        /\ life'[p] = IF r.op = "new" THEN "here" ELSE IF r.op = "delete" THEN "gone" ELSE life[p]
        /\ life' \in [Proxies -> {"none", "here", "dying", "gone"}]
        /\ r.op \notin {"new", "delete"} => life' = life
    BY <1>n, <1>r, <1>s, <1>u DEF TypeOK
  <1>k. /\ \A v \in Threads : v # t => pc'[v] = pc[v] /\ call'[v] = call[v]
        /\ \/ pc'[t] = "lock" /\ call'[t] = again /\ r.op = "update"
           \/ pc'[t] = "idle" /\ call'[t] = None
    BY <1>s DEF TypeOK
  <1>e. \A q \in Request : Reaches(q) => Reaches(q)'
    BY <1>l, <1>u, Fields DEF Reaches, Stale
  <1>1. TypeOK'
    <2>1. call' \in [Threads -> Request \cup {None}] BY <1>g, <1>s DEF TypeOK
    <2>2. pc' \in [Threads -> {"idle", "lock", "sent", "dead"}] BY <1>s DEF TypeOK
    <2>3. obj' \in [Proxies -> Addrs \cup {None}] BY <1>a, <1>u DEF TypeOK
    <2>4. ok' \in [Proxies -> BOOLEAN]
      <3>1. CASE ok' = ok BY <3>1 DEF TypeOK
      <3>2. CASE ok' = [ok EXCEPT ![p] = TRUE] BY <3>2 DEF TypeOK
      <3> QED BY <1>s, <3>1, <3>2, Zenon
    <2> QED BY <1>l, <1>u, <2>1, <2>2, <2>3, <2>4 DEF TypeOK
  <1>2. Holder' BY <1>c, <1>k, <1>u DEF Holder, TypeOK, c
  <1>3. Calls'
    <2>1. ASSUME NEW v \in Threads, v # t, call[v] # None PROVE Proper(v, call[v])'
      <3>1. call[v].proxy \in Proxies /\ Proper(v, call[v]) /\ call'[v] = call[v]
        BY <1>k, <2>1, Fields DEF Calls, TypeOK
      <3>2. CASE call[v].proxy # p BY <1>l, <3>1, <3>2 DEF Proper
      <3>3. CASE call[v].proxy = p /\ v # UI[Of[v]]
        <4>1. call[v].op = "method" /\ r.op # "new" BY <1>n, <3>1, <3>3 DEF Proper
        <4>2. life'[p] # "none" BY <1>l, <1>p, <4>1
        <4> QED BY <1>l, <3>1, <3>3, <4>1, <4>2 DEF Proper
      <3>4. CASE call[v].proxy = p /\ v = UI[Of[v]]
        <4>1. r.op = "method" BY <1>c, <1>p, <2>1, <3>1, <3>4 DEF Proper, c, r
        <4> QED BY <1>l, <3>1, <4>1 DEF Proper
      <3> QED BY <3>2, <3>3, <3>4
    <2>2. ASSUME call'[t] = again, r.op = "update" PROVE Proper(t, call[t])'
      BY <1>g, <1>l, <1>p, <2>2 DEF Proper, Stage
    <2> QED BY <1>g, <1>k, <2>1, <2>2 DEF Calls
  <1>4. Shape'
    <2>1. ASSUME NEW q \in Proxies, q # p
          PROVE  /\ life'[q] = "none" => obj'[q] = None
                 /\ life'[q] \in {"here", "dying"} /\ ok'[q] => obj'[q] # None
      BY <1>l, <2>1 DEF Shape
    <2>2. life'[p] # "none" BY <1>l, <1>p
    <2>3. obj'[p] # None BY <1>a, <1>l, <1>p, <1>r
    <2> QED BY <2>1, <2>2, <2>3 DEF Shape
  <1>5. Session' BY <1>c, <1>l, <1>k, <1>p, <1>u DEF Session, TypeOK, c
  <1>m. \A d \in Clients \ {c} : /\ mutex'[d] = mutex[d] /\ answer'[d] = answer[d]
                                /\ mutex[d] # None => call'[mutex[d]] = call[mutex[d]]
    BY <1>k, <1>u DEF Holder, TypeOK, c
  <1>w. conn[c] = "up" => wire[c] = None /\ (taken # None => serving # c)
    BY <1>a, <1>c DEF OnWire, Taken
  <1>6. OnWire'
    <2>1. ASSUME NEW d \in Clients, wire[d] # None
          PROVE  Owner[wire[d].proxy] = d /\ Reaches(wire[d])'
      BY <1>e, <1>u, <2>1 DEF OnWire, TypeOK, Reaches, Stale
    <2>2. ASSUME NEW d \in Clients, d # c, wire[d] # None, conn[d] = "up"
          PROVE  Current(d, wire[d])' /\ answer'[d] = None
      BY <1>m, <1>u, <2>2 DEF OnWire, Current
    <2> QED BY <1>u, <1>w, <2>1, <2>2 DEF OnWire
  <1>7. Taken'
    <2>1. ASSUME taken # None
          PROVE  serving = Owner[taken.proxy] /\ wire[serving] = None /\ Reaches(taken)'
      BY <1>e, <1>u, <2>1 DEF Taken, TypeOK, Reaches, Stale
    <2>2. ASSUME taken # None, conn[serving] = "up"
          PROVE  Current(serving, taken)' /\ answer'[serving] = None
      <3>1. serving \in Clients \ {c} BY <1>w, <2>2, Fields DEF Taken, TypeOK
      <3> QED BY <1>m, <1>u, <2>2, <3>1 DEF Taken, Current
    <2> QED BY <1>u, <2>1, <2>2 DEF Taken
  <1>8. Replied' BY <1>c, <1>m, <1>u DEF Replied, TypeOK
  <1>9. Kept'
    <2>1. ASSUME NEW q \in Proxies, conn[Owner[q]] = "up", life'[q] = "here", obj'[q] # None
          PROVE  objects[obj'[q]] = q
      <3>1. CASE q = p /\ r.op = "new" BY <1>a, <1>l, <1>p, <2>1, <3>1 DEF c
      <3>2. CASE q # p \/ r.op # "new" BY <1>l, <2>1, <3>2 DEF Kept
      <3> QED BY <3>1, <3>2
    <2>2. ASSUME NEW v \in Threads, v # t, conn[Of[v]] = "up", pc[v] = "lock"
          PROVE  Reaches(call[v])'
      <3>1. call[v] \in Request /\ Reaches(call[v]) BY <2>2 DEF Calls, Kept, TypeOK
      <3> QED BY <1>e, <1>k, <2>2, <3>1 DEF Reaches, Stale
    <2>3. ASSUME conn[Of[t]] = "up", call'[t] = again, r.op = "update" PROVE Reaches(call[t])'
      <3>1. objects[obj[p]] = p BY <1>g, <1>p, <1>r, <2>3 DEF Kept
      <3> QED BY <1>g, <1>u, <2>3, <3>1 DEF Reaches
    <2> QED BY <1>k, <1>u, <2>1, <2>2, <2>3 DEF Kept
  <1>10. NoLeakInSession'
    <2>1. ASSUME NEW a \in Addrs, objects[a] # None, conn[Owner[objects[a]]] = "up"
          PROVE  LET q == objects[a] IN
                 life'[q] # "gone" /\ (obj'[q] = a \/ answer'[Owner[q]] = [obj |-> a])
      <3> DEFINE q == objects[a]
      <3>1. q \in Proxies /\ a # None BY <2>1 DEF TypeOK
      <3>2. life[q] # "gone" /\ (obj[q] = a \/ answer[Owner[q]] = [obj |-> a])
        BY <2>1 DEF NoLeakInSession
      <3>3. q = objects[a] /\ conn[Owner[q]] = "up" BY <2>1
      <3> HIDE DEF q
      <3> SUFFICES life'[q] # "gone" /\ (obj'[q] = a \/ answer'[Owner[q]] = [obj |-> a]) BY DEF q
      <3>4. CASE Owner[q] # c
        <4>1. q # p /\ answer'[Owner[q]] = answer[Owner[q]] BY <1>p, <1>u, <3>1, <3>4 DEF TypeOK, c
        <4> QED BY <1>l, <3>1, <3>2, <4>1
      <3>5. CASE Owner[q] = c
        <4>1. answer[c] = [obj |-> a] => b = a BY <3>1, AnswerField DEF b
        <4>2. b = a => p = q /\ (r.op # "new" => obj[p] = a)
          BY <1>a, <1>p, <3>1, <3>3, <3>5
        <4>3. obj'[q] = a BY <1>l, <1>n, <3>1, <3>2, <3>5, <4>1, <4>2
        <4>4. ~(q = p /\ r.op = "delete")
          BY <1>a, <1>p, <3>1, <3>2, <3>3, <3>5, <4>1
        <4> QED BY <1>l, <3>1, <3>2, <4>3, <4>4
      <3> QED BY <3>4, <3>5
    <2> QED BY <1>u, <2>1 DEF NoLeakInSession
  <1> QED BY <1>1, <1>2, <1>3, <1>4, <1>5, <1>6, <1>7, <1>8, <1>9, <1>10

\* A read or a write of a call fails.
LEMMA CallFailsIInv ==
    ASSUME IInv, NEW t \in Threads, CallFails(t)
    PROVE  IInv'
  <1> USE ObjectsAssumption DEF IInv
  <1>1. TypeOK'
    BY Fields, AnswerField DEF CallFails, Over, server, links, threads, proxies, TypeOK
  <1>2. Holder'
    BY Fields, AnswerField DEF CallFails, Over, server, links, threads, proxies, Holder,
       TypeOK, Calls
  <1>3. Calls'
    BY Fields, AnswerField DEF CallFails, Over, server, links, threads, proxies, Calls,
       TypeOK, Proper, Holder, Shape, Session
  <1>4. Shape'
    BY Fields, AnswerField DEF CallFails, Over, server, links, threads, proxies, Shape,
       TypeOK, Holder, Calls, Proper, Stage
  <1>5. Session'
    BY Fields, AnswerField DEF CallFails, Over, server, links, threads, proxies, Session,
       TypeOK, Holder, Calls, Proper, Stage, Shape
  <1>6. OnWire'
    BY Fields, AnswerField DEF CallFails, Over, server, links, threads, proxies, OnWire,
       TypeOK, Current, Reaches, Stale, Holder, Calls, Proper, Stage, Shape, Session
  <1>7. Taken'
    BY Fields, AnswerField DEF CallFails, Over, server, links, threads, proxies, Taken,
       TypeOK, Current, Reaches, Stale, Holder, Calls, Proper, Stage, Shape, Session
  <1>8. Replied'
    BY Fields, AnswerField DEF CallFails, Over, server, links, threads, proxies, Replied,
       TypeOK, Holder, Calls, Proper, Stage, Shape, Session
  <1>9. Kept'
    BY Fields, AnswerField DEF CallFails, Over, server, links, threads, proxies, Kept,
       TypeOK, Reaches, Stale, Holder, Calls, Proper, Stage, Shape, Session
  <1>10. NoLeakInSession'
    BY Fields, AnswerField DEF CallFails, Over, server, links, threads, proxies,
       NoLeakInSession, TypeOK, Holder, Calls, Proper, Stage, Shape, Session
  <1> QED BY <1>1, <1>2, <1>3, <1>4, <1>5, <1>6, <1>7, <1>8, <1>9, <1>10

\* The server reads a request.
LEMMA TakeIInv ==
    ASSUME IInv, Take
    PROVE  IInv'
  <1> USE ObjectsAssumption DEF IInv
  <1>1. TypeOK'
    BY Fields, AnswerField DEF Take, server, links, threads, proxies, TypeOK
  <1>2. Holder'
    BY Fields, AnswerField DEF Take, server, links, threads, proxies, Holder, TypeOK, Calls,
       OnWire, Current
  <1>3. Calls'
    BY Fields, AnswerField DEF Take, server, links, threads, proxies, Calls, TypeOK, Proper,
       Holder, Shape, Session, OnWire, Current
  <1>4. Shape'
    BY Fields, AnswerField DEF Take, server, links, threads, proxies, Shape, TypeOK, Holder,
       Calls, Proper, Stage, OnWire, Current
  <1>5. Session'
    BY Fields, AnswerField DEF Take, server, links, threads, proxies, Session, TypeOK,
       Holder, Calls, Proper, Stage, Shape, OnWire, Current
  <1>6. OnWire'
    BY Fields, AnswerField DEF Take, server, links, threads, proxies, OnWire, TypeOK,
       Current, Reaches, Stale, Holder, Calls, Proper, Stage, Shape, Session
  <1>7. Taken'
    BY Fields, AnswerField DEF Take, server, links, threads, proxies, Taken, TypeOK,
       Current, Reaches, Stale, Holder, Calls, Proper, Stage, Shape, Session, OnWire
  <1>8. Replied'
    BY Fields, AnswerField DEF Take, server, links, threads, proxies, Replied, TypeOK,
       Holder, Calls, Proper, Stage, Shape, Session, OnWire, Current
  <1>9. Kept'
    BY Fields, AnswerField DEF Take, server, links, threads, proxies, Kept, TypeOK, Reaches,
       Stale, Holder, Calls, Proper, Stage, Shape, Session, OnWire, Current
  <1>10. NoLeakInSession'
    BY Fields, AnswerField DEF Take, server, links, threads, proxies, NoLeakInSession,
       TypeOK, Holder, Calls, Proper, Stage, Shape, Session, OnWire, Current
  <1> QED BY <1>1, <1>2, <1>3, <1>4, <1>5, <1>6, <1>7, <1>8, <1>9, <1>10

\* new_remote.
LEMMA ExecNewIInv ==
    ASSUME IInv, ExecNew
    PROVE  IInv'
  <1> USE ObjectsAssumption DEF IInv
  <1>1. TypeOK'
    <2>1. PICK a \in Addrs : objects' = [objects EXCEPT ![a] = taken.proxy] /\ Reply([obj |-> a])
      BY DEF ExecNew
    <2>2. taken.proxy \in Proxies /\ serving \in Clients BY Fields DEF ExecNew, Taken, TypeOK
    <2>3. answer' \in [Clients -> Answer \cup {None}] BY <2>1, <2>2, AnswerField DEF Reply, TypeOK
    <2> QED BY <2>1, <2>2, <2>3 DEF ExecNew, Served, threads, proxies, TypeOK
  <1>2. Holder'
    BY Fields, AnswerField DEF ExecNew, Reply, Served, server, links, threads, proxies,
       Holder, TypeOK, Calls, Taken, Current, OnWire
  <1>3. Calls'
    BY Fields, AnswerField DEF ExecNew, Reply, Served, server, links, threads, proxies,
       Calls, TypeOK, Proper, Holder, Shape, Session, Taken, Current, OnWire
  <1>4. Shape'
    BY Fields, AnswerField DEF ExecNew, Reply, Served, server, links, threads, proxies,
       Shape, TypeOK, Holder, Calls, Proper, Stage, Taken, Current, OnWire
  <1>5. Session'
    BY Fields, AnswerField DEF ExecNew, Reply, Served, server, links, threads, proxies,
       Session, TypeOK, Holder, Calls, Proper, Stage, Shape, Taken, Current, OnWire
  <1>6. OnWire'
    BY Fields, AnswerField DEF ExecNew, Reply, Served, server, links, threads, proxies,
       OnWire, TypeOK, Current, Reaches, Stale, Holder, Calls, Proper, Stage, Shape,
       Session, Taken
  <1>7. Taken'
    BY Fields, AnswerField DEF ExecNew, Reply, Served, server, links, threads, proxies,
       Taken, TypeOK, Current, Reaches, Stale, Holder, Calls, Proper, Stage, Shape, Session,
       OnWire
  <1>8. Replied'
    BY Fields, AnswerField DEF ExecNew, Reply, Served, server, links, threads, proxies,
       Replied, TypeOK, Holder, Calls, Proper, Stage, Shape, Session, Taken, Current, OnWire
  <1>9. Kept'
    BY Fields, AnswerField DEF ExecNew, Reply, Served, server, links, threads, proxies,
       Kept, TypeOK, Reaches, Stale, Holder, Calls, Proper, Stage, Shape, Session, Taken,
       Current, OnWire
  <1>10. NoLeakInSession'
    BY Fields, AnswerField DEF ExecNew, Reply, Served, server, links, threads, proxies,
       NoLeakInSession, TypeOK, Holder, Calls, Proper, Stage, Shape, Session, Taken,
       Current, OnWire
  <1> QED BY <1>1, <1>2, <1>3, <1>4, <1>5, <1>6, <1>7, <1>8, <1>9, <1>10

\* A registered method.
LEMMA ExecMethodIInv ==
    ASSUME IInv, ExecMethod
    PROVE  IInv'
  <1> USE ObjectsAssumption DEF IInv
  <1>1. TypeOK'
    BY Fields, AnswerField DEF ExecMethod, Reply, Served, server, links, threads, proxies,
       TypeOK
  <1>2. Holder'
    BY Fields, AnswerField DEF ExecMethod, Reply, Served, server, links, threads, proxies,
       Holder, TypeOK, Calls, Taken, Current, OnWire
  <1>3. Calls'
    BY Fields, AnswerField DEF ExecMethod, Reply, Served, server, links, threads, proxies,
       Calls, TypeOK, Proper, Holder, Shape, Session, Taken, Current, OnWire
  <1>4. Shape'
    BY Fields, AnswerField DEF ExecMethod, Reply, Served, server, links, threads, proxies,
       Shape, TypeOK, Holder, Calls, Proper, Stage, Taken, Current, OnWire
  <1>5. Session'
    BY Fields, AnswerField DEF ExecMethod, Reply, Served, server, links, threads, proxies,
       Session, TypeOK, Holder, Calls, Proper, Stage, Shape, Taken, Current, OnWire
  <1>6. OnWire'
    BY Fields, AnswerField DEF ExecMethod, Reply, Served, server, links, threads, proxies,
       OnWire, TypeOK, Current, Reaches, Stale, Holder, Calls, Proper, Stage, Shape,
       Session, Taken
  <1>7. Taken'
    BY Fields, AnswerField DEF ExecMethod, Reply, Served, server, links, threads, proxies,
       Taken, TypeOK, Current, Reaches, Stale, Holder, Calls, Proper, Stage, Shape, Session,
       OnWire
  <1>8. Replied'
    BY Fields, AnswerField DEF ExecMethod, Reply, Served, server, links, threads, proxies,
       Replied, TypeOK, Holder, Calls, Proper, Stage, Shape, Session, Taken, Current, OnWire
  <1>9. Kept'
    BY Fields, AnswerField DEF ExecMethod, Reply, Served, server, links, threads, proxies,
       Kept, TypeOK, Reaches, Stale, Holder, Calls, Proper, Stage, Shape, Session, Taken,
       Current, OnWire
  <1>10. NoLeakInSession'
    BY Fields, AnswerField DEF ExecMethod, Reply, Served, server, links, threads, proxies,
       NoLeakInSession, TypeOK, Holder, Calls, Proper, Stage, Shape, Session, Taken,
       Current, OnWire
  <1> QED BY <1>1, <1>2, <1>3, <1>4, <1>5, <1>6, <1>7, <1>8, <1>9, <1>10

\* get_remote.
LEMMA ExecGetIInv ==
    ASSUME IInv, ExecGet
    PROVE  IInv'
  <1> USE ObjectsAssumption DEF IInv
  <1>1. TypeOK'
    BY Fields, AnswerField DEF ExecGet, Reply, Served, server, links, threads, proxies,
       TypeOK
  <1>2. Holder'
    BY Fields, AnswerField DEF ExecGet, Reply, Served, server, links, threads, proxies,
       Holder, TypeOK, Calls, Taken, Current, OnWire
  <1>3. Calls'
    BY Fields, AnswerField DEF ExecGet, Reply, Served, server, links, threads, proxies,
       Calls, TypeOK, Proper, Holder, Shape, Session, Taken, Current, OnWire
  <1>4. Shape'
    BY Fields, AnswerField DEF ExecGet, Reply, Served, server, links, threads, proxies,
       Shape, TypeOK, Holder, Calls, Proper, Stage, Taken, Current, OnWire
  <1>5. Session'
    BY Fields, AnswerField DEF ExecGet, Reply, Served, server, links, threads, proxies,
       Session, TypeOK, Holder, Calls, Proper, Stage, Shape, Taken, Current, OnWire
  <1>6. OnWire'
    BY Fields, AnswerField DEF ExecGet, Reply, Served, server, links, threads, proxies,
       OnWire, TypeOK, Current, Reaches, Stale, Holder, Calls, Proper, Stage, Shape,
       Session, Taken
  <1>7. Taken'
    BY Fields, AnswerField DEF ExecGet, Reply, Served, server, links, threads, proxies,
       Taken, TypeOK, Current, Reaches, Stale, Holder, Calls, Proper, Stage, Shape, Session,
       OnWire
  <1>8. Replied'
    <2>1. /\ taken \in Request /\ taken # None /\ taken.op = "get" /\ taken.obj \in Addrs
          /\ serving \in Clients
          /\ UNCHANGED <<objects, conn, mutex, call>>
      BY Fields DEF ExecGet, Served, threads, Taken, TypeOK
    <2> DEFINE a == IF objects[taken.obj] = None THEN None ELSE taken.obj
    <2>2. answer' = IF conn[serving] = "up" THEN [answer EXCEPT ![serving] = [obj |-> a]] ELSE answer
      BY DEF ExecGet, Reply
    <2>3. a \in {None, taken.obj} /\ [obj |-> a].obj = a /\ (a # None => objects[a] # None)
      BY <2>1, AnswerField
    <2> HIDE DEF a
    <2>4. conn[serving] = "up" => /\ mutex[serving] # None /\ call[mutex[serving]] = taken
                                  /\ a # None => objects[a] = taken.proxy
      <3>1. ~ Stale(taken) BY <2>1 DEF Stale
      <3> QED BY <2>1, <2>3, <3>1 DEF Taken, Current, Reaches
    <2>5. \A c \in Clients : answer'[c] = IF c = serving /\ conn[c] = "up" THEN [obj |-> a] ELSE answer[c]
      BY <2>1, <2>2 DEF TypeOK
    <2> QED BY <2>1, <2>3, <2>4, <2>5 DEF Replied
  <1>9. Kept'
    BY Fields, AnswerField DEF ExecGet, Reply, Served, server, links, threads, proxies,
       Kept, TypeOK, Reaches, Stale, Holder, Calls, Proper, Stage, Shape, Session, Taken,
       Current, OnWire
  <1>10. NoLeakInSession'
    BY Fields, AnswerField DEF ExecGet, Reply, Served, server, links, threads, proxies,
       NoLeakInSession, TypeOK, Holder, Calls, Proper, Stage, Shape, Session, Taken,
       Current, OnWire
  <1> QED BY <1>1, <1>2, <1>3, <1>4, <1>5, <1>6, <1>7, <1>8, <1>9, <1>10

\* delete_remote.
LEMMA ExecDeleteIInv ==
    ASSUME IInv, ExecDelete
    PROVE  IInv'
  <1> USE ObjectsAssumption DEF IInv
  <1>1. TypeOK'
    BY Fields, AnswerField DEF ExecDelete, Reply, Served, server, links, threads, proxies,
       TypeOK
  <1>2. Holder'
    BY Fields, AnswerField DEF ExecDelete, Reply, Served, server, links, threads, proxies,
       Holder, TypeOK, Calls, Taken, Current, OnWire
  <1>3. Calls'
    BY Fields, AnswerField DEF ExecDelete, Reply, Served, server, links, threads, proxies,
       Calls, TypeOK, Proper, Holder, Shape, Session, Taken, Current, OnWire
  <1>4. Shape'
    BY Fields, AnswerField DEF ExecDelete, Reply, Served, server, links, threads, proxies,
       Shape, TypeOK, Holder, Calls, Proper, Stage, Taken, Current, OnWire
  <1>5. Session'
    BY Fields, AnswerField DEF ExecDelete, Reply, Served, server, links, threads, proxies,
       Session, TypeOK, Holder, Calls, Proper, Stage, Shape, Taken, Current, OnWire
  <1>6. OnWire'
    BY Fields, AnswerField DEF ExecDelete, Reply, Served, server, links, threads, proxies,
       OnWire, TypeOK, Current, Reaches, Stale, Holder, Calls, Proper, Stage, Shape,
       Session, Taken
  <1>7. Taken'
    BY Fields, AnswerField DEF ExecDelete, Reply, Served, server, links, threads, proxies,
       Taken, TypeOK, Current, Reaches, Stale, Holder, Calls, Proper, Stage, Shape, Session,
       OnWire
  <1>8. Replied'
    BY Fields, AnswerField DEF ExecDelete, Reply, Served, server, links, threads, proxies,
       Replied, TypeOK, Holder, Calls, Proper, Stage, Shape, Session, Taken, Current, OnWire
  <1>9. Kept'
    BY Fields, AnswerField DEF ExecDelete, Reply, Served, server, links, threads, proxies,
       Kept, TypeOK, Reaches, Stale, Holder, Calls, Proper, Stage, Shape, Session, Taken,
       Current, OnWire
  <1>10. NoLeakInSession'
    BY Fields, AnswerField DEF ExecDelete, Reply, Served, server, links, threads, proxies,
       NoLeakInSession, TypeOK, Holder, Calls, Proper, Stage, Shape, Session, Taken,
       Current, OnWire
  <1> QED BY <1>1, <1>2, <1>3, <1>4, <1>5, <1>6, <1>7, <1>8, <1>9, <1>10

\* The server's read fails.
LEMMA ServerNoticesIInv ==
    ASSUME IInv, ServerNotices
    PROVE  IInv'
  <1> USE ObjectsAssumption DEF IInv
  <1>1. TypeOK'
    BY Fields, AnswerField DEF ServerNotices, server, links, threads, proxies, TypeOK
  <1>2. Holder'
    BY Fields, AnswerField DEF ServerNotices, server, links, threads, proxies, Holder,
       TypeOK, Calls
  <1>3. Calls'
    BY Fields, AnswerField DEF ServerNotices, server, links, threads, proxies, Calls,
       TypeOK, Proper, Holder, Shape, Session
  <1>4. Shape'
    BY Fields, AnswerField DEF ServerNotices, server, links, threads, proxies, Shape,
       TypeOK, Holder, Calls, Proper, Stage
  <1>5. Session'
    BY Fields, AnswerField DEF ServerNotices, server, links, threads, proxies, Session,
       TypeOK, Holder, Calls, Proper, Stage, Shape
  <1>6. OnWire'
    BY Fields, AnswerField DEF ServerNotices, server, links, threads, proxies, OnWire,
       TypeOK, Current, Reaches, Stale, Holder, Calls, Proper, Stage, Shape, Session
  <1>7. Taken'
    BY Fields, AnswerField DEF ServerNotices, server, links, threads, proxies, Taken,
       TypeOK, Current, Reaches, Stale, Holder, Calls, Proper, Stage, Shape, Session
  <1>8. Replied'
    BY Fields, AnswerField DEF ServerNotices, server, links, threads, proxies, Replied,
       TypeOK, Holder, Calls, Proper, Stage, Shape, Session
  <1>9. Kept'
    BY Fields, AnswerField DEF ServerNotices, server, links, threads, proxies, Kept, TypeOK,
       Reaches, Stale, Holder, Calls, Proper, Stage, Shape, Session
  <1>10. NoLeakInSession'
    BY Fields, AnswerField DEF ServerNotices, server, links, threads, proxies,
       NoLeakInSession, TypeOK, Holder, Calls, Proper, Stage, Shape, Session
  <1> QED BY <1>1, <1>2, <1>3, <1>4, <1>5, <1>6, <1>7, <1>8, <1>9, <1>10

\* Another server takes the place of the old one.
LEMMA SrvRestartIInv ==
    ASSUME IInv, SrvRestart
    PROVE  IInv'
  <1> USE ObjectsAssumption DEF IInv
  <1>1. TypeOK'
    BY Fields, AnswerField DEF SrvRestart, server, links, threads, proxies, TypeOK
  <1>2. Holder'
    BY Fields, AnswerField DEF SrvRestart, server, links, threads, proxies, Holder, TypeOK,
       Calls
  <1>3. Calls'
    BY Fields, AnswerField DEF SrvRestart, server, links, threads, proxies, Calls, TypeOK,
       Proper, Holder, Shape, Session
  <1>4. Shape'
    BY Fields, AnswerField DEF SrvRestart, server, links, threads, proxies, Shape, TypeOK,
       Holder, Calls, Proper, Stage
  <1>5. Session'
    BY Fields, AnswerField DEF SrvRestart, server, links, threads, proxies, Session, TypeOK,
       Holder, Calls, Proper, Stage, Shape
  <1>6. OnWire'
    BY Fields, AnswerField DEF SrvRestart, server, links, threads, proxies, OnWire, TypeOK,
       Current, Reaches, Stale, Holder, Calls, Proper, Stage, Shape, Session
  <1>7. Taken'
    BY Fields, AnswerField DEF SrvRestart, server, links, threads, proxies, Taken, TypeOK,
       Current, Reaches, Stale, Holder, Calls, Proper, Stage, Shape, Session
  <1>8. Replied'
    BY Fields, AnswerField DEF SrvRestart, server, links, threads, proxies, Replied, TypeOK,
       Holder, Calls, Proper, Stage, Shape, Session
  <1>9. Kept'
    BY Fields, AnswerField DEF SrvRestart, server, links, threads, proxies, Kept, TypeOK,
       Reaches, Stale, Holder, Calls, Proper, Stage, Shape, Session
  <1>10. NoLeakInSession'
    BY Fields, AnswerField DEF SrvRestart, server, links, threads, proxies, NoLeakInSession,
       TypeOK, Holder, Calls, Proper, Stage, Shape, Session
  <1> QED BY <1>1, <1>2, <1>3, <1>4, <1>5, <1>6, <1>7, <1>8, <1>9, <1>10

\* No step at all.
LEMMA StutterIInv == IInv /\ UNCHANGED vars => IInv'
  BY DEF IInv, vars, server, links, threads, proxies, TypeOK, Holder, Calls, Proper, Shape, Session,
         OnWire, Taken, Current, Reaches, Stale, Replied, Kept, NoLeakInSession

-----------------------------------------------------------------------------
\* The invariant holds in every reachable state.
THEOREM Invariance == Spec => []IInv
  <1>1. IInv /\ [Next]_vars => IInv'
    <2> SUFFICES ASSUME IInv, [Next]_vars PROVE IInv' OBVIOUS
    <2>1. ASSUME NEW c \in Clients, Connect(c) \/ Lose(c) \/ Kill(c) PROVE IInv'
      BY <2>1, ConnectIInv, LoseIInv, KillIInv, Zenon
    <2>2. ASSUME NEW p \in Proxies, Construct(p) \/ Method(p) \/ Update(p) \/ Destroy(p)
          PROVE  IInv'
      BY <2>2, CallsIInv, Zenon
    <2>3. ASSUME NEW t \in Threads, NEW p \in Proxies, SearchMethod(t, p) PROVE IInv'
      BY <2>3, SearchMethodIInv, Zenon
    <2>4. ASSUME NEW t \in Threads, InCall(t) PROVE IInv'
      BY <2>4, LockIInv, ReturnIInv, CallFailsIInv, Zenon DEF InCall
    <2>5. CASE RpcThread
      BY <2>5, TakeIInv, ExecNewIInv, ExecMethodIInv, ExecGetIInv, ExecDeleteIInv,
         ServerNoticesIInv, Zenon DEF RpcThread, Exec
    <2> QED BY <2>1, <2>2, <2>3, <2>4, <2>5, SrvRestartIInv, StutterIInv, Zenon DEF Next
  <1> QED BY InitIInv, <1>1, PTL DEF Spec

\* Every variable of the threads, the proxies and the server's objects keeps its type.
THEOREM TypeCorrect == Spec => []TypeOK
  <1>1. IInv => TypeOK BY DEF IInv
  <1> QED BY Invariance, <1>1, PTL

\* The object at the address that a request carries is the one its own proxy created,
\* except for a method of a memory that was destroyed while a search thread was in its call
\* (remote.hpp:54-58 and the like, rpc.hpp:175-201, 252-275, gui_imgui.cpp:699): whatever
\* the calls of the search threads, and whatever is destroyed, lost or restarted meanwhile.
THEOREM OwnObjectAlways == Spec => []OwnObject
  <1>1. IInv => OwnObject BY DEF IInv, Taken, Reaches, OwnObject
  <1> QED BY Invariance, <1>1, PTL

\* As long as a session lasts, each of its objects is known to a proxy, or about to be.
THEOREM NoLeak == Spec => []NoLeakInSession
  <1>1. IInv => NoLeakInSession BY DEF IInv
  <1> QED BY Invariance, <1>1, PTL
=============================================================================
