-------------------------- MODULE SearchTask_proofs --------------------------
(***************************************************************************)
(* Proofs about SearchTask: its types, that a search nobody stopped is     *)
(* complete, and that each task implements SearchResults.                  *)
(*                                                                         *)
(* The argument: a thread that runs finds its is_searching set, unless the *)
(* UI thread waits in join() for it, and then its search was cut; so only  *)
(* a search that was cut ends with addresses left.  What it has found is   *)
(* at any time what matches among those it has looked at.                  *)
(***************************************************************************)
EXTENDS SearchTask, FiniteSetTheorems, TLAPS

\* The vector: the tasks in it are distinct; one that searches, or is selected, is in it.
Vector ==
    /\ tasks \in Seq(Tasks) /\ capacity \in Nat /\ Len(tasks) <= capacity
    /\ \A i, j \in 1..Len(tasks) : tasks[i] = tasks[j] => i = j
    /\ \A t \in Tasks : thread[t] = "running" => t \in Range(tasks)
    /\ upc \in {"frame", "exit"} \/ sel \in Range(tasks)

Types ==
    /\ searching \in [Tasks -> BOOLEAN] /\ cut \in [Tasks -> BOOLEAN]
    /\ bound \in [Tasks -> BOOLEAN] /\ lost \in [Tasks -> BOOLEAN]
    /\ results \in [Tasks -> SUBSET Addrs] /\ todo \in [Tasks -> SUBSET Addrs]
    /\ scope \in [Tasks -> SUBSET Addrs] /\ hits \in [Tasks -> SUBSET Addrs]
    /\ thread \in [Tasks -> {"null", "running", "ended"}]
    /\ tpc \in [Tasks -> {"none", "begin", "continue", "look", "match", "found", "push"}]

\* The variables that are not functions on the tasks.
Scalars ==
    /\ searches \in 0..SearchMax
    /\ upc \in {"frame", "count", "stop", "join", "start", "create", "clear", "draw", "rows", "exit"}
    /\ sel \in Range(tasks) \cup {None}
    /\ count \in 0..Cardinality(Addrs) /\ rows \in 0..Cardinality(Addrs)
    /\ fault \in {"none", "dangling", "mem", "rows", "clear", "unjoined", "no task"}

\* The truth values among them.
Truths == mem \in BOOLEAN /\ enter \in BOOLEAN

\* Only a running thread has work left, or the lock.
Threads ==
    /\ \A t \in Tasks : thread[t] # "running" => todo[t] = {} /\ tpc[t] = "none"
    /\ \A t \in Tasks : mtx = t => tpc[t] = "push"
    /\ mtx \in Tasks \cup {None, "ui"}

\* is_searching of a running thread.
Flagged ==
    /\ \A t \in Tasks : thread[t] = "running" => searching[t] \/ (upc = "join" /\ sel = t)
    /\ upc = "join" => cut[sel]
    /\ upc = "create" => /\ searching[sel] /\ thread[sel] # "running"
                         /\ count = 0 => results[sel] = {}

\* What a search that was not cut has found.
Found ==
    \A t \in Tasks :
        /\ todo[t] \subseteq scope[t]
        /\ tpc[t] = "begin" => results[t] = {}
        /\ thread[t] = "running" /\ ~cut[t] /\ tpc[t] \in {"look", "match", "found", "push"} =>
              results[t] = hits[t] \cap (scope[t] \ todo[t])
        /\ thread[t] = "ended" /\ ~cut[t] => results[t] = hits[t] \cap scope[t]

IInv == Vector /\ Types /\ Scalars /\ Truths /\ Threads /\ Flagged /\ Found

-----------------------------------------------------------------------------
\* The elements of a sequence.
LEMMA Elements ==
    ASSUME NEW s \in Seq(Tasks)
    PROVE  /\ \A x : x \in Range(s) <=> \E i \in 1..Len(s) : s[i] = x
           /\ Range(s) \subseteq Tasks
  BY DEF Range

\* push_back adds t behind the others.
LEMMA Appended ==
    ASSUME NEW s \in Seq(Tasks), NEW t \in Tasks, t \notin Range(s),
           \A i, j \in 1..Len(s) : s[i] = s[j] => i = j
    PROVE  /\ Append(s, t) \in Seq(Tasks) /\ Len(Append(s, t)) = Len(s) + 1
           /\ \A i, j \in 1..Len(Append(s, t)) : Append(s, t)[i] = Append(s, t)[j] => i = j
           /\ Range(Append(s, t)) = Range(s) \cup {t}
  <1> DEFINE u == Append(s, t)
  <1>1. /\ u \in Seq(Tasks) /\ Len(u) = Len(s) + 1 /\ u[Len(s) + 1] = t
        /\ \A i \in 1..Len(s) : u[i] = s[i]
    OBVIOUS
  <1>2. \A i \in 1..Len(s) : s[i] # t BY Elements
  <1>3. \A i, j \in 1..Len(u) : u[i] = u[j] => i = j
    BY <1>1, <1>2
  <1>4. Range(u) = Range(s) \cup {t}
    <2>1. \A x : x \in Range(u) <=> \E i \in 1..Len(u) : u[i] = x BY <1>1, Elements
    <2>2. \A x : x \in Range(s) <=> \E i \in 1..Len(s) : s[i] = x BY Elements
    <2>3. ASSUME NEW x \in Range(u) PROVE x \in Range(s) \cup {t}
      <3>1. PICK i \in 1..Len(u) : u[i] = x BY <2>1
      <3>2. CASE i = Len(s) + 1 BY <1>1, <3>1, <3>2
      <3>3. CASE i \in 1..Len(s) BY <1>1, <2>2, <3>1, <3>3
      <3> QED BY <1>1, <3>2, <3>3
    <2>4. ASSUME NEW x \in Range(s) \cup {t} PROVE x \in Range(u)
      <3>1. CASE x = t BY <1>1, <2>1, <3>1
      <3>2. CASE x \in Range(s)
        <4>1. PICK i \in 1..Len(s) : s[i] = x BY <2>2, <3>2
        <4> QED BY <1>1, <2>1, <4>1
      <3> QED BY <3>1, <3>2
    <2> QED BY <2>3, <2>4
  <1> QED BY <1>1, <1>3, <1>4

\* Two sequences, one after the other.
LEMMA Concatenated ==
    ASSUME NEW a \in Seq(Tasks), NEW b \in Seq(Tasks)
    PROVE  /\ a \o b \in Seq(Tasks) /\ Len(a \o b) = Len(a) + Len(b)
           /\ \A j \in 1..(Len(a) + Len(b)) :
                 (a \o b)[j] = IF j <= Len(a) THEN a[j] ELSE b[j - Len(a)]
  OBVIOUS

\* erase takes out the i-th.
LEMMA Removed ==
    ASSUME NEW s \in Seq(Tasks), NEW i \in 1..Len(s),
           \A j, k \in 1..Len(s) : s[j] = s[k] => j = k
    PROVE  /\ RemoveAt(s, i) \in Seq(Tasks) /\ Len(RemoveAt(s, i)) = Len(s) - 1
           /\ \A j, k \in 1..Len(RemoveAt(s, i)) :
                 RemoveAt(s, i)[j] = RemoveAt(s, i)[k] => j = k
           /\ Range(RemoveAt(s, i)) = Range(s) \ {s[i]}
  <1> DEFINE u == RemoveAt(s, i)
             a == SubSeq(s, 1, i - 1)
             b == SubSeq(s, i + 1, Len(s))
  <1>0. u = a \o b BY DEF RemoveAt
  <1>1. /\ a \in Seq(Tasks) /\ Len(a) = i - 1 /\ \A j \in 1..(i - 1) : a[j] = s[j]
    OBVIOUS
  <1>2. /\ b \in Seq(Tasks) /\ Len(b) = Len(s) - i /\ \A j \in 1..(Len(s) - i) : b[j] = s[i + j]
    OBVIOUS
  <1> HIDE DEF a, b
  <1>3. u \in Seq(Tasks) /\ Len(u) = Len(s) - 1
    BY <1>0, <1>1, <1>2, Concatenated
  <1>4. \A j \in 1..Len(u) : u[j] = IF j < i THEN s[j] ELSE s[j + 1]
    <2> SUFFICES ASSUME NEW j \in 1..Len(u) PROVE u[j] = IF j < i THEN s[j] ELSE s[j + 1] OBVIOUS
    <2>1. u[j] = IF j <= Len(a) THEN a[j] ELSE b[j - Len(a)]
      BY <1>0, <1>1, <1>2, <1>3, Concatenated
    <2>2. CASE j < i BY <1>1, <2>1, <2>2
    <2>3. CASE ~(j < i)
      <3>1. j - (i - 1) \in 1..(Len(s) - i) /\ i + (j - (i - 1)) = j + 1 BY <1>3, <2>3
      <3>2. b[j - (i - 1)] = s[j + 1] BY <1>2, <3>1
      <3>3. ~(j <= Len(a)) /\ j - Len(a) = j - (i - 1) BY <1>1, <2>3
      <3> QED BY <2>1, <2>3, <3>2, <3>3
    <2> QED BY <2>2, <2>3
  <1> HIDE DEF u
  <1>5. \A j, k \in 1..Len(u) : u[j] = u[k] => j = k
    <2> SUFFICES ASSUME NEW j \in 1..Len(u), NEW k \in 1..Len(u), u[j] = u[k] PROVE j = k
      OBVIOUS
    <2> DEFINE at(m) == IF m < i THEN m ELSE m + 1
    <2>1. at(j) \in 1..Len(s) /\ at(k) \in 1..Len(s) BY <1>3
    <2>2. u[j] = s[at(j)] /\ u[k] = s[at(k)] BY <1>4
    <2>3. at(j) = at(k) BY <2>1, <2>2
    <2> QED BY <2>3
  <1>6. Range(u) = Range(s) \ {s[i]}
    <2>1. \A x : x \in Range(u) <=> \E j \in 1..Len(u) : u[j] = x BY <1>3, Elements
    <2>2. \A x : x \in Range(s) <=> \E j \in 1..Len(s) : s[j] = x BY Elements
    <2>3. ASSUME NEW x \in Range(u) PROVE x \in Range(s) \ {s[i]}
      <3>1. PICK j \in 1..Len(u) : u[j] = x BY <2>1
      <3>2. CASE j < i
        <4>1. j \in 1..Len(s) /\ s[j] = x /\ j # i BY <1>3, <1>4, <3>1, <3>2
        <4> QED BY <2>2, <4>1
      <3>3. CASE ~(j < i)
        <4>1. j + 1 \in 1..Len(s) /\ s[j + 1] = x /\ j + 1 # i BY <1>3, <1>4, <3>1, <3>3
        <4> QED BY <2>2, <4>1
      <3> QED BY <3>2, <3>3
    <2>4. ASSUME NEW x \in Range(s) \ {s[i]} PROVE x \in Range(u)
      <3>1. PICK j \in 1..Len(s) : s[j] = x BY <2>2
      <3>2. CASE j < i
        <4>1. j \in 1..Len(u) /\ u[j] = x BY <1>3, <1>4, <3>1, <3>2
        <4> QED BY <2>1, <4>1
      <3>3. CASE j > i
        <4>1. j - 1 \in 1..Len(u) /\ ~(j - 1 < i) /\ (j - 1) + 1 = j BY <1>3, <3>3
        <4>2. u[j - 1] = x BY <1>4, <3>1, <4>1
        <4> QED BY <2>1, <4>1, <4>2
      <3> QED BY <3>1, <3>2, <3>3
    <2> QED BY <2>3, <2>4
  <1> QED BY <1>3, <1>5, <1>6 DEF u

\* How many results there are.
LEMMA Counts ==
    ASSUME NEW S \in SUBSET Addrs
    PROVE  Cardinality(S) \in 0..Cardinality(Addrs) /\ (Cardinality(S) = 0 => S = {})
  BY TaskAssumption, FS_Subset, FS_CardinalityType, FS_EmptySet

\* No task, and nobody searches.
LEMMA InitIInv == Init => IInv
  <1> SUFFICES ASSUME Init PROVE IInv OBVIOUS
  <1> USE DEF Init
  <1>1. tasks = <<>> /\ Range(tasks) = {} BY DEF Range
  <1>2. Types /\ Threads /\ Found BY TaskAssumption DEF Types, Threads, Found
  <1>3. Vector /\ Flagged BY <1>1 DEF Vector, Flagged
  <1>4. Scalars
    <2>1. 0 \in 0..Cardinality(Addrs) BY Counts, FS_EmptySet
    <2> QED BY <1>1, <2>1, TaskAssumption DEF Scalars
  <1>5. Truths BY Zenon DEF Truths
  <1> QED BY <1>2, <1>3, <1>4, <1>5 DEF IInv

\* The list of tasks is drawn.
LEMMA ListTasksIInv ==
    ASSUME IInv, ListTasks
    PROVE  IInv'
  <1> USE DEF IInv
  <1>e. Range(tasks) \subseteq Tasks /\ None \notin Tasks /\ "ui" \notin Tasks /\ "ui" # None
    BY Elements, TaskAssumption DEF Vector
  <1>1. Vector'
    BY <1>e DEF ListTasks, shared, ui, worker, past, Goto, Vector, Types
  <1>2. Types'
    BY <1>e DEF ListTasks, shared, ui, worker, past, Goto, Types
  <1>3. Scalars'
    BY Counts, <1>e DEF ListTasks, shared, ui, worker, past, Goto, Scalars, Types, Vector
  <1>4. Truths'
    BY Zenon DEF ListTasks, shared, ui, worker, past, Goto, Truths
  <1>5. Threads'
    BY <1>e DEF ListTasks, shared, ui, worker, past, Goto, Threads, Types
  <1>6. Flagged'
    BY <1>e DEF ListTasks, shared, ui, worker, past, Goto, Flagged, Types, Vector, Threads
  <1>7. Found'
    BY <1>e DEF ListTasks, shared, ui, worker, past, Goto, Found, Types, Threads, Flagged,
       Vector
  <1> QED BY <1>1, <1>2, <1>3, <1>4, <1>5, <1>6, <1>7

\* A task is added.
LEMMA NewTaskIInv ==
    ASSUME IInv, NEW t \in Tasks, NewTask(t)
    PROVE  IInv'
  <1> USE DEF IInv
  <1>e. Range(tasks) \subseteq Tasks /\ None \notin Tasks /\ "ui" \notin Tasks /\ "ui" # None
    BY Elements, TaskAssumption DEF Vector
  <1>1. Vector'
    <2>1. /\ tasks' = Append(tasks, t) /\ t \notin Range(tasks) /\ sel' \in Range(tasks')
          /\ UNCHANGED thread
      BY DEF NewTask, PushBack
    <2>2. tasks' \in Seq(Tasks) /\ Len(tasks') = Len(tasks) + 1 /\ Range(tasks') = Range(tasks) \cup {t}
          /\ \A i, j \in 1..Len(tasks') : tasks'[i] = tasks'[j] => i = j
      BY <2>1, Appended DEF Vector
    <2>3. capacity' \in Nat /\ Len(tasks') <= capacity'
      <3>1. CASE Len(tasks) < capacity
        BY <2>2, <3>1 DEF NewTask, PushBack, Vector
      <3>2. CASE ~(Len(tasks) < capacity)
        <4>1. capacity' = Max({1, 2 * capacity}) BY <3>2 DEF NewTask, PushBack
        <4>2. capacity \in Nat /\ Len(tasks) = capacity BY <3>2 DEF Vector
        <4>3. capacity' \in {1, 2 * capacity} /\ \A m \in {1, 2 * capacity} : capacity' >= m
          <5>1. \E x \in {1, 2 * capacity} : \A m \in {1, 2 * capacity} : x >= m BY <4>2
          <5> QED BY <4>1, <5>1 DEF Max
        <4> QED BY <2>2, <4>2, <4>3
      <3> QED BY <3>1, <3>2
    <2> QED BY <2>1, <2>2, <2>3 DEF Vector
  <1>2. Types'
    BY <1>e DEF NewTask, PushBack, Move, shared, ui, worker, past, Goto, Types
  <1>3. Scalars'
    BY Counts, <1>e DEF NewTask, PushBack, Move, shared, ui, worker, past, Goto, Scalars,
       Types, Vector
  <1>4. Truths'
    BY Zenon DEF NewTask, PushBack, Move, shared, ui, worker, past, Goto, Truths
  <1>5. Threads'
    BY <1>e DEF NewTask, PushBack, Move, shared, ui, worker, past, Goto, Threads, Types
  <1>6. Flagged'
    BY <1>e DEF NewTask, PushBack, Move, shared, ui, worker, past, Goto, Flagged, Types,
       Vector, Threads
  <1>7. Found'
    BY <1>e DEF NewTask, PushBack, Move, shared, ui, worker, past, Goto, Found, Types,
       Threads, Flagged, Vector
  <1> QED BY <1>1, <1>2, <1>3, <1>4, <1>5, <1>6, <1>7

\* A task is erased.
LEMMA DeleteTaskIInv ==
    ASSUME IInv, NEW i \in 1..Len(tasks), DeleteTask(i)
    PROVE  IInv'
  <1> USE DEF IInv
  <1>e. Range(tasks) \subseteq Tasks /\ None \notin Tasks /\ "ui" \notin Tasks /\ "ui" # None
    BY Elements, TaskAssumption DEF Vector
  <1>1. Vector'
    <2>1. /\ tasks' = RemoveAt(tasks, i) /\ thread[tasks[i]] = "null" /\ sel' \in Range(tasks')
          /\ UNCHANGED <<thread, capacity>>
      BY DEF DeleteTask, Erase
    <2>2. /\ tasks' \in Seq(Tasks) /\ Len(tasks') = Len(tasks) - 1
          /\ Range(tasks') = Range(tasks) \ {tasks[i]}
          /\ \A j, k \in 1..Len(tasks') : tasks'[j] = tasks'[k] => j = k
      BY <2>1, Removed DEF Vector
    <2> QED BY <2>1, <2>2 DEF Vector
  <1>2. Types'
    BY <1>e DEF DeleteTask, Erase, Move, shared, ui, worker, past, Goto, Types
  <1>3. Scalars'
    BY Counts, <1>e DEF DeleteTask, Erase, Move, shared, ui, worker, past, Goto, Scalars,
       Types, Vector
  <1>4. Truths'
    BY Zenon DEF DeleteTask, Erase, Move, shared, ui, worker, past, Goto, Truths
  <1>5. Threads'
    BY <1>e DEF DeleteTask, Erase, Move, shared, ui, worker, past, Goto, Threads, Types
  <1>6. Flagged'
    BY <1>e DEF DeleteTask, Erase, Move, shared, ui, worker, past, Goto, Flagged, Types,
       Vector, Threads
  <1>7. Found'
    BY <1>e DEF DeleteTask, Erase, Move, shared, ui, worker, past, Goto, Found, Types,
       Threads, Flagged, Vector
  <1> QED BY <1>1, <1>2, <1>3, <1>4, <1>5, <1>6, <1>7

\* What C++ leaves undefined ends the model.
LEMMA FaultIInv ==
    ASSUME IInv, NEW kind, kind \in {"none", "dangling", "mem", "rows", "clear", "unjoined", "no task"}, Fault(kind)
    PROVE  IInv'
  <1> USE DEF IInv
  <1>e. Range(tasks) \subseteq Tasks /\ None \notin Tasks /\ "ui" \notin Tasks /\ "ui" # None
    BY Elements, TaskAssumption DEF Vector
  <1>1. Vector'
    BY <1>e DEF Fault, shared, ui, worker, past, Goto, Vector, Types
  <1>2. Types'
    BY <1>e DEF Fault, shared, ui, worker, past, Goto, Types
  <1>3. Scalars'
    BY Counts, <1>e DEF Fault, shared, ui, worker, past, Goto, Scalars, Types, Vector
  <1>4. Truths'
    BY Zenon DEF Fault, shared, ui, worker, past, Goto, Truths
  <1>5. Threads'
    BY <1>e DEF Fault, shared, ui, worker, past, Goto, Threads, Types
  <1>6. Flagged'
    BY <1>e DEF Fault, shared, ui, worker, past, Goto, Flagged, Types, Vector, Threads
  <1>7. Found'
    BY <1>e DEF Fault, shared, ui, worker, past, Goto, Found, Types, Threads, Flagged,
       Vector
  <1> QED BY <1>1, <1>2, <1>3, <1>4, <1>5, <1>6, <1>7

\* The number of results is read.
LEMMA ReadCountIInv ==
    ASSUME IInv, ReadCount
    PROVE  IInv'
  <1> USE DEF IInv
  <1>e. Range(tasks) \subseteq Tasks /\ None \notin Tasks /\ "ui" \notin Tasks /\ "ui" # None
    BY Elements, TaskAssumption DEF Vector
  <1>1. Vector'
    BY <1>e DEF ReadCount, shared, ui, worker, past, Goto, Vector, Types
  <1>2. Types'
    BY <1>e DEF ReadCount, shared, ui, worker, past, Goto, Types
  <1>3. Scalars'
    BY Counts, <1>e DEF ReadCount, shared, ui, worker, past, Goto, Scalars, Types, Vector
  <1>4. Truths'
    BY Zenon DEF ReadCount, shared, ui, worker, past, Goto, Truths
  <1>5. Threads'
    BY <1>e DEF ReadCount, shared, ui, worker, past, Goto, Threads, Types
  <1>6. Flagged'
    BY <1>e DEF ReadCount, shared, ui, worker, past, Goto, Flagged, Types, Vector, Threads
  <1>7. Found'
    BY <1>e DEF ReadCount, shared, ui, worker, past, Goto, Found, Types, Threads, Flagged,
       Vector
  <1> QED BY <1>1, <1>2, <1>3, <1>4, <1>5, <1>6, <1>7

\* A search is stopped.
LEMMA StopIInv ==
    ASSUME IInv, Stop
    PROVE  IInv'
  <1> USE DEF IInv
  <1>e. Range(tasks) \subseteq Tasks /\ None \notin Tasks /\ "ui" \notin Tasks /\ "ui" # None
    BY Elements, TaskAssumption DEF Vector
  <1>1. Vector'
    BY <1>e DEF Stop, shared, ui, worker, past, Goto, Vector, Types
  <1>2. Types'
    BY <1>e DEF Stop, shared, ui, worker, past, Goto, Types
  <1>3. Scalars'
    BY Counts, <1>e DEF Stop, shared, ui, worker, past, Goto, Scalars, Types, Vector
  <1>4. Truths'
    BY Zenon DEF Stop, shared, ui, worker, past, Goto, Truths
  <1>5. Threads'
    BY <1>e DEF Stop, shared, ui, worker, past, Goto, Threads, Types
  <1>6. Flagged'
    BY <1>e DEF Stop, shared, ui, worker, past, Goto, Flagged, Types, Vector, Threads
  <1>7. Found'
    BY <1>e DEF Stop, shared, ui, worker, past, Goto, Found, Types, Threads, Flagged, Vector
  <1> QED BY <1>1, <1>2, <1>3, <1>4, <1>5, <1>6, <1>7

\* It is not stopped.
LEMMA NoStopIInv ==
    ASSUME IInv, NoStop
    PROVE  IInv'
  <1> USE DEF IInv
  <1>e. Range(tasks) \subseteq Tasks /\ None \notin Tasks /\ "ui" \notin Tasks /\ "ui" # None
    BY Elements, TaskAssumption DEF Vector
  <1>1. Vector'
    BY <1>e DEF NoStop, shared, ui, worker, past, Goto, Vector, Types
  <1>2. Types'
    BY <1>e DEF NoStop, shared, ui, worker, past, Goto, Types
  <1>3. Scalars'
    BY Counts, <1>e DEF NoStop, shared, ui, worker, past, Goto, Scalars, Types, Vector
  <1>4. Truths'
    BY Zenon DEF NoStop, shared, ui, worker, past, Goto, Truths
  <1>5. Threads'
    BY <1>e DEF NoStop, shared, ui, worker, past, Goto, Threads, Types
  <1>6. Flagged'
    BY <1>e DEF NoStop, shared, ui, worker, past, Goto, Flagged, Types, Vector, Threads
  <1>7. Found'
    BY <1>e DEF NoStop, shared, ui, worker, past, Goto, Found, Types, Threads, Flagged,
       Vector
  <1> QED BY <1>1, <1>2, <1>3, <1>4, <1>5, <1>6, <1>7

\* Its thread has ended.
LEMMA JoinStoppedIInv ==
    ASSUME IInv, JoinStopped
    PROVE  IInv'
  <1> USE DEF IInv
  <1>e. Range(tasks) \subseteq Tasks /\ None \notin Tasks /\ "ui" \notin Tasks /\ "ui" # None
    BY Elements, TaskAssumption DEF Vector
  <1>1. Vector'
    BY <1>e DEF JoinStopped, shared, ui, worker, past, Goto, Vector, Types
  <1>2. Types'
    BY <1>e DEF JoinStopped, shared, ui, worker, past, Goto, Types
  <1>3. Scalars'
    BY Counts, <1>e DEF JoinStopped, shared, ui, worker, past, Goto, Scalars, Types, Vector
  <1>4. Truths'
    BY Zenon DEF JoinStopped, shared, ui, worker, past, Goto, Truths
  <1>5. Threads'
    BY <1>e DEF JoinStopped, shared, ui, worker, past, Goto, Threads, Types
  <1>6. Flagged'
    BY <1>e DEF JoinStopped, shared, ui, worker, past, Goto, Flagged, Types, Vector, Threads
  <1>7. Found'
    BY <1>e DEF JoinStopped, shared, ui, worker, past, Goto, Found, Types, Threads,
       Flagged, Vector
  <1> QED BY <1>1, <1>2, <1>3, <1>4, <1>5, <1>6, <1>7

\* A search is started.
LEMMA StartIInv ==
    ASSUME IInv, Start
    PROVE  IInv'
  <1> USE DEF IInv
  <1>e. Range(tasks) \subseteq Tasks /\ None \notin Tasks /\ "ui" \notin Tasks /\ "ui" # None
    BY Elements, TaskAssumption DEF Vector
  <1>1. Vector'
    BY <1>e DEF Start, shared, ui, worker, past, Goto, Vector, Types
  <1>2. Types'
    BY <1>e DEF Start, shared, ui, worker, past, Goto, Types
  <1>3. Scalars'
    <2>0. searches' = searches + 1 /\ searches < SearchMax BY DEF Start
    <2>n. SearchMax \in Nat /\ searches \in 0..SearchMax BY TaskAssumption, Zenon DEF
         Scalars
    <2>1. searches' \in 0..SearchMax BY ONLY <2>0, <2>n
    <2> QED BY <2>1 DEF Start, Goto, Scalars, worker, past
  <1>4. Truths'
    BY Zenon DEF Start, shared, ui, worker, past, Goto, Truths
  <1>5. Threads'
    BY <1>e DEF Start, shared, ui, worker, past, Goto, Threads, Types
  <1>6. Flagged'
    BY <1>e DEF Start, shared, ui, worker, past, Goto, Flagged, Types, Vector, Threads
  <1>7. Found'
    BY <1>e DEF Start, shared, ui, worker, past, Goto, Found, Types, Threads, Flagged,
       Vector
  <1> QED BY <1>1, <1>2, <1>3, <1>4, <1>5, <1>6, <1>7

\* It is not started.
LEMMA NoStartIInv ==
    ASSUME IInv, NoStart
    PROVE  IInv'
  <1> USE DEF IInv
  <1>e. Range(tasks) \subseteq Tasks /\ None \notin Tasks /\ "ui" \notin Tasks /\ "ui" # None
    BY Elements, TaskAssumption DEF Vector
  <1>1. Vector'
    BY <1>e DEF NoStart, shared, ui, worker, past, Goto, Vector, Types
  <1>2. Types'
    BY <1>e DEF NoStart, shared, ui, worker, past, Goto, Types
  <1>3. Scalars'
    BY Counts, <1>e DEF NoStart, shared, ui, worker, past, Goto, Scalars, Types, Vector
  <1>4. Truths'
    BY Zenon DEF NoStart, shared, ui, worker, past, Goto, Truths
  <1>5. Threads'
    BY <1>e DEF NoStart, shared, ui, worker, past, Goto, Threads, Types
  <1>6. Flagged'
    BY <1>e DEF NoStart, shared, ui, worker, past, Goto, Flagged, Types, Vector, Threads
  <1>7. Found'
    BY <1>e DEF NoStart, shared, ui, worker, past, Goto, Found, Types, Threads, Flagged,
       Vector
  <1> QED BY <1>1, <1>2, <1>3, <1>4, <1>5, <1>6, <1>7

\* Its thread is created.
LEMMA CreateIInv ==
    ASSUME IInv, Create
    PROVE  IInv'
  <1> USE DEF IInv
  <1>e. Range(tasks) \subseteq Tasks /\ None \notin Tasks /\ "ui" \notin Tasks /\ "ui" # None
    BY Elements, TaskAssumption DEF Vector
  <1>1. Vector'
    BY <1>e DEF Create, shared, ui, worker, past, Goto, Vector, Types
  <1>2. Types'
    <2>1. PICK h \in SUBSET Addrs : hits' = [hits EXCEPT ![sel] = h] BY DEF Create
    <2>2. hits' \in [Tasks -> SUBSET Addrs] BY <2>1 DEF Types
    <2> QED BY <2>2 DEF Create, shared, ui, worker, past, Types
  <1>3. Scalars'
    BY Counts, <1>e DEF Create, shared, ui, worker, past, Goto, Scalars, Types, Vector
  <1>4. Truths'
    BY Zenon DEF Create, shared, ui, worker, past, Goto, Truths
  <1>5. Threads'
    BY <1>e DEF Create, shared, ui, worker, past, Goto, Threads, Types
  <1>6. Flagged'
    BY <1>e DEF Create, shared, ui, worker, past, Goto, Flagged, Types, Vector, Threads
  <1>7. Found'
    BY <1>e DEF Create, shared, ui, worker, past, Goto, Found, Types, Threads, Flagged,
       Vector
  <1> QED BY <1>1, <1>2, <1>3, <1>4, <1>5, <1>6, <1>7

\* The results are cleared.
LEMMA ClearIInv ==
    ASSUME IInv, Clear
    PROVE  IInv'
  <1> USE DEF IInv
  <1>e. Range(tasks) \subseteq Tasks /\ None \notin Tasks /\ "ui" \notin Tasks /\ "ui" # None
    BY Elements, TaskAssumption DEF Vector
  <1>1. Vector'
    BY <1>e DEF Clear, shared, ui, worker, past, Goto, Vector, Types
  <1>2. Types'
    BY <1>e DEF Clear, shared, ui, worker, past, Goto, Types
  <1>3. Scalars'
    BY Counts, <1>e DEF Clear, shared, ui, worker, past, Goto, Scalars, Types, Vector
  <1>4. Truths'
    BY Zenon DEF Clear, shared, ui, worker, past, Goto, Truths
  <1>5. Threads'
    BY <1>e DEF Clear, shared, ui, worker, past, Goto, Threads, Types
  <1>6. Flagged'
    BY <1>e DEF Clear, shared, ui, worker, past, Goto, Flagged, Types, Vector, Threads
  <1>7. Found'
    BY <1>e DEF Clear, shared, ui, worker, past, Goto, Found, Types, Threads, Flagged,
       Vector
  <1> QED BY <1>1, <1>2, <1>3, <1>4, <1>5, <1>6, <1>7

\* They are not.
LEMMA NoClearIInv ==
    ASSUME IInv, NoClear
    PROVE  IInv'
  <1> USE DEF IInv
  <1>e. Range(tasks) \subseteq Tasks /\ None \notin Tasks /\ "ui" \notin Tasks /\ "ui" # None
    BY Elements, TaskAssumption DEF Vector
  <1>1. Vector'
    BY <1>e DEF NoClear, shared, ui, worker, past, Goto, Vector, Types
  <1>2. Types'
    BY <1>e DEF NoClear, shared, ui, worker, past, Goto, Types
  <1>3. Scalars'
    BY Counts, <1>e DEF NoClear, shared, ui, worker, past, Goto, Scalars, Types, Vector
  <1>4. Truths'
    BY Zenon DEF NoClear, shared, ui, worker, past, Goto, Truths
  <1>5. Threads'
    BY <1>e DEF NoClear, shared, ui, worker, past, Goto, Threads, Types
  <1>6. Flagged'
    BY <1>e DEF NoClear, shared, ui, worker, past, Goto, Flagged, Types, Vector, Threads
  <1>7. Found'
    BY <1>e DEF NoClear, shared, ui, worker, past, Goto, Found, Types, Threads, Flagged,
       Vector
  <1> QED BY <1>1, <1>2, <1>3, <1>4, <1>5, <1>6, <1>7

\* The table of results.
LEMMA DrawBeginIInv ==
    ASSUME IInv, DrawBegin
    PROVE  IInv'
  <1> USE DEF IInv
  <1>e. Range(tasks) \subseteq Tasks /\ None \notin Tasks /\ "ui" \notin Tasks /\ "ui" # None
    BY Elements, TaskAssumption DEF Vector
  <1>1. Vector'
    BY <1>e DEF DrawBegin, shared, ui, worker, past, Goto, Vector, Types
  <1>2. Types'
    BY <1>e DEF DrawBegin, shared, ui, worker, past, Goto, Types
  <1>3. Scalars'
    BY Counts, <1>e DEF DrawBegin, shared, ui, worker, past, Goto, Scalars, Types, Vector
  <1>4. Truths'
    BY Zenon DEF DrawBegin, shared, ui, worker, past, Goto, Truths
  <1>5. Threads'
    BY <1>e DEF DrawBegin, shared, ui, worker, past, Goto, Threads, Types
  <1>6. Flagged'
    BY <1>e DEF DrawBegin, shared, ui, worker, past, Goto, Flagged, Types, Vector, Threads
  <1>7. Found'
    BY <1>e DEF DrawBegin, shared, ui, worker, past, Goto, Found, Types, Threads, Flagged,
       Vector
  <1> QED BY <1>1, <1>2, <1>3, <1>4, <1>5, <1>6, <1>7

\* Its rows.
LEMMA DrawRowsIInv ==
    ASSUME IInv, DrawRows
    PROVE  IInv'
  <1> USE DEF IInv
  <1>e. Range(tasks) \subseteq Tasks /\ None \notin Tasks /\ "ui" \notin Tasks /\ "ui" # None
    BY Elements, TaskAssumption DEF Vector
  <1>1. Vector'
    BY <1>e DEF DrawRows, shared, ui, worker, past, Goto, Vector, Types
  <1>2. Types'
    BY <1>e DEF DrawRows, shared, ui, worker, past, Goto, Types
  <1>3. Scalars'
    <2>1. 0 \in 0..Cardinality(Addrs) BY Counts, FS_EmptySet
    <2> QED BY <2>1 DEF DrawRows, Goto, Scalars, worker, past
  <1>4. Truths'
    BY Zenon DEF DrawRows, shared, ui, worker, past, Goto, Truths
  <1>5. Threads'
    BY <1>e DEF DrawRows, shared, ui, worker, past, Goto, Threads, Types
  <1>6. Flagged'
    BY <1>e DEF DrawRows, shared, ui, worker, past, Goto, Flagged, Types, Vector, Threads
  <1>7. Found'
    BY <1>e DEF DrawRows, shared, ui, worker, past, Goto, Found, Types, Threads, Flagged,
       Vector
  <1> QED BY <1>1, <1>2, <1>3, <1>4, <1>5, <1>6, <1>7

\* The memory is deleted.
LEMMA ResetMemIInv ==
    ASSUME IInv, ResetMem
    PROVE  IInv'
  <1> USE DEF IInv
  <1>e. Range(tasks) \subseteq Tasks /\ None \notin Tasks /\ "ui" \notin Tasks /\ "ui" # None
    BY Elements, TaskAssumption DEF Vector
  <1>1. Vector'
    BY <1>e DEF ResetMem, shared, ui, worker, past, Goto, Vector, Types
  <1>2. Types'
    BY <1>e DEF ResetMem, shared, ui, worker, past, Goto, Types
  <1>3. Scalars'
    BY Counts, <1>e DEF ResetMem, shared, ui, worker, past, Goto, Scalars, Types, Vector
  <1>4. Truths'
    BY Zenon DEF ResetMem, shared, ui, worker, past, Goto, Truths
  <1>5. Threads'
    BY <1>e DEF ResetMem, shared, ui, worker, past, Goto, Threads, Types
  <1>6. Flagged'
    BY <1>e DEF ResetMem, shared, ui, worker, past, Goto, Flagged, Types, Vector, Threads
  <1>7. Found'
    BY <1>e DEF ResetMem, shared, ui, worker, past, Goto, Found, Types, Threads, Flagged,
       Vector
  <1> QED BY <1>1, <1>2, <1>3, <1>4, <1>5, <1>6, <1>7

\* Another is created.
LEMMA CreateMemIInv ==
    ASSUME IInv, CreateMem
    PROVE  IInv'
  <1> USE DEF IInv
  <1>e. Range(tasks) \subseteq Tasks /\ None \notin Tasks /\ "ui" \notin Tasks /\ "ui" # None
    BY Elements, TaskAssumption DEF Vector
  <1>1. Vector'
    BY <1>e DEF CreateMem, shared, ui, worker, past, Goto, Vector, Types
  <1>2. Types'
    BY <1>e DEF CreateMem, shared, ui, worker, past, Goto, Types
  <1>3. Scalars'
    BY Counts, <1>e DEF CreateMem, shared, ui, worker, past, Goto, Scalars, Types, Vector
  <1>4. Truths'
    BY Zenon DEF CreateMem, shared, ui, worker, past, Goto, Truths
  <1>5. Threads'
    BY <1>e DEF CreateMem, shared, ui, worker, past, Goto, Threads, Types
  <1>6. Flagged'
    BY <1>e DEF CreateMem, shared, ui, worker, past, Goto, Flagged, Types, Vector, Threads
  <1>7. Found'
    BY <1>e DEF CreateMem, shared, ui, worker, past, Goto, Found, Types, Threads, Flagged,
       Vector
  <1> QED BY <1>1, <1>2, <1>3, <1>4, <1>5, <1>6, <1>7

\* The window's end.
LEMMA ExitIInv ==
    ASSUME IInv, Exit, ~(\E t \in Range(tasks) : thread[t] # "null")
    PROVE  IInv'
  <1> USE DEF IInv
  <1>e. Range(tasks) \subseteq Tasks /\ None \notin Tasks /\ "ui" \notin Tasks /\ "ui" # None
    BY Elements, TaskAssumption DEF Vector
  <1>1. Vector'
    BY <1>e DEF Exit, shared, ui, worker, past, Goto, Vector, Types
  <1>2. Types'
    BY <1>e DEF Exit, shared, ui, worker, past, Goto, Types
  <1>3. Scalars'
    BY Counts, <1>e DEF Exit, shared, ui, worker, past, Goto, Scalars, Types, Vector
  <1>4. Truths'
    BY Zenon DEF Exit, shared, ui, worker, past, Goto, Truths
  <1>5. Threads'
    BY <1>e DEF Exit, shared, ui, worker, past, Goto, Threads, Types
  <1>6. Flagged'
    BY <1>e DEF Exit, shared, ui, worker, past, Goto, Flagged, Types, Vector, Threads
  <1>7. Found'
    BY <1>e DEF Exit, shared, ui, worker, past, Goto, Found, Types, Threads, Flagged, Vector
  <1> QED BY <1>1, <1>2, <1>3, <1>4, <1>5, <1>6, <1>7

\* begin_search.
LEMMA ThreadBeginIInv ==
    ASSUME IInv, NEW t \in Tasks, ThreadBegin(t)
    PROVE  IInv'
  <1> USE DEF IInv
  <1>e. Range(tasks) \subseteq Tasks /\ None \notin Tasks /\ "ui" \notin Tasks /\ "ui" # None
    BY Elements, TaskAssumption DEF Vector
  <1>1. Vector'
    BY <1>e DEF ThreadBegin, Running, shared, ui, worker, past, Goto, Vector, Types
  <1>2. Types'
    BY <1>e DEF ThreadBegin, Running, shared, ui, worker, past, Goto, Types
  <1>3. Scalars'
    BY Counts, <1>e DEF ThreadBegin, Running, shared, ui, worker, past, Goto, Scalars,
       Types, Vector
  <1>4. Truths'
    BY Zenon DEF ThreadBegin, Running, shared, ui, worker, past, Goto, Truths
  <1>5. Threads'
    BY <1>e DEF ThreadBegin, Running, shared, ui, worker, past, Goto, Threads, Types
  <1>6. Flagged'
    BY <1>e DEF ThreadBegin, Running, shared, ui, worker, past, Goto, Flagged, Types,
       Vector, Threads
  <1>7. Found'
    BY <1>e DEF ThreadBegin, Running, shared, ui, worker, past, Goto, Found, Types,
       Threads, Flagged, Vector
  <1> QED BY <1>1, <1>2, <1>3, <1>4, <1>5, <1>6, <1>7

\* continue_search.
LEMMA ThreadContinueIInv ==
    ASSUME IInv, NEW t \in Tasks, ThreadContinue(t)
    PROVE  IInv'
  <1> USE DEF IInv
  <1>e. Range(tasks) \subseteq Tasks /\ None \notin Tasks /\ "ui" \notin Tasks /\ "ui" # None
    BY Elements, TaskAssumption DEF Vector
  <1>1. Vector'
    BY <1>e DEF ThreadContinue, Running, shared, ui, worker, past, Goto, Vector, Types
  <1>2. Types'
    BY <1>e DEF ThreadContinue, Running, shared, ui, worker, past, Goto, Types
  <1>3. Scalars'
    BY Counts, <1>e DEF ThreadContinue, Running, shared, ui, worker, past, Goto, Scalars,
       Types, Vector
  <1>4. Truths'
    BY Zenon DEF ThreadContinue, Running, shared, ui, worker, past, Goto, Truths
  <1>5. Threads'
    BY <1>e DEF ThreadContinue, Running, shared, ui, worker, past, Goto, Threads, Types
  <1>6. Flagged'
    BY <1>e DEF ThreadContinue, Running, shared, ui, worker, past, Goto, Flagged, Types,
       Vector, Threads
  <1>7. Found'
    BY <1>e DEF ThreadContinue, Running, shared, ui, worker, past, Goto, Found, Types,
       Threads, Flagged, Vector
  <1> QED BY <1>1, <1>2, <1>3, <1>4, <1>5, <1>6, <1>7

\* The thread reads.
LEMMA ThreadLookIInv ==
    ASSUME IInv, NEW t \in Tasks, ThreadLook(t)
    PROVE  IInv'
  <1> USE DEF IInv
  <1>e. Range(tasks) \subseteq Tasks /\ None \notin Tasks /\ "ui" \notin Tasks /\ "ui" # None
    BY Elements, TaskAssumption DEF Vector
  <1>1. Vector'
    BY <1>e DEF ThreadLook, Running, shared, ui, worker, past, Goto, Vector, Types
  <1>2. Types'
    BY <1>e DEF ThreadLook, Running, shared, ui, worker, past, Goto, Types
  <1>3. Scalars'
    BY Counts, <1>e DEF ThreadLook, Running, shared, ui, worker, past, Goto, Scalars,
       Types, Vector
  <1>4. Truths'
    BY Zenon DEF ThreadLook, Running, shared, ui, worker, past, Goto, Truths
  <1>5. Threads'
    BY <1>e DEF ThreadLook, Running, shared, ui, worker, past, Goto, Threads, Types
  <1>6. Flagged'
    BY <1>e DEF ThreadLook, Running, shared, ui, worker, past, Goto, Flagged, Types,
       Vector, Threads
  <1>7. Found'
    BY <1>e DEF ThreadLook, Running, shared, ui, worker, past, Goto, Found, Types,
       Threads, Flagged, Vector
  <1> QED BY <1>1, <1>2, <1>3, <1>4, <1>5, <1>6, <1>7

\* The lock is released.
LEMMA ThreadPushedIInv ==
    ASSUME IInv, NEW t \in Tasks, ThreadPushed(t)
    PROVE  IInv'
  <1> USE DEF IInv
  <1>e. Range(tasks) \subseteq Tasks /\ None \notin Tasks /\ "ui" \notin Tasks /\ "ui" # None
    BY Elements, TaskAssumption DEF Vector
  <1>1. Vector'
    BY <1>e DEF ThreadPushed, Running, shared, ui, worker, past, Goto, Vector, Types
  <1>2. Types'
    BY <1>e DEF ThreadPushed, Running, shared, ui, worker, past, Goto, Types
  <1>3. Scalars'
    BY Counts, <1>e DEF ThreadPushed, Running, shared, ui, worker, past, Goto, Scalars,
       Types, Vector
  <1>4. Truths'
    BY Zenon DEF ThreadPushed, Running, shared, ui, worker, past, Goto, Truths
  <1>5. Threads'
    BY <1>e DEF ThreadPushed, Running, shared, ui, worker, past, Goto, Threads, Types
  <1>6. Flagged'
    BY <1>e DEF ThreadPushed, Running, shared, ui, worker, past, Goto, Flagged, Types,
       Vector, Threads
  <1>7. Found'
    BY <1>e DEF ThreadPushed, Running, shared, ui, worker, past, Goto, Found, Types,
       Threads, Flagged, Vector
  <1> QED BY <1>1, <1>2, <1>3, <1>4, <1>5, <1>6, <1>7

\* The thread function returns.
LEMMA ThreadEndsIInv ==
    ASSUME IInv, NEW t \in Tasks, ThreadEnds(t)
    PROVE  IInv'
  <1> USE DEF IInv
  <1>e. Range(tasks) \subseteq Tasks /\ None \notin Tasks /\ "ui" \notin Tasks /\ "ui" # None
    BY Elements, TaskAssumption DEF Vector
  <1>1. Vector'
    BY <1>e DEF ThreadEnds, Running, shared, ui, worker, past, Goto, Vector, Types
  <1>2. Types'
    BY <1>e DEF ThreadEnds, Running, shared, ui, worker, past, Goto, Types
  <1>3. Scalars'
    BY Counts, <1>e DEF ThreadEnds, Running, shared, ui, worker, past, Goto, Scalars,
       Types, Vector
  <1>4. Truths'
    BY Zenon DEF ThreadEnds, Running, shared, ui, worker, past, Goto, Truths
  <1>5. Threads'
    BY <1>e DEF ThreadEnds, Running, shared, ui, worker, past, Goto, Threads, Types
  <1>6. Flagged'
    BY <1>e DEF ThreadEnds, Running, shared, ui, worker, past, Goto, Flagged, Types,
       Vector, Threads
  <1>7. Found'
    BY <1>e DEF ThreadEnds, Running, shared, ui, worker, past, Goto, Found, Types,
       Threads, Flagged, Vector
  <1> QED BY <1>1, <1>2, <1>3, <1>4, <1>5, <1>6, <1>7

\* What was read is compared.
LEMMA ThreadMatchIInv ==
    ASSUME IInv, NEW t \in Tasks, NEW a \in Addrs, ThreadMatch(t, a)
    PROVE  IInv'
  <1> USE DEF IInv
  <1>e. Range(tasks) \subseteq Tasks /\ None \notin Tasks /\ "ui" \notin Tasks /\ "ui" # None
    BY Elements, TaskAssumption DEF Vector
  <1>1. Vector'
    BY <1>e DEF ThreadMatch, Running, shared, ui, worker, past, Goto, Vector, Types
  <1>2. Types'
    BY <1>e DEF ThreadMatch, Running, shared, ui, worker, past, Goto, Types
  <1>3. Scalars'
    BY Counts, <1>e DEF ThreadMatch, Running, shared, ui, worker, past, Goto, Scalars,
       Types, Vector
  <1>4. Truths'
    BY Zenon DEF ThreadMatch, Running, shared, ui, worker, past, Goto, Truths
  <1>5. Threads'
    BY <1>e DEF ThreadMatch, Running, shared, ui, worker, past, Goto, Threads, Types
  <1>6. Flagged'
    BY <1>e DEF ThreadMatch, Running, shared, ui, worker, past, Goto, Flagged, Types,
       Vector, Threads
  <1>7. Found'
    BY <1>e DEF ThreadMatch, Running, shared, ui, worker, past, Goto, Found, Types,
       Threads, Flagged, Vector
  <1> QED BY <1>1, <1>2, <1>3, <1>4, <1>5, <1>6, <1>7

\* A match is added to the results.
LEMMA ThreadPushIInv ==
    ASSUME IInv, NEW t \in Tasks, NEW a \in Addrs, ThreadPush(t, a)
    PROVE  IInv'
  <1> USE DEF IInv
  <1>e. Range(tasks) \subseteq Tasks /\ None \notin Tasks /\ "ui" \notin Tasks /\ "ui" # None
    BY Elements, TaskAssumption DEF Vector
  <1>1. Vector'
    BY <1>e DEF ThreadPush, Running, shared, ui, worker, past, Goto, Vector, Types
  <1>2. Types'
    BY <1>e DEF ThreadPush, Running, shared, ui, worker, past, Goto, Types
  <1>3. Scalars'
    BY Counts, <1>e DEF ThreadPush, Running, shared, ui, worker, past, Goto, Scalars,
       Types, Vector
  <1>4. Truths'
    BY Zenon DEF ThreadPush, Running, shared, ui, worker, past, Goto, Truths
  <1>5. Threads'
    BY <1>e DEF ThreadPush, Running, shared, ui, worker, past, Goto, Threads, Types
  <1>6. Flagged'
    BY <1>e DEF ThreadPush, Running, shared, ui, worker, past, Goto, Flagged, Types,
       Vector, Threads
  <1>7. Found'
    BY <1>e DEF ThreadPush, Running, shared, ui, worker, past, Goto, Found, Types,
       Threads, Flagged, Vector
  <1> QED BY <1>1, <1>2, <1>3, <1>4, <1>5, <1>6, <1>7

-----------------------------------------------------------------------------
\* The faults that end the model.
LEMMA FaultsIInv ==
    ASSUME IInv,
           \/ \E i \in 1..Len(tasks) : DeleteFaults(i)
           \/ ClearFaults \/ DrawFaults \/ Exit
           \/ \E t \in Tasks : ThreadFaults(t)
    PROVE  IInv'
  <1>1. \A kind \in {"unjoined", "no task", "clear", "rows", "dangling", "mem"} :
            Fault(kind) => IInv'
    BY FaultIInv
  <1>2. ASSUME NEW i \in 1..Len(tasks), DeleteFaults(i) PROVE IInv'
    BY <1>1, <1>2 DEF DeleteFaults
  <1>3. CASE ClearFaults BY <1>1, <1>3 DEF ClearFaults
  <1>4. CASE DrawFaults BY <1>1, <1>4 DEF DrawFaults
  <1>5. CASE Exit
    <2>1. CASE \E t \in Range(tasks) : thread[t] # "null" BY <1>1, <1>5, <2>1 DEF Exit
    <2> QED BY <1>5, <2>1, ExitIInv
  <1>6. ASSUME NEW t \in Tasks, ThreadFaults(t) PROVE IInv'
    BY <1>1, <1>6 DEF ThreadFaults
  <1> QED BY <1>2, <1>3, <1>4, <1>5, <1>6

\* No step at all.
LEMMA StutterIInv == IInv /\ UNCHANGED vars => IInv'
  <1> SUFFICES ASSUME IInv, UNCHANGED vars PROVE IInv' OBVIOUS
  <1> USE DEF IInv, vars, shared, ui, worker, past
  <1>1. Vector' /\ Scalars' BY DEF Vector, Scalars
  <1>2. Types' /\ Threads' BY DEF Types, Threads
  <1>3. Flagged' /\ Found' BY DEF Flagged, Found
  <1>4. Truths' BY Zenon DEF Truths
  <1> QED BY <1>1, <1>2, <1>3, <1>4

\* Every step keeps the invariant.
LEMMA NextIInv == IInv /\ [Next]_vars => IInv'
  <1> SUFFICES ASSUME IInv, [Next]_vars PROVE IInv' OBVIOUS
  <1>1. CASE User
    <2>1. ASSUME NEW i \in 1..Len(tasks), DeleteTask(i) \/ DeleteFaults(i) PROVE IInv'
      BY <2>1, DeleteTaskIInv, FaultsIInv, Zenon
    <2>2. ASSUME NEW t \in Tasks, NewTask(t) PROVE IInv' BY <2>2, NewTaskIInv, Zenon
    <2> QED BY <1>1, <2>1, <2>2, ListTasksIInv, ResetMemIInv, CreateMemIInv, FaultsIInv,
               Zenon DEF User
  <1>2. CASE Frame
    BY <1>2, ReadCountIInv, StopIInv, NoStopIInv, JoinStoppedIInv, StartIInv, NoStartIInv,
       CreateIInv, ClearIInv, NoClearIInv, DrawBeginIInv, DrawRowsIInv, FaultsIInv, Zenon
       DEF Frame
  <1>3. ASSUME NEW t \in Tasks, SearchThread(t) PROVE IInv'
    <2>1. ASSUME NEW a \in Addrs, ThreadMatch(t, a) \/ ThreadPush(t, a) PROVE IInv'
      BY <2>1, ThreadMatchIInv, ThreadPushIInv, Zenon
    <2> QED BY <1>3, <2>1, ThreadBeginIInv, ThreadContinueIInv, ThreadLookIInv,
               ThreadPushedIInv, ThreadEndsIInv, FaultsIInv, Zenon DEF SearchThread
  <1> QED BY <1>1, <1>2, <1>3, StutterIInv, Zenon DEF Next

\* The invariant holds in every reachable state.
THEOREM Invariance == Spec => []IInv
  BY InitIInv, NextIInv, PTL DEF Spec

\* Each variable has its type: the tasks in the vector are distinct, and who holds the
\* lock or is selected is one of them.
THEOREM TypeCorrect == Spec => []TypeOK
  <1>1. IInv => TypeOK
    <2> SUFFICES ASSUME IInv PROVE TypeOK OBVIOUS
    <2>1. /\ Range(tasks) \subseteq Tasks /\ Len(tasks) <= capacity
          /\ \A x : x \in Range(tasks) <=> \E i \in 1..Len(tasks) : tasks[i] = x
      BY Elements DEF IInv, Vector
    <2>2. IsInjective(tasks) BY DEF IInv, Vector, IsInjective
    <2>3. mtx \in Range(tasks) \cup {None, "ui"}
      <3>1. CASE mtx \in {None, "ui"} BY <3>1
      <3>2. CASE mtx \in Tasks BY <3>2 DEF IInv, Vector, Threads, Types
      <3> QED BY <3>1, <3>2 DEF IInv, Threads
    <2>4. /\ {searching, cut, bound, lost} \subseteq [Tasks -> BOOLEAN]
          /\ {results, todo, scope, hits} \subseteq [Tasks -> SUBSET Addrs]
          /\ thread \in [Tasks -> {"null", "running", "ended"}]
          /\ tpc \in [Tasks -> {"none", "begin", "continue", "look", "match", "found", "push"}]
      BY Zenon DEF IInv, Types
    <2>5. /\ upc \in {"frame", "count", "stop", "join", "start", "create", "clear", "draw", "rows", "exit"}
          /\ sel \in Range(tasks) \cup {None} /\ searches \in 0..SearchMax
          /\ {count, rows} \subseteq 0..Cardinality(Addrs)
          /\ fault \in {"none", "dangling", "mem", "rows", "clear", "unjoined", "no task"}
      BY DEF IInv, Scalars
    <2>6. mem \in BOOLEAN /\ enter \in BOOLEAN BY Zenon DEF IInv, Truths
    <2> QED BY <2>1, <2>2, <2>3, <2>4, <2>5, <2>6, Zenon DEF TypeOK
  <1> QED BY Invariance, <1>1, PTL

\* A search that nobody stopped or cleared reports all that matches where it looks
\* (gui_imgui.cpp:505-558).
THEOREM CompleteAlways == Spec => []Complete
  <1>1. IInv => Complete
    <2> SUFFICES ASSUME IInv, NEW t \in Range(tasks), thread[t] = "ended", ~cut[t]
                 PROVE  results[t] = hits[t] \cap scope[t]
      BY DEF Complete
    <2>1. t \in Tasks BY Elements DEF IInv, Vector
    <2> QED BY <2>1 DEF IInv, Found
  <1> QED BY Invariance, <1>1, PTL

-----------------------------------------------------------------------------
\* What a step does to one task is a step of SearchResults, or none.
LEMMA Implements ==
    ASSUME IInv, [Next]_vars, NEW u \in Tasks
    PROVE  [Search(u)!Next]_<<scope[u], results[u]>>
  <1>e. Range(tasks) \subseteq Tasks /\ None \notin Tasks
    BY Elements, TaskAssumption DEF IInv, Vector
  <1> USE DEF IInv, Search!Next, Search!Begin, Search!Continue, Search!Found, Search!Clear,
              Search!Delete
  <1>1. ASSUME NEW i \in 1..Len(tasks), DeleteTask(i)
        PROVE  [Search(u)!Next]_<<scope[u], results[u]>>
    BY <1>e, <1>1 DEF DeleteTask, Erase, Types, Vector
  <1>2. ASSUME Start \/ Clear
        PROVE  [Search(u)!Next]_<<scope[u], results[u]>>
    BY <1>2, <1>e DEF Start, Clear, Types, Vector
  <1>3. ASSUME NEW t \in Tasks, ThreadBegin(t)
        PROVE  [Search(u)!Next]_<<scope[u], results[u]>>
    BY <1>3 DEF ThreadBegin, Types, Found, shared
  <1>4. ASSUME NEW t \in Tasks, ThreadContinue(t)
        PROVE  [Search(u)!Next]_<<scope[u], results[u]>>
    BY <1>4 DEF ThreadContinue, Types
  <1>5. ASSUME NEW t \in Tasks, NEW a \in Addrs, ThreadPush(t, a)
        PROVE  [Search(u)!Next]_<<scope[u], results[u]>>
    BY <1>5 DEF ThreadPush, Types, Found, past
  <1>6. ASSUME UNCHANGED <<scope, results>>
        PROVE  [Search(u)!Next]_<<scope[u], results[u]>>
    BY <1>6
  <1>7. CASE User
    <2>1. \/ \E i \in 1..Len(tasks) : DeleteTask(i)
          \/ UNCHANGED <<scope, results>>
      BY <1>7 DEF User, DeleteFaults, Fault, NewTask, ListTasks, ResetMem, CreateMem,
         Exit, shared, past
    <2> QED BY <1>1, <1>6, <2>1
  <1>8. CASE Frame
    <2>1. Start \/ Clear \/ UNCHANGED <<scope, results>>
      BY <1>8 DEF Frame, ReadCount, Stop, NoStop, JoinStopped, NoStart, Create,
         ClearFaults, NoClear, DrawBegin, DrawRows, DrawFaults, Fault, shared, past
    <2> QED BY <1>2, <1>6, <2>1
  <1>9. ASSUME NEW t \in Tasks, SearchThread(t)
        PROVE  [Search(u)!Next]_<<scope[u], results[u]>>
    <2>1. \/ ThreadBegin(t) \/ ThreadContinue(t) \/ \E a \in Addrs : ThreadPush(t, a)
          \/ UNCHANGED <<scope, results>>
      BY <1>9 DEF SearchThread, ThreadLook, ThreadMatch, ThreadPushed, ThreadEnds,
         ThreadFaults, Fault, shared, past
    <2> QED BY <1>3, <1>4, <1>5, <1>6, <2>1
  <1>10. CASE UNCHANGED vars BY <1>6, <1>10 DEF vars, shared, past
  <1> QED BY <1>7, <1>8, <1>9, <1>10 DEF Next

\* Each task implements SearchResults: a continued search reports only addresses of the
\* one before it (gui_imgui.cpp:483-576, mem_utils.hpp:145-212).
THEOREM Refinement == Spec => ResultsInScope
  <1>1. Init => \A t \in Tasks : Search(t)!Init
    BY DEF Init, Search!Init
  <1>2. IInv /\ [Next]_vars => [\A t \in Tasks : [Search(t)!Next]_<<scope[t], results[t]>>]_vars
    BY Implements
  <1> QED BY Invariance, <1>1, <1>2, PTL DEF Spec, ResultsInScope
=============================================================================
