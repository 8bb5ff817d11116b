---------------------------- MODULE LinuxProc_proofs ----------------------------
(***************************************************************************)
(* Proofs about LinuxProc: its types, what the lists of processes and      *)
(* threads say of tasks that come and go, and what the list of regions     *)
(* says of mappings that come and go, for every number of tasks, lives     *)
(* and addresses, and every set of layouts.                                *)
(*                                                                         *)
(* The invariant has a part about the machine, one about the RPC thread's  *)
(* place, two about the list of tasks and one about the list of regions.   *)
(***************************************************************************)
EXTENDS LinuxProc, TLAPS

TaskSet   == [id : Ids, status : 0..MaxLife, name : 0..MaxLife, cmdlines : 0..MaxLife]
RegionSet == [start : 0..Top, size : 1..Top,
              prot : SUBSET {"READ", "WRITE", "EXECUTE", "PRIVATE", "SHARED"}]
Mapped    == [start : 0..Top, end : 0..Top, kind : Kinds, device : Devices]

\* Who runs, and how each life of a number began: that of a process as a process.
Machine ==
    /\ tgid \in [Ids -> Ids \cup {0}] /\ \A i \in Alive : tgid[i] \in Leaders
    /\ born \in [Ids -> Seq(BOOLEAN)]
    /\ \A i \in Ids : Len(born[i]) <= MaxLife
    /\ \A i \in Leaders : Len(born[i]) > 0 /\ born[i][Len(born[i])] = TRUE

\* Where the RPC thread is, and on what.
Places ==
    /\ op \in {"none", "update", "threads", "children", "regions"}
    /\ pc \in {"idle", "entry", "status", "comm", "cmdline", "line", "crashed"}
    /\ target \in Ids \cup {0} /\ seen \subseteq Ids
    /\ entry \in [id : Ids \cup {0}, status : 0..MaxLife]
    /\ maps \in Layouts \cup {{}}
    /\ op = "regions" => pc \in {"idle", "line", "crashed"}
    /\ pc = "line" => op = "regions"
    /\ pc \in {"status", "comm", "cmdline"} => entry.id \in seen

\* The list of tasks, and the one that is being filled.
Described ==
    op # "regions" =>
       /\ list \in Seq(TaskSet)
       /\ pc = "cmdline" => Len(list) > 0 /\ list[Len(list)].id = entry.id

\* Life n of i began as a process.
Recorded(i, n) == n \in 1..Len(born[i]) /\ born[i][n] = TRUE

\* Of the processes, each is listed once, and was a process.
Processes ==
    op = "update" =>
       /\ \A k \in DOMAIN list : list[k].id \in seen /\ Recorded(list[k].id, list[k].status)
       /\ \A j, k \in DOMAIN list : list[j].id = list[k].id => j = k
       /\ pc = "comm" => Recorded(entry.id, entry.status)
       /\ pc \in {"status", "comm"} => \A k \in DOMAIN list : list[k].id # entry.id

\* Who has been there since the call began is there, and listed, or about to be.
Full(r, i) ==
    /\ r.id = i /\ r.name = Life(i)
    /\ op = "update" => r.status = Life(i) /\ r.cmdlines = Life(i)
Listed(i) == \E k \in DOMAIN list : Full(list[k], i)
Pending(i) ==
    /\ entry.id = i /\ pc \in {"status", "comm", "cmdline"}
    /\ pc = "comm" /\ op = "update" => entry.status = Life(i)
    /\ pc = "cmdline" => /\ list[Len(list)].name = Life(i)
                         /\ op = "update" => list[Len(list)].status = Life(i)
Steadies ==
    /\ op # "regions" => steady \subseteq Alive
    /\ op = "update" => steady \subseteq Leaders
    /\ op \in {"threads", "children"} => steady \subseteq Tasks(target)
    /\ op \in {"update", "threads"} =>
          /\ \A i \in steady \cap seen : Listed(i) \/ Pending(i)
          /\ pc = "idle" => \A i \in steady : Listed(i)

\* The regions are apart, and hold every address read so far of the mappings that
\* have been there since the call began.
Wanted(kind) == kind.rwx \cup {IF kind.private THEN "PRIVATE" ELSE "SHARED"}
Held(m, a) == \E k \in DOMAIN list : Holds(list[k], a) /\ list[k].prot = Wanted(m.kind)
Apart == \A j, k \in DOMAIN list : j < k => list[j].start + list[j].size <= list[k].start
Covered ==
    op = "regions" =>
       /\ list \in Seq(RegionSet) /\ Apart
       /\ \A k \in DOMAIN list : list[k].start + list[k].size <= ReadTo
       /\ steady \subseteq Mapped /\ \A m \in steady : m.start < m.end
       /\ pc = "line" => steady \subseteq maps /\ (steady # {} => target \in Alive)
       /\ \A m \in steady : \A a \in m.start..(m.end - 1) :
             (pc # "idle" => a < ReadTo) => Held(m, a) /\ Parses(m)

IInv == Machine /\ Places /\ Described /\ Processes /\ Ascending /\ Steadies /\ Covered

-----------------------------------------------------------------------------
(* The machine. *)

USE DEF kernel

\* The part of the machine of a step: only Kernel touches it.
Rpc ==
    \/ Remap \/ Update \/ Threads \/ Children \/ Regions
    \/ Entry \/ Throw \/ Done \/ Status \/ Comm \/ Cmdline \/ Line \/ LineThrows \/ EndOfMaps

\* Every step but the machine's own leaves who runs as it is.
LEMMA RpcKeepsMachine == ASSUME Rpc PROVE UNCHANGED kernel
  BY DEF Rpc, Remap, Update, Threads, Children, Regions, Call, Entry, Throw, Done,
         Status, Comm, Cmdline, Line, LineThrows, EndOfMaps

\* The list and what it is filled with are not the machine's.
LEMMA KernelKeepsList == ASSUME Kernel PROVE UNCHANGED <<maps, op, pc, target, entry, seen, list>>
  BY DEF Kernel

\* A task that runs has had at most MaxLife lives.
LEMMA LifeBound == ASSUME Machine, NEW i \in Ids PROVE Life(i) \in 0..MaxLife
  BY ProcAssumption DEF Machine, Life

\* What one step of the machine does: tasks end, whole processes with all theirs, or
\* one begins.
LEMMA KernelCases ==
    ASSUME Kernel, Machine
    PROVE  \/ \E gone \in SUBSET Ids :
                 Ends(gone) /\ \A i \in Alive \ gone : tgid[i] \notin gone
           \/ \E i \in Ids : \E p \in Leaders \cup {i} : Begins(i, p)
  <1>1. CASE \E i \in Ids : Begins(i, i)
    BY <1>1
  <1>2. CASE \E i \in Ids, p \in Leaders : Begins(i, p)
    BY <1>2
  <1>3. ASSUME NEW i \in Alive \ Leaders, Ends({i})
        PROVE  \E gone \in SUBSET Ids : Ends(gone) /\ \A j \in Alive \ gone : tgid[j] \notin gone
    <2>1. {i} \in SUBSET Ids BY DEF Alive
    <2>2. \A j \in Alive : tgid[j] # i BY <1>3 DEF Machine
    <2> QED BY <1>3, <2>1, <2>2
  <1>4. ASSUME NEW p \in Leaders, Ends(Tasks(p))
        PROVE  \E gone \in SUBSET Ids : Ends(gone) /\ \A j \in Alive \ gone : tgid[j] \notin gone
    <2>1. Tasks(p) \in SUBSET Ids BY DEF Tasks
    <2>2. ASSUME NEW j \in Alive, tgid[j] \in Tasks(p)
          PROVE  j \in Tasks(p)
      <3>1. tgid[j] \in Leaders BY DEF Machine
      <3> QED BY <2>2, <3>1 DEF Leaders, Tasks, Alive
    <2> QED BY <1>4, <2>1, <2>2
  <1> QED BY <1>1, <1>2, <1>3, <1>4 DEF Kernel

\* Who ran before and after a step of the machine is the same task in the same life.
LEMMA SameLife ==
    ASSUME Kernel, Machine, NEW i \in Alive, i \in Alive'
    PROVE  Life(i)' = Life(i) /\ tgid'[i] = tgid[i]
  <1>1. ASSUME NEW gone \in SUBSET Ids, Ends(gone) PROVE Life(i)' = Life(i) /\ tgid'[i] = tgid[i]
    BY <1>1 DEF Ends, Life, Alive, Machine
  <1>2. ASSUME NEW j \in Ids, NEW p, Begins(j, p)
        PROVE  Life(i)' = Life(i) /\ tgid'[i] = tgid[i]
    BY <1>2 DEF Begins, Life, Alive, Machine
  <1> QED BY <1>1, <1>2, KernelCases

\* What Append does, element by element.
LEMMA Appended ==
    ASSUME NEW S, NEW s \in Seq(S), NEW b \in S
    PROVE  /\ Append(s, b) \in Seq(S)
           /\ Len(Append(s, b)) = Len(s) + 1 /\ DOMAIN Append(s, b) = 1..(Len(s) + 1)
           /\ Append(s, b)[Len(s) + 1] = b
           /\ \A n \in 1..Len(s) : Append(s, b)[n] = s[n]
  OBVIOUS

\* A step of the machine keeps the invariant about it, and what has been recorded.
LEMMA MachineStep ==
    ASSUME Machine, Kernel
    PROVE  /\ Machine'
           /\ \A i \in Ids, n \in Nat : Recorded(i, n) => Recorded(i, n)'
  <1>1. ASSUME NEW gone \in SUBSET Ids, Ends(gone), \A i \in Alive \ gone : tgid[i] \notin gone
        PROVE  /\ Machine'
               /\ \A i \in Ids, n \in Nat : Recorded(i, n) => Recorded(i, n)'
    <2>1. tgid' \in [Ids -> Ids \cup {0}] /\ born' = born
      BY <1>1 DEF Ends, Machine
    <2>2. Alive' = Alive \ gone /\ Leaders' = Leaders \ gone
      BY <1>1, ProcAssumption DEF Ends, Alive, Leaders, Machine
    <2>3. \A i \in Alive' : tgid'[i] \in Leaders'
      BY <1>1, <2>2 DEF Ends, Alive, Machine
    <2> QED BY <2>1, <2>2, <2>3 DEF Machine, Recorded
  <1>2. ASSUME NEW i \in Ids, NEW p \in Leaders \cup {i}, Begins(i, p)
        PROVE  /\ Machine'
               /\ \A j \in Ids, n \in Nat : Recorded(j, n) => Recorded(j, n)'
    <2> DEFINE b == IF i = p THEN TRUE ELSE FALSE
    <2>0. b \in BOOLEAN /\ born' = [born EXCEPT ![i] = Append(@, b)]
      <3>1. (i = p) = b OBVIOUS
      <3> QED BY <1>2, <3>1, Zenon DEF Begins
    <2>1. tgid' \in [Ids -> Ids \cup {0}] /\ tgid' = [tgid EXCEPT ![i] = p]
      BY <1>2 DEF Begins, Machine, Leaders
    <2>2. Leaders' = IF p = i THEN Leaders \cup {i} ELSE Leaders
      BY <1>2, <2>1, ProcAssumption DEF Begins, Leaders, Alive, Machine
    <2>3. \A j \in Alive' : tgid'[j] \in Leaders'
      BY <1>2, <2>1, <2>2 DEF Begins, Leaders, Alive, Machine
    <2> HIDE DEF b
    <2>4. born[i] \in Seq(BOOLEAN) /\ Len(born[i]) \in Nat
      BY DEF Machine
    <2>5. /\ Append(born[i], b) \in Seq(BOOLEAN)
          /\ Len(Append(born[i], b)) = Len(born[i]) + 1
          /\ Append(born[i], b)[Len(born[i]) + 1] = b
          /\ \A n \in 1..Len(born[i]) : Append(born[i], b)[n] = born[i][n]
      BY <2>0, <2>4, Appended
    <2>6. born' \in [Ids -> Seq(BOOLEAN)] /\ \A j \in Ids : Len(born'[j]) <= MaxLife
      BY <1>2, <2>0, <2>4, <2>5, ProcAssumption DEF Begins, Machine
    <2>7. ASSUME NEW j \in Leaders' PROVE Len(born'[j]) > 0 /\ born'[j][Len(born'[j])] = TRUE
      <3>1. CASE j = i
        <4>1. i \notin Leaders BY <1>2, ProcAssumption DEF Begins, Leaders, Alive
        <4>2. p = i BY <2>2, <3>1, <4>1
        <4>3. b = TRUE BY <4>2 DEF b
        <4> QED BY <2>0, <2>4, <2>5, <3>1, <4>3 DEF Machine
      <3>2. CASE j # i
        BY <2>0, <2>2, <3>2 DEF Machine, Leaders
      <3> QED BY <3>1, <3>2
    <2>8. ASSUME NEW j \in Ids, NEW n \in Nat, Recorded(j, n) PROVE Recorded(j, n)'
      <3>1. CASE j = i BY <2>0, <2>4, <2>5, <2>8, <3>1 DEF Recorded, Machine
      <3>2. CASE j # i BY <2>0, <2>8, <3>2 DEF Recorded, Machine
      <3> QED BY <3>1, <3>2
    <2> QED BY <2>1, <2>3, <2>6, <2>7, <2>8 DEF Machine
  <1> QED BY <1>1, <1>2, KernelCases

-----------------------------------------------------------------------------
(* The RPC thread's place. *)

\* Every step leaves the RPC thread at a place of the call it is in.
LEMMA PlacesStep ==
    ASSUME Machine, Places, [Next]_vars
    PROVE  Places'
  <1>1. CASE Kernel \/ UNCHANGED vars
    BY <1>1, KernelKeepsList DEF Places, vars
  <1>2. CASE Remap
    BY <1>2 DEF Remap, Places
  <1>3. CASE Update
    BY <1>3, ProcAssumption DEF Update, Call, Places, NoEntry
  <1>4. CASE Threads
    BY <1>4, ProcAssumption DEF Threads, Call, Places, NoEntry
  <1>5. CASE Children
    BY <1>5, ProcAssumption DEF Children, Call, Places, NoEntry
  <1>6. CASE Regions
    BY <1>6, ProcAssumption DEF Regions, Call, Places, NoEntry
  <1>7. CASE Entry
    <2>1. PICK i \in Scope \ seen :
             /\ entry' = [id |-> i, status |-> 0] /\ seen' = seen \cup {i}
             /\ pc' = IF op = "threads" THEN "comm"
                      ELSE IF op = "children" /\ i = target THEN "entry" ELSE "status"
      BY <1>7 DEF Entry
    <2>2. i \in Ids BY DEF Scope, Leaders, Tasks
    <2>3. op' = op /\ maps' = maps /\ target' = target /\ pc = "entry" BY <1>7 DEF Entry
    <2> QED BY <2>1, <2>2, <2>3, ProcAssumption DEF Places
  <1>8. CASE Throw \/ Done
    BY <1>8 DEF Throw, Done, Places
  <1>9. CASE Status
    <2>1. entry.id \in Ids /\ Life(entry.id) \in 0..MaxLife
      BY <1>9, LifeBound DEF Status, Places
    <2> QED BY <1>9, <2>1 DEF Status, Places
  <1>10. CASE Comm \/ Cmdline
    BY <1>10 DEF Comm, Cmdline, Places
  <1>11. CASE Line \/ LineThrows \/ EndOfMaps
    BY <1>11 DEF Line, LineThrows, EndOfMaps, Places
  <1> QED BY <1>1, <1>2, <1>3, <1>4, <1>5, <1>6, <1>7, <1>8, <1>9, <1>10, <1>11 DEF Next

\* Sorting gives a list of the same elements at other places.
LEMMA SortedFacts ==
    ASSUME Described, NEW l \in Sorted(list), op # "regions"
    PROVE  /\ l \in Seq(TaskSet) /\ Len(l) = Len(list)
           /\ \E p \in Bijection(1..Len(list), 1..Len(list)) :
                 /\ \A k \in 1..Len(list) : p[k] \in 1..Len(list) /\ l[k] = list[p[k]]
                 /\ \A j, k \in 1..Len(list) : p[j] = p[k] => j = k
                 /\ \A k \in 1..Len(list) : \E j \in 1..Len(list) : p[j] = k
           /\ op = "update" => \A j, k \in 1..Len(l) : j < k => l[j].id <= l[k].id
  <1> DEFINE N == 1..Len(list)
  <1>0. list \in Seq(TaskSet) /\ Len(list) \in Nat BY DEF Described
  <1>1. ASSUME NEW p \in Bijection(N, N)
        PROVE  /\ \A k \in N : p[k] \in N
               /\ \A j, k \in N : p[j] = p[k] => j = k
               /\ \A k \in N : \E j \in N : p[j] = k
    BY DEF Bijection, Injection, Surjection, IsInjective
  <1>2. CASE op = "update"
    <2>1. PICK p \in Bijection(N, N) : l = [k \in N |-> list[p[k]]]
      BY <1>2 DEF Sorted, Orders
    <2>2. l \in Seq(TaskSet) /\ Len(l) = Len(list)
      BY <1>0, <1>1, <2>1
    <2> QED BY <1>1, <1>2, <2>1, <2>2 DEF Sorted
  <1>3. CASE op # "update"
    <2> DEFINE p == [k \in N |-> k]
    <2>1. p \in Bijection(N, N) BY DEF Bijection, Injection, Surjection, IsInjective
    <2>2. l = list BY <1>3 DEF Sorted
    <2> QED BY <1>0, <1>1, <1>3, <2>1, <2>2
  <1> QED BY <1>2, <1>3

\* One more task: the name in comm is what Life says.
CommRecord == [id |-> entry.id, status |-> entry.status, name |-> Life(entry.id), cmdlines |-> 0]

\* The list is as it was, with that at its end.
LEMMA CommFacts ==
    ASSUME Machine, Places, Described, Comm
    PROVE  /\ op # "regions" /\ entry.id \in Ids /\ entry.id \in seen
           /\ CommRecord \in TaskSet /\ list \in Seq(TaskSet) /\ Len(list) \in Nat
           /\ list' = Append(list, CommRecord) /\ list' \in Seq(TaskSet)
           /\ DOMAIN list = 1..Len(list) /\ DOMAIN list' = 1..(Len(list) + 1)
           /\ Len(list') = Len(list) + 1
           /\ list'[Len(list) + 1] = CommRecord
           /\ \A n \in 1..Len(list) : list'[n] = list[n]
  <1>1. op # "regions" /\ entry.id \in Ids /\ entry.id \in seen BY DEF Comm, Places
  <1>2. Life(entry.id) \in 0..MaxLife BY <1>1, LifeBound
  <1>3. CommRecord \in TaskSet BY <1>1, <1>2, ProcAssumption DEF CommRecord, TaskSet, Places
  <1>4. list \in Seq(TaskSet) BY <1>1 DEF Described
  <1>5. list' = Append(list, CommRecord) BY DEF Comm, CommRecord
  <1> HIDE DEF CommRecord
  <1> QED BY <1>1, <1>3, <1>4, <1>5, Appended

\* The command line of the last one.
LEMMA CmdlineFacts ==
    ASSUME Machine, Places, Described, Cmdline
    PROVE  /\ op # "regions" /\ entry.id \in Ids /\ entry.id \in seen
           /\ list \in Seq(TaskSet) /\ list' \in Seq(TaskSet)
           /\ Len(list) \in Nat \ {0} /\ Len(list') = Len(list)
           /\ list[Len(list)].id = entry.id
           /\ list'[Len(list)] = [list[Len(list)] EXCEPT !.cmdlines = Life(entry.id)]
           /\ \A n \in 1..Len(list) : n # Len(list) => list'[n] = list[n]
           /\ \A n \in 1..Len(list) : /\ list'[n].id = list[n].id /\ list'[n].name = list[n].name
                                        /\ list'[n].status = list[n].status
  <1>1. op # "regions" /\ entry.id \in Ids /\ entry.id \in seen BY DEF Cmdline, Places
  <1>2. Life(entry.id) \in 0..MaxLife BY <1>1, LifeBound
  <1>3. list \in Seq(TaskSet) /\ Len(list) \in Nat \ {0} /\ list[Len(list)].id = entry.id
    BY <1>1 DEF Described, Cmdline
  <1> DEFINE r == [list[Len(list)] EXCEPT !.cmdlines = Life(entry.id)]
  <1>4. /\ r \in TaskSet /\ r.id = list[Len(list)].id /\ r.name = list[Len(list)].name
        /\ r.status = list[Len(list)].status
    <2>1. list[Len(list)] \in TaskSet BY <1>3
    <2>2. \A x \in TaskSet, n \in 0..MaxLife :
             LET y == [x EXCEPT !.cmdlines = n]
             IN  y \in TaskSet /\ y.id = x.id /\ y.name = x.name /\ y.status = x.status
      BY DEF TaskSet
    <2> QED BY <1>2, <2>1, <2>2
  <1>5. list' = [list EXCEPT ![Len(list)] = r] BY DEF Cmdline
  <1> HIDE DEF r
  <1>6. list' \in Seq(TaskSet) /\ Len(list') = Len(list)
    BY <1>3, <1>4, <1>5
  <1>7. list'[Len(list)] = r /\ \A n \in 1..Len(list) : n # Len(list) => list'[n] = list[n]
    BY <1>3, <1>5
  <1> QED BY <1>1, <1>3, <1>4, <1>6, <1>7 DEF r

\* Every step leaves a list of tasks a list of tasks.
LEMMA DescribedStep ==
    ASSUME Machine, Places, Described, [Next]_vars
    PROVE  Described'
  <1>1. CASE Kernel \/ UNCHANGED vars
    BY <1>1, KernelKeepsList DEF Described, vars
  <1>2. CASE Update \/ Threads \/ Children \/ Regions
    <2>1. list' = <<>> /\ <<>> \in Seq(TaskSet) BY <1>2 DEF Update, Threads, Children,
         Regions, Call
    <2>2. pc' # "cmdline" BY <1>2 DEF Update, Threads, Children, Regions, Call
    <2> QED BY <2>1, <2>2 DEF Described
  <1>3. CASE Entry \/ Throw \/ Status
    BY <1>3 DEF Entry, Throw, Status, Described
  <1>4. CASE Done
    BY <1>4, SortedFacts DEF Done, Described, Places
  <1>5. CASE Comm
    <2>1. entry' = entry BY <1>5 DEF Comm
    <2>2. CommRecord.id = entry.id BY DEF CommRecord
    <2> QED BY <1>5, <2>1, <2>2, CommFacts DEF Described
  <1>6. CASE Cmdline
    BY <1>6, CmdlineFacts DEF Described, Cmdline
  <1>7. CASE Remap \/ Line \/ LineThrows \/ EndOfMaps
    BY <1>7 DEF Remap, Line, LineThrows, EndOfMaps, Described, Places
  <1> QED BY <1>1, <1>2, <1>3, <1>4, <1>5, <1>6, <1>7 DEF Next

-----------------------------------------------------------------------------
(* The list of processes. *)

\* What is recorded stays so.
LEMMA RecordedStays ==
    ASSUME Machine, [Next]_vars, NEW i \in Ids, NEW n \in Nat, Recorded(i, n)
    PROVE  Recorded(i, n)'
  <1>1. CASE Kernel BY <1>1, MachineStep
  <1>2. CASE Rpc BY <1>2, RpcKeepsMachine DEF Recorded
  <1>3. CASE UNCHANGED vars BY <1>3 DEF vars, Recorded
  <1> QED BY <1>1, <1>2, <1>3 DEF Next, Rpc

\* The elements of the list of tasks, for what is recorded of them.
LEMMA ListTypes ==
    ASSUME Described, op # "regions", NEW k \in DOMAIN list
    PROVE  list[k].id \in Ids /\ list[k].status \in Nat
  <1>1. list[k] \in TaskSet BY DEF Described
  <1> QED BY <1>1, ProcAssumption DEF TaskSet

\* Every step keeps each process listed once, and recorded as one.
LEMMA ProcessesStep ==
    ASSUME Machine, Places, Described, Processes, [Next]_vars
    PROVE  Processes'
  <1>0. ASSUME UNCHANGED <<op, pc, entry, list, seen>>
        PROVE  Processes'
    <2> SUFFICES ASSUME op = "update" PROVE Processes'
      BY <1>0 DEF Processes
    <2>1. \A k \in DOMAIN list : Recorded(list[k].id, list[k].status)'
      BY RecordedStays, ListTypes, <1>0 DEF Processes
    <2>2. pc = "comm" => Recorded(entry.id, entry.status)'
      <3> SUFFICES ASSUME pc = "comm" PROVE Recorded(entry.id, entry.status)'
        OBVIOUS
      <3>1. entry.id \in Ids /\ entry.status \in Nat BY ProcAssumption DEF Places
      <3> QED BY <1>0, <3>1, RecordedStays DEF Processes
    <2> QED BY <1>0, <2>1, <2>2 DEF Processes
  <1>1. CASE Kernel \/ UNCHANGED vars
    BY <1>0, <1>1, KernelKeepsList DEF vars
  <1>2. CASE Update \/ Threads \/ Children \/ Regions
    <2>1. list' = <<>> /\ DOMAIN <<>> = {} BY <1>2 DEF Update, Threads, Children, Regions,
         Call
    <2>2. pc' \notin {"comm", "status"} BY <1>2 DEF Update, Threads, Children, Regions, Call
    <2> QED BY <2>1, <2>2 DEF Processes
  <1> SUFFICES ASSUME op = "update", op' = op, Rpc PROVE Processes'
    BY <1>1, <1>2 DEF Next, Rpc, Remap, Entry, Throw, Done, Status, Comm, Cmdline, Line,
       LineThrows, EndOfMaps, Processes
  <1>3. UNCHANGED kernel BY RpcKeepsMachine
  <1>4. CASE Entry
    <2>1. PICK i \in Scope \ seen : entry' = [id |-> i, status |-> 0] /\ seen' = seen \cup {i}
      BY <1>4 DEF Entry
    <2>2. pc' # "comm" /\ list' = list BY <1>4 DEF Entry
    <2>3. \A k \in DOMAIN list : list[k].id # i BY DEF Processes
    <2> QED BY <1>3, <2>1, <2>2, <2>3 DEF Processes, Recorded
  <1>5. CASE Throw
    BY <1>3, <1>5 DEF Throw, Processes, Recorded
  <1>6. CASE Done
    <2>1. /\ seen' = seen /\ pc' = "idle" /\ list' \in Sorted(list) BY <1>6 DEF Done
    <2>2. PICK q \in Bijection(1..Len(list), 1..Len(list)) :
                 /\ \A k \in 1..Len(list) : q[k] \in 1..Len(list) /\ list'[k] = list[q[k]]
                 /\ \A j, k \in 1..Len(list) : q[j] = q[k] => j = k
      BY <2>1, SortedFacts
    <2>3. list' \in Seq(TaskSet) /\ Len(list') = Len(list) BY <2>1, SortedFacts
    <2>4. DOMAIN list' = 1..Len(list) /\ DOMAIN list = 1..Len(list)
      BY <2>3 DEF Described
    <2> QED BY <1>3, <2>1, <2>2, <2>4 DEF Processes, Recorded
  <1>7. CASE Status
    <2>1. entry.id \in Ids /\ pc = "status" BY <1>7 DEF Status, Places
    <2>2. CASE Kept(entry.id)
      <3>1. entry' = [entry EXCEPT !.status = Life(entry.id)] /\ list' = list /\ seen' = seen
        BY <1>7, <2>2 DEF Status
      <3>2. entry'.id = entry.id /\ entry'.status = Life(entry.id)
        BY <3>1 DEF Places
      <3>3. Recorded(entry.id, Life(entry.id))
        BY <2>1, <2>2 DEF Kept, Recorded, Machine, Life, Leaders
      <3> QED BY <1>3, <2>1, <3>1, <3>2, <3>3 DEF Processes, Recorded
    <2>3. CASE ~Kept(entry.id)
      BY <1>3, <1>7, <2>3 DEF Status, Processes, Recorded
    <2> QED BY <2>2, <2>3
  <1>8. CASE Comm
    <2>1. pc = "comm" /\ pc' = "cmdline" /\ seen' = seen BY <1>8 DEF Comm
    <2>2. Recorded(entry.id, entry.status) /\ \A k \in DOMAIN list : list[k].id # entry.id
      BY <2>1 DEF Processes
    <2>3. CommRecord.id = entry.id /\ CommRecord.status = entry.status BY DEF CommRecord
    <2>4. /\ DOMAIN list = 1..Len(list) /\ DOMAIN list' = 1..(Len(list) + 1) /\ Len(list) \in Nat
          /\ list'[Len(list) + 1] = CommRecord /\ \A n \in 1..Len(list) : list'[n] = list[n]
          /\ entry.id \in seen
      BY <1>8, CommFacts
    <2>5. \A k \in DOMAIN list' : list'[k].id \in seen' /\ Recorded(list'[k].id, list'[k].status)
      BY <2>1, <2>2, <2>3, <2>4 DEF Processes
    <2>6. \A j, k \in DOMAIN list' : list'[j].id = list'[k].id => j = k
      BY <2>2, <2>3, <2>4 DEF Processes
    <2> QED BY <1>3, <2>1, <2>5, <2>6 DEF Processes, Recorded
  <1>9. CASE Cmdline
    <2>1. pc' = "entry" /\ seen' = seen BY <1>9 DEF Cmdline
    <2>2. DOMAIN list' = 1..Len(list) /\ DOMAIN list = 1..Len(list)
      BY <1>9, CmdlineFacts
    <2> QED BY <1>3, <1>9, <2>1, <2>2, CmdlineFacts DEF Processes, Recorded
  <1>10. CASE Remap \/ Line \/ LineThrows \/ EndOfMaps
    BY <1>10 DEF Remap, Line, LineThrows, EndOfMaps, Places
  <1> QED BY <1>2, <1>4, <1>5, <1>6, <1>7, <1>8, <1>9, <1>10, Zenon DEF Rpc

\* The list is sorted when the call ends, and its numbers differ.
LEMMA AscendingStep ==
    ASSUME Machine, Places, Described, Processes, Processes', Ascending, [Next]_vars
    PROVE  Ascending'
  <1>1. CASE Kernel \/ UNCHANGED vars
    BY <1>1, KernelKeepsList DEF vars, Ascending
  <1>2. CASE Done
    <2> SUFFICES ASSUME op = "update" PROVE Ascending'
      BY <1>2 DEF Done, Ascending
    <2>1. list' \in Sorted(list) /\ op' = op BY <1>2 DEF Done
    <2>2. list' \in Seq(TaskSet) BY <2>1, SortedFacts
    <2>3. \A j, k \in DOMAIN list' : j < k => list'[j].id <= list'[k].id
      <3>1. \A j, k \in 1..Len(list') : j < k => list'[j].id <= list'[k].id
        BY <2>1, SortedFacts
      <3>2. DOMAIN list' = 1..Len(list') BY <2>2
      <3> QED BY <3>1, <3>2
    <2>4. \A k \in DOMAIN list' : list'[k].id \in Nat
      <3>1. \A k \in DOMAIN list' : list'[k] \in TaskSet BY <2>2
      <3> QED BY <3>1, ProcAssumption DEF TaskSet
    <2>5. \A j, k \in DOMAIN list' : j < k => list'[j].id # list'[k].id
      <3>1. \A j, k \in DOMAIN list' : list'[j].id = list'[k].id => j = k
        BY <2>1 DEF Processes
      <3>2. DOMAIN list' \subseteq Nat BY <2>2
      <3> QED BY <3>1, <3>2
    <2> QED BY <2>3, <2>4, <2>5 DEF Ascending
  <1>3. CASE Rpc /\ ~Done
    BY <1>3 DEF Rpc, Remap, Update, Threads, Children, Regions, Call, Entry, Throw, Status,
                Comm, Cmdline, Line, LineThrows, EndOfMaps, Ascending, Places
  <1> QED BY <1>1, <1>2, <1>3 DEF Next, Rpc

-----------------------------------------------------------------------------
(* Who has been there since the call began. *)

\* The machine takes away from those who were there, and changes none of them.
LEMMA SteadiesKernel ==
    ASSUME Machine, Places, Steadies, Kernel
    PROVE  Steadies'
  <1>1. UNCHANGED <<maps, op, pc, target, entry, seen, list>> BY KernelKeepsList
  <1> SUFFICES ASSUME op # "regions" PROVE Steadies'
    BY <1>1 DEF Steadies
  <1>2. steady' \subseteq steady /\ steady' \subseteq Alive'
    <2>1. ASSUME NEW gone \in SUBSET Ids, Ends(gone)
          PROVE  steady' \subseteq steady /\ steady' \subseteq Alive'
      BY <2>1 DEF Ends, Steadies, Alive, Machine
    <2>2. ASSUME NEW i \in Ids, NEW q \in Leaders \cup {i}, Begins(i, q)
          PROVE  steady' \subseteq steady /\ steady' \subseteq Alive'
      BY <2>2 DEF Begins, Steadies, Alive, Machine
    <2> QED BY <2>1, <2>2, KernelCases
  <1>3. \A i \in steady' : i \in Alive /\ Life(i)' = Life(i) /\ tgid'[i] = tgid[i]
    BY <1>2, SameLife DEF Steadies
  <1>4. \A i \in steady' : (Listed(i) => Listed(i)') /\ (Pending(i) => Pending(i)')
    BY <1>1, <1>3 DEF Listed, Full, Pending
  <1>5. op = "update" => steady' \subseteq Leaders'
    BY <1>2, <1>3 DEF Steadies, Leaders, Alive
  <1>6. op \in {"threads", "children"} => steady' \subseteq Tasks(target)'
    BY <1>1, <1>2, <1>3 DEF Steadies, Tasks, Alive
  <1> QED BY <1>1, <1>2, <1>4, <1>5, <1>6 DEF Steadies

\* At the beginning of a call none has been seen, and if it ends at once there is none.
LEMMA SteadiesCalls ==
    ASSUME Machine, Update \/ Threads \/ Children \/ Regions
    PROVE  Steadies'
  <1>1. UNCHANGED kernel /\ seen' = {}
    BY DEF Update, Threads, Children, Regions, Call
  <1>2. Alive' = Alive /\ Leaders' = Leaders BY <1>1 DEF Alive, Leaders
  <1>3. Leaders \subseteq Alive BY ProcAssumption DEF Leaders, Alive
  <1>4. CASE Update
    BY <1>1, <1>2, <1>3, <1>4 DEF Update, Call, Steadies
  <1>5. CASE Threads \/ Children
    <2>1. PICK q \in Ids : target' = q /\ steady' = Tasks(q) /\ op' \in {"threads", "children"}
                           /\ (op' = "threads" /\ pc' = "idle" => q \notin Leaders)
      BY <1>5 DEF Threads, Children, Call
    <2>2. Tasks(q) \subseteq Alive /\ Tasks(target)' = Tasks(q)
      BY <1>1, <2>1, ProcAssumption DEF Tasks, Alive
    <2>3. q \notin Leaders => Tasks(q) = {}
      BY <2>2 DEF Machine, Tasks
    <2> QED BY <1>1, <1>2, <2>1, <2>2, <2>3 DEF Steadies
  <1>6. CASE Regions
    BY <1>6 DEF Regions, Call, Steadies
  <1> QED BY <1>4, <1>5, <1>6

\* The RPC thread lists each of them when it has been through its files.
LEMMA SteadiesStep ==
    ASSUME Machine, Places, Described, Steadies, Rpc
    PROVE  Steadies'
  <1>1. CASE Update \/ Threads \/ Children \/ Regions
    BY <1>1, SteadiesCalls
  <1>2. UNCHANGED kernel BY RpcKeepsMachine
  <1>3. /\ Alive' = Alive /\ Leaders' = Leaders /\ \A i : Life(i)' = Life(i)
        /\ target' = target => Tasks(target)' = Tasks(target)
    BY <1>2 DEF Alive, Leaders, Life, Tasks
  <1>4. CASE Remap \/ Line \/ LineThrows \/ EndOfMaps
    BY <1>4 DEF Remap, Line, LineThrows, EndOfMaps, Places, Steadies
  <1> SUFFICES ASSUME op # "regions", UNCHANGED <<op, target, steady>>,
                      Entry \/ Throw \/ Done \/ Status \/ Comm \/ Cmdline
               PROVE  Steadies'
    BY <1>1, <1>4 DEF Rpc, Entry, Throw, Done, Status, Comm, Cmdline, Places
  <1>5. /\ steady' \subseteq Alive'
        /\ op' = "update" => steady' \subseteq Leaders'
        /\ op' \in {"threads", "children"} => steady' \subseteq Tasks(target)'
    BY <1>3 DEF Steadies
  <1> SUFFICES ASSUME op \in {"update", "threads"}
               PROVE  /\ \A i \in steady \cap seen' : Listed(i)' \/ Pending(i)'
                      /\ pc' = "idle" => \A i \in steady : Listed(i)'
    BY <1>5 DEF Steadies
  <1>6. ASSUME list' = list, NEW i, Listed(i) PROVE Listed(i)'
    BY <1>3, <1>6 DEF Listed, Full
  <1>7. CASE Entry
    <2>1. PICK i \in Scope \ seen :
             /\ entry' = [id |-> i, status |-> 0] /\ seen' = seen \cup {i}
             /\ pc' = IF op = "threads" THEN "comm" ELSE "status"
      BY <1>7 DEF Entry
    <2>2. list' = list /\ pc = "entry" BY <1>7 DEF Entry
    <2>3. Pending(i)' BY <2>1 DEF Pending
    <2>4. \A j \in steady \cap seen : Listed(j) BY <2>2 DEF Steadies, Pending
    <2> QED BY <1>6, <2>1, <2>2, <2>3, <2>4
  <1>8. CASE Throw
    BY <1>6, <1>8 DEF Throw, Steadies, Pending
  <1>9. CASE Done
    <2>1. /\ pc = "entry" /\ steady \subseteq seen /\ seen' = seen
          /\ list' \in Sorted(list)
      BY <1>9 DEF Done
    <2>2. PICK q \in Bijection(1..Len(list), 1..Len(list)) :
                 /\ \A k \in 1..Len(list) : q[k] \in 1..Len(list) /\ list'[k] = list[q[k]]
                 /\ \A k \in 1..Len(list) : \E j \in 1..Len(list) : q[j] = k
      BY <2>1, SortedFacts
    <2>3. list' \in Seq(TaskSet) /\ Len(list') = Len(list) BY <2>1, SortedFacts
    <2>4. DOMAIN list' = 1..Len(list) /\ DOMAIN list = 1..Len(list)
      BY <2>3 DEF Described
    <2>5. ASSUME NEW i \in steady PROVE Listed(i)'
      <3>1. Listed(i) BY <2>1 DEF Steadies, Pending
      <3>2. PICK k \in DOMAIN list : Full(list[k], i) BY <3>1 DEF Listed
      <3>3. PICK j \in 1..Len(list) : q[j] = k BY <2>2, <2>4, <3>2
      <3>4. Full(list[j], i)' BY <1>3, <2>2, <3>2, <3>3 DEF Full
      <3> QED BY <2>4, <3>4 DEF Listed
    <2> QED BY <2>1, <2>5
  <1>10. CASE Status
    <2>1. pc = "status" /\ list' = list /\ seen' = seen BY <1>10 DEF Status
    <2>2. pc' # "idle" BY <1>10 DEF Status
    <2>3. ASSUME NEW i \in steady \cap seen, Pending(i) PROVE Pending(i)'
      <3>1. entry.id = i BY <2>3 DEF Pending
      <3>2. Kept(i)
        BY <1>5, <1>3 DEF Kept, Steadies, Tasks, Leaders, Alive
      <3>3. pc' = "comm" /\ entry' = [entry EXCEPT !.status = Life(i)]
        BY <1>10, <3>1, <3>2 DEF Status
      <3>4. entry'.id = i /\ entry'.status = Life(i) BY <3>1, <3>3 DEF Places
      <3> QED BY <1>3, <3>3, <3>4 DEF Pending
    <2> QED BY <1>6, <2>1, <2>2, <2>3 DEF Steadies
  <1>11. CASE Comm
    <2>1. pc = "comm" /\ entry' = entry /\ seen' = seen
          /\ pc' = IF op = "threads" THEN "entry" ELSE "cmdline"
      BY <1>11 DEF Comm
    <2>2. /\ DOMAIN list = 1..Len(list) /\ DOMAIN list' = 1..(Len(list) + 1) /\ Len(list) \in Nat
          /\ list'[Len(list) + 1] = CommRecord /\ \A n \in 1..Len(list) : list'[n] = list[n]
          /\ Len(list') = Len(list) + 1
      BY <1>11, CommFacts
    <2>3. /\ CommRecord.id = entry.id /\ CommRecord.name = Life(entry.id)
          /\ CommRecord.status = entry.status
      BY DEF CommRecord
    <2>4. ASSUME NEW i, Listed(i) PROVE Listed(i)'
      BY <1>3, <2>2, <2>4 DEF Listed, Full
    <2>5. ASSUME NEW i \in steady \cap seen, Pending(i) PROVE Listed(i)' \/ Pending(i)'
      <3>1. entry.id = i /\ (op = "update" => entry.status = Life(i)) BY <2>1, <2>5 DEF
           Pending
      <3>2. CASE op = "threads"
        <4>1. PICK n : n = Len(list) + 1 OBVIOUS
        <4>2. Full(list[n], i)' BY <1>3, <2>2, <2>3, <3>1, <3>2, <4>1 DEF Full
        <4>3. n \in DOMAIN list' BY <2>2, <4>1
        <4> QED BY <4>2, <4>3 DEF Listed
      <3>3. CASE op = "update"
        BY <1>3, <2>1, <2>2, <2>3, <3>1, <3>3 DEF Pending
      <3> QED BY <3>2, <3>3
    <2> QED BY <2>1, <2>4, <2>5 DEF Steadies
  <1>12. CASE Cmdline
    <2>1. pc = "cmdline" /\ pc' = "entry" /\ seen' = seen BY <1>12 DEF Cmdline
    <2>2. /\ Len(list) \in Nat \ {0} /\ DOMAIN list = 1..Len(list) /\ DOMAIN list' = 1..Len(list)
          /\ list[Len(list)].id = entry.id
          /\ \A n \in 1..Len(list) : n # Len(list) => list'[n] = list[n]
          /\ \A n \in 1..Len(list) : /\ list'[n].id = list[n].id /\ list'[n].name = list[n].name
                                       /\ list'[n].status = list[n].status
      BY <1>12, CmdlineFacts
    <2>3. list'[Len(list)].cmdlines = Life(entry.id)
      <3>1. list[Len(list)] \in TaskSet BY <1>12, <2>2, CmdlineFacts
      <3>2. [list[Len(list)] EXCEPT !.cmdlines = Life(entry.id)].cmdlines = Life(entry.id)
        BY <3>1 DEF TaskSet
      <3> QED BY <1>12, <3>2, CmdlineFacts
    <2>4. ASSUME NEW i, NEW k \in DOMAIN list, list[k].id = i, list[k].name = Life(i),
                 op = "update" => list[k].status = Life(i),
                 k # Len(list) => (op = "update" => list[k].cmdlines = Life(i))
          PROVE  Listed(i)'
      <3>1. op = "update" => list'[k].cmdlines = Life(i) BY <2>2, <2>3, <2>4
      <3>2. Full(list[k], i)' BY <1>3, <2>2, <2>4, <3>1 DEF Full
      <3> QED BY <2>2, <3>2 DEF Listed
    <2>5. ASSUME NEW i \in steady \cap seen PROVE Listed(i)'
      <3>1. CASE Listed(i)
        <4>1. PICK k \in DOMAIN list : Full(list[k], i) BY <3>1 DEF Listed
        <4>2. /\ list[k].id = i /\ list[k].name = Life(i)
              /\ op = "update" => list[k].status = Life(i) /\ list[k].cmdlines = Life(i)
          BY <4>1 DEF Full
        <4> QED BY <2>4, <4>2
      <3>2. CASE Pending(i)
        <4>0. Len(list) \in DOMAIN list
          <5>1. Len(list) \in Nat \ {0} /\ DOMAIN list = 1..Len(list) BY <2>2
          <5> QED BY <5>1
        <4>1. PICK k \in DOMAIN list : k = Len(list) BY <4>0
        <4>2. /\ list[k].id = i /\ list[k].name = Life(i)
              /\ op = "update" => list[k].status = Life(i)
          BY <2>1, <2>2, <3>2, <4>1 DEF Pending
        <4> QED BY <2>4, <4>1, <4>2
      <3> QED BY <3>1, <3>2 DEF Steadies
    <2> QED BY <2>1, <2>5
  <1> QED BY <1>7, <1>8, <1>9, <1>10, <1>11, <1>12

-----------------------------------------------------------------------------
(* Regions. *)

\* The flags of a line: READ, WRITE and EXECUTE as they are, and one of PRIVATE and
\* SHARED.
LEMMA ProtIsWanted == ASSUME NEW kind \in Kinds PROVE Prot(kind) = Wanted(kind)
  <1> DEFINE F == {"READ", "WRITE", "EXECUTE"}
  <1>1. kind.rwx \subseteq F /\ kind.private \in BOOLEAN BY ProcAssumption
  <1>2. Or({}, kind.rwx) = kind.rwx BY DEF Or
  <1>3. \A f \in F : \A g : <<f, g>> \notin Exclusive BY DEF Exclusive
  <1>4. \A g : Or(kind.rwx, {g}) = kind.rwx \cup {g} BY <1>1, <1>3 DEF Or
  <1> QED BY <1>2, <1>4 DEF Prot, Wanted

\* Among regions that are apart, an address is found in the one that holds it.
LEMMA SearchFinds ==
    ASSUME list \in Seq(RegionSet), Apart, NEW a \in Int, NEW k \in DOMAIN list, Holds(list[k], a)
    PROVE  search(list, a) = k
  <1> DEFINE I == {i \in 1..Len(list) : Holds(list[i], a)}
  <1>1. DOMAIN list = 1..Len(list) /\ Len(list) \in Nat OBVIOUS
  <1>2. \A i \in DOMAIN list : list[i].start \in Int /\ list[i].size \in Int
    <2>1. \A i \in DOMAIN list : list[i] \in RegionSet OBVIOUS
    <2> QED BY <2>1, ProcAssumption DEF RegionSet
  <1>3. ASSUME NEW i \in I PROVE i = k
    <2>1. i \in DOMAIN list /\ Holds(list[i], a) BY <1>1
    <2>2. ~(i < k) /\ ~(k < i) BY <1>2, <2>1 DEF Apart, Holds
    <2> QED BY <1>1, <2>1, <2>2
  <1>4. I = {k} BY <1>1, <1>3
  <1>5. Min({k}) = k BY <1>1 DEF Min
  <1>6. search(list, a) = IF I # {} THEN Min(I) ELSE 0 BY DEF search, SelectInSeq
  <1> QED BY <1>4, <1>5, <1>6

\* One more region, from where the list ended to the end of the first mapping behind
\* that.
LEMMA LineFacts ==
    ASSUME Places, Covered, Line
    PROVE  \E m \in Mappings : \E r \in RegionSet :
              /\ op = "regions" /\ target \in Alive /\ m \in maps /\ m \in Mapped
              /\ m.end > ReadTo /\ \A n \in Mappings : m.start <= n.start
              /\ Parses(m)
              /\ r.start >= m.start /\ r.start >= ReadTo /\ r.start + r.size = m.end
              /\ m.start >= ReadTo => r.start = m.start
              /\ m.start < ReadTo => r.start = ReadTo
              /\ r.prot = Wanted(m.kind) /\ list' = Append(list, r)
  <1>1. PICK m \in Mappings :
           /\ \A n \in Mappings : m.start <= n.start
           /\ Parses(m)
           /\ list' = Append(list, Region([m EXCEPT !.start = IF @ < ReadTo THEN ReadTo ELSE @]))
    BY DEF Line
  <1>2. target \in Alive /\ m \in maps /\ m.end > ReadTo BY <1>1 DEF Mappings
  <1>3. maps \in Layouts BY <1>2 DEF Places
  <1>4. m \in Mapped /\ m.start < m.end BY <1>2, <1>3, ProcAssumption DEF Mapped
  <1>5. op = "regions" BY DEF Line, Places
  <1>6. ReadTo \in Nat
    <2>1. list = <<>> \/ list[Len(list)] \in RegionSet BY <1>5 DEF Covered
    <2> QED BY <2>1, ProcAssumption DEF ReadTo, RegionSet
  <1> DEFINE s == IF m.start < ReadTo THEN ReadTo ELSE m.start
             r == [start |-> s, size |-> m.end - s, prot |-> Prot(m.kind)]
  <1>7. m.start \in 0..Top /\ m.end \in 0..Top /\ m.kind \in Kinds /\ Top \in Nat
    BY <1>4, ProcAssumption DEF Mapped
  <1>8. s \in 0..Top /\ m.end - s \in 1..Top /\ s >= m.start /\ s >= ReadTo
    BY <1>2, <1>4, <1>6, <1>7
  <1>9. Prot(m.kind) = Wanted(m.kind) BY <1>7, ProtIsWanted
  <1>10. Wanted(m.kind) \in SUBSET {"READ", "WRITE", "EXECUTE", "PRIVATE", "SHARED"}
    BY <1>7, ProcAssumption DEF Wanted
  <1>11. Region([m EXCEPT !.start = IF @ < ReadTo THEN ReadTo ELSE @]) = r
    BY <1>4 DEF Region, Mapped
  <1>12. r \in RegionSet BY <1>8, <1>9, <1>10 DEF RegionSet
  <1>13. r.start = s /\ r.start + r.size = m.end /\ r.prot = Wanted(m.kind)
    BY <1>7, <1>8, <1>9
  <1>14. list' = Append(list, r) BY <1>1, <1>11
  <1> HIDE DEF r
  <1> QED BY <1>1, <1>2, <1>4, <1>5, <1>6, <1>7, <1>8, <1>12, <1>13, <1>14

\* A line covers the addresses up to the end of its mapping: those behind what was
\* read, of a mapping that was there all the time, are in the first one that is.
LEMMA CoveredLine ==
    ASSUME Places, Covered, Line
    PROVE  Covered'
  <1>1. PICK m \in Mappings : \E r \in RegionSet :
              /\ op = "regions" /\ target \in Alive /\ m \in maps /\ m \in Mapped
              /\ m.end > ReadTo /\ \A n \in Mappings : m.start <= n.start
              /\ Parses(m)
              /\ r.start >= m.start /\ r.start >= ReadTo /\ r.start + r.size = m.end
              /\ m.start >= ReadTo => r.start = m.start
              /\ m.start < ReadTo => r.start = ReadTo
              /\ r.prot = Wanted(m.kind) /\ list' = Append(list, r)
    BY LineFacts
  <1>2. PICK r \in RegionSet :
              /\ r.start >= m.start /\ r.start >= ReadTo /\ r.start + r.size = m.end
              /\ m.start >= ReadTo => r.start = m.start
              /\ m.start < ReadTo => r.start = ReadTo
              /\ r.prot = Wanted(m.kind) /\ list' = Append(list, r)
    BY <1>1
  <1>3. list \in Seq(RegionSet) BY <1>1 DEF Covered
  <1>4. /\ list' \in Seq(RegionSet) /\ Len(list) \in Nat
        /\ Len(list') = Len(list) + 1 /\ DOMAIN list' = 1..(Len(list) + 1)
        /\ DOMAIN list = 1..Len(list)
        /\ list'[Len(list) + 1] = r
        /\ \A n \in 1..Len(list) : list'[n] = list[n]
    BY <1>2, <1>3, Appended
  <1>5. r.start \in Nat /\ r.size \in Nat /\ ReadTo \in Nat /\ m.start \in Nat /\ m.end \in Nat
    <2>1. list = <<>> \/ list[Len(list)] \in RegionSet BY <1>3
    <2> QED BY <1>1, <1>2, <2>1, ProcAssumption DEF ReadTo, RegionSet, Mapped
  <1>6. ReadTo' = m.end
    <2>1. list' # <<>> BY <1>4
    <2> QED BY <1>2, <1>4, <2>1 DEF ReadTo
  <1>7. \A k \in DOMAIN list : list[k].start \in Nat /\ list[k].size \in Nat
    <2>1. \A k \in DOMAIN list : list[k] \in RegionSet BY <1>3
    <2> QED BY <2>1, ProcAssumption DEF RegionSet
  <1>8. \A k \in DOMAIN list : list[k].start + list[k].size <= ReadTo BY <1>1 DEF Covered
  <1>9. Apart'
    <2>1. Apart BY <1>1 DEF Covered
    <2> QED BY <1>2, <1>4, <1>5, <1>7, <1>8, <2>1 DEF Apart
  <1>10. \A k \in DOMAIN list' : list'[k].start + list'[k].size <= ReadTo'
    BY <1>1, <1>2, <1>4, <1>5, <1>6, <1>7, <1>8
  <1>11. /\ op' = op /\ pc' = pc /\ pc = "line" /\ steady' = steady /\ maps' = maps
         /\ target' = target /\ Alive' = Alive
    BY DEF Line, Alive
  <1>12. ASSUME NEW n \in steady, NEW a \in n.start..(n.end - 1), a < m.end
         PROVE  Held(n, a)' /\ Parses(n)
    <2>1. n \in Mapped /\ n \in maps BY <1>1, <1>11 DEF Covered
    <2>2. n.start \in Nat /\ n.end \in Nat /\ a \in Nat BY <2>1, ProcAssumption DEF Mapped
    <2>3. CASE a < ReadTo
      <3>0. Held(n, a) /\ Parses(n) BY <1>1, <2>3 DEF Covered
      <3>1. PICK k \in DOMAIN list : Holds(list[k], a) /\ list[k].prot = Wanted(n.kind)
        BY <3>0 DEF Held
      <3>2. k \in DOMAIN list' /\ list'[k] = list[k] BY <1>4
      <3> QED BY <3>0, <3>1, <3>2 DEF Held, Holds
    <2>4. CASE a >= ReadTo
      <3>1. n \in Mappings BY <1>1, <1>5, <2>1, <2>2, <2>4 DEF Mappings
      <3>2. m.start <= a BY <1>1, <1>5, <2>2, <3>1
      <3>3. maps \in Layouts BY <1>1 DEF Places
      <3>4. m = n BY <1>1, <1>5, <1>12, <2>1, <2>2, <3>2, <3>3, ProcAssumption
      <3>5. r.start <= a /\ a < r.start + r.size BY <1>2, <1>5, <1>12, <2>2, <2>4, <3>2
      <3>6. PICK k : k = Len(list) + 1 OBVIOUS
      <3>7. k \in DOMAIN list' /\ list'[k] = r BY <1>4, <3>6
      <3> QED BY <1>1, <1>2, <3>4, <3>5, <3>7 DEF Held, Holds
    <2> QED BY <1>5, <2>2, <2>3, <2>4
  <1> QED BY <1>1, <1>4, <1>6, <1>9, <1>10, <1>11, <1>12 DEF Covered

\* The end of maps: nothing that was there all the time lies behind the list.
LEMMA CoveredEnd ==
    ASSUME Places, Covered, EndOfMaps
    PROVE  Covered'
  <1>1. /\ pc = "line" /\ pc' = "idle" /\ Mappings = {} /\ op = "regions"
        /\ UNCHANGED <<op, list, steady>>
    BY DEF EndOfMaps, Places
  <1>2. ASSUME NEW m \in steady, NEW a \in m.start..(m.end - 1) PROVE Held(m, a) /\ Parses(m)
    <2>1. target \in Alive /\ m \in maps /\ m \in Mapped BY <1>1 DEF Covered
    <2>2. ~(m.end > ReadTo) BY <1>1, <2>1 DEF Mappings
    <2>3. ReadTo \in Nat
      <3>1. list = <<>> \/ list[Len(list)] \in RegionSet BY <1>1 DEF Covered
      <3> QED BY <3>1, ProcAssumption DEF ReadTo, RegionSet
    <2>4. m.end \in Nat /\ m.start \in Nat BY <2>1, ProcAssumption DEF Mapped
    <2>5. a < ReadTo BY <2>2, <2>3, <2>4
    <2> QED BY <1>1, <2>5 DEF Covered
  <1>3. \A m \in steady : \A a \in m.start..(m.end - 1) : Held(m, a)' /\ Parses(m)
    BY <1>1, <1>2 DEF Held
  <1>4. ReadTo' = ReadTo /\ Apart' = Apart BY <1>1 DEF ReadTo, Apart
  <1> QED BY <1>1, <1>3, <1>4 DEF Covered

\* Mappings that go, or the process that goes, take nothing from the list.
LEMMA CoveredFewer ==
    ASSUME Covered, UNCHANGED <<op, pc, list>>, steady' \subseteq steady,
           op = "regions" /\ pc = "line" =>
              steady' \subseteq maps' /\ (steady' # {} => target' \in Alive')
    PROVE  Covered'
  <1>1. ReadTo' = ReadTo /\ Apart' = Apart /\ \A m, a : Held(m, a)' = Held(m, a)
    BY DEF ReadTo, Apart, Held
  <1> QED BY <1>1 DEF Covered

\* Every step keeps the list of regions.
LEMMA CoveredStep ==
    ASSUME Machine, Places, Covered, [Next]_vars
    PROVE  Covered'
  <1>1. CASE UNCHANGED vars
    BY <1>1, CoveredFewer DEF vars, Covered, Alive
  <1>2. CASE Kernel
    <2> SUFFICES ASSUME op = "regions" PROVE Covered'
      BY <1>2, KernelKeepsList DEF Covered
    <2>1. UNCHANGED <<maps, op, pc, target, entry, seen, list>> BY <1>2, KernelKeepsList
    <2>2. ASSUME NEW gone \in SUBSET Ids, Ends(gone)
          PROVE  steady' \subseteq steady /\ (steady' # {} /\ target \in Alive => target \in Alive')
      BY <2>2 DEF Ends, Alive, Machine
    <2>3. ASSUME NEW i \in Ids, NEW q \in Leaders \cup {i}, Begins(i, q)
          PROVE  steady' \subseteq steady /\ (steady' # {} /\ target \in Alive => target \in Alive')
      BY <2>3 DEF Begins, Alive, Machine
    <2>4. steady' \subseteq steady /\ (steady' # {} /\ target \in Alive => target \in Alive')
      BY <1>2, <2>2, <2>3, KernelCases
    <2>5. pc = "line" => steady' \subseteq maps' /\ (steady' # {} => target' \in Alive')
      BY <2>1, <2>4 DEF Covered
    <2> QED BY <2>1, <2>4, <2>5, CoveredFewer
  <1>3. CASE Remap
    <2>1. /\ UNCHANGED <<op, pc, list, target, tgid>> /\ target \in Leaders
          /\ steady' = steady \cap maps'
      BY <1>3 DEF Remap
    <2>2. target' \in Alive' BY <2>1, ProcAssumption DEF Leaders, Alive
    <2> QED BY <2>1, <2>2, CoveredFewer
  <1>4. CASE Regions
    <2>1. PICK q \in Ids :
             /\ maps' \in IF q \in Alive THEN Layouts ELSE {{}}
             /\ target' = q /\ list' = <<>> /\ steady' = maps' /\ tgid' = tgid
      BY <1>4 DEF Regions, Call
    <2>2. steady' # {} => target' \in Alive' BY <2>1 DEF Alive
    <2>3. steady' \subseteq Mapped /\ \A m \in steady' : m.start < m.end BY <2>1, ProcAssumption DEF Mapped
    <2>4. list' \in Seq(RegionSet) /\ DOMAIN list' = {} /\ ReadTo' = 0 BY <2>1 DEF ReadTo
    <2>5. \A m \in steady' : \A a \in m.start..(m.end - 1) : ~(a < 0)
      BY <2>3, ProcAssumption DEF Mapped
    <2>6. pc' = "line" /\ op' = "regions" BY <1>4 DEF Regions, Call
    <2> QED BY <2>1, <2>2, <2>3, <2>4, <2>5, <2>6 DEF Covered, Apart
  <1>5. CASE Line BY <1>5, CoveredLine
  <1>6. CASE EndOfMaps BY <1>6, CoveredEnd
  <1>9. CASE LineThrows BY <1>9 DEF LineThrows, Covered, Apart, Held, ReadTo
  <1>7. CASE Update \/ Threads \/ Children
    BY <1>7 DEF Update, Threads, Children, Call, Covered
  <1>8. CASE Entry \/ Throw \/ Done \/ Status \/ Comm \/ Cmdline
    BY <1>8 DEF Entry, Throw, Done, Status, Comm, Cmdline, Places, Covered
  <1> QED BY <1>1, <1>2, <1>3, <1>4, <1>5, <1>6, <1>7, <1>8, <1>9 DEF Next

-----------------------------------------------------------------------------
(* The theorems. *)

\* The invariant holds at first.
LEMMA InitIInv == Init => IInv
  <1> SUFFICES ASSUME Init PROVE IInv
    OBVIOUS
  <1>1. Alive = {} /\ Leaders = {} BY ProcAssumption DEF Init, Alive, Leaders
  <1>2. Machine
    <2>1. <<>> \in Seq(BOOLEAN) /\ Len(<<>>) = 0 OBVIOUS
    <2> QED BY <1>1, <2>1, ProcAssumption DEF Init, Machine
  <1>3. Places BY ProcAssumption DEF Init, Places, NoEntry
  <1>4. Described BY DEF Init, Described
  <1>5. Processes /\ Ascending /\ Steadies /\ Covered
    BY DEF Init, Processes, Ascending, Steadies, Covered
  <1> QED BY <1>2, <1>3, <1>4, <1>5 DEF IInv

\* Every step keeps it.
LEMMA IInvStep == IInv /\ [Next]_vars => IInv'
  <1> SUFFICES ASSUME IInv, [Next]_vars PROVE IInv'
    OBVIOUS
  <1> USE DEF IInv
  <1>1. Machine'
    <2>1. CASE Kernel BY <2>1, MachineStep
    <2>2. CASE Rpc BY <2>2, RpcKeepsMachine DEF Machine, Alive, Leaders
    <2>3. CASE UNCHANGED vars BY <2>3 DEF vars, Machine, Alive, Leaders
    <2> QED BY <2>1, <2>2, <2>3 DEF Next, Rpc
  <1>2. Places' BY PlacesStep
  <1>3. Described' BY DescribedStep
  <1>4. Processes' BY ProcessesStep
  <1>5. Ascending' BY <1>4, AscendingStep
  <1>6. Steadies'
    <2>1. CASE UNCHANGED vars
      BY <2>1 DEF vars, Steadies, Listed, Full, Pending, Life, Alive, Leaders, Tasks
    <2> QED BY <2>1, SteadiesKernel, SteadiesStep DEF Next, Rpc
  <1>7. Covered' BY CoveredStep
  <1> QED BY <1>1, <1>2, <1>3, <1>4, <1>5, <1>6, <1>7

\* The invariant holds in every reachable state.
THEOREM Invariance == Spec => []IInv
  BY InitIInv, IInvStep, PTL DEF Spec

\* Every variable keeps its type.
THEOREM TypeCorrect == Spec => []TypeOK
  <1>1. IInv => TypeOK
    <2> SUFFICES ASSUME IInv PROVE TypeOK
      OBVIOUS
    <2>1. op = "regions" => \A k \in DOMAIN list : list[k] \in RegionSet
      BY DEF IInv, Covered
    <2>2. op # "regions" => \A k \in DOMAIN list : list[k] \in TaskSet
      BY DEF IInv, Described
    <2>3. \A i \in Ids : born[i] \in Seq(BOOLEAN) /\ Len(born[i]) <= MaxLife
      BY DEF IInv, Machine
    <2> QED BY <2>1, <2>2, <2>3, Zenon DEF IInv, Machine, Places, TypeOK, TaskSet, RegionSet
  <1> QED BY <1>1, Invariance, PTL

\* The list of processes is in ascending order by id, each once.
THEOREM AscendingAlways == Spec => []Ascending
  <1>1. IInv => Ascending BY DEF IInv
  <1> QED BY <1>1, Invariance, PTL

\* What ran during the whole of a call of update() or threads() is listed, and
\* described by what its own files said.
THEOREM SteadyListedAlways == Spec => []SteadyListed
  <1>1. IInv => SteadyListed BY DEF IInv, Steadies, SteadyListed, Listed, Full
  <1> QED BY <1>1, Invariance, PTL

\* What update() lists was a process when its status was read.
THEOREM ListedWereProcessesAlways == Spec => []ListedWereProcesses
  <1>1. IInv => ListedWereProcesses BY DEF IInv, Processes, Recorded, ListedWereProcesses
  <1> QED BY <1>1, Invariance, PTL

\* The regions are apart, and each address of a mapping that was there all the time
\* is found in one with the mapping's permissions.
THEOREM RegionsTrueAlways == Spec => []RegionsTrue
  <1>1. IInv => RegionsTrue
    <2> SUFFICES ASSUME IInv, op = "regions" PROVE RegionsTrue
      BY DEF RegionsTrue
    <2>1. list \in Seq(RegionSet) /\ Apart BY DEF IInv, Covered
    <2>2. ASSUME pc = "idle", NEW m \in steady, NEW a \in m.start..(m.end - 1)
          PROVE  /\ search(list, a) # 0
                 /\ list[search(list, a)].prot = Wanted(m.kind)
      <3>1. PICK k \in DOMAIN list : Holds(list[k], a) /\ list[k].prot = Wanted(m.kind)
        BY <2>2 DEF IInv, Covered, Held
      <3>2. a \in Int OBVIOUS
      <3>3. search(list, a) = k BY <2>1, <3>1, <3>2, SearchFinds
      <3>4. k # 0 BY <2>1
      <3> QED BY <3>1, <3>3, <3>4
    <2> QED BY <2>1, <2>2 DEF RegionsTrue, Apart, Wanted
  <1> QED BY <1>1, Invariance, PTL

\* A call of regions() with a mapping there all the time on a device whose number begins
\* with a letter does not return.
THEOREM LettersThrowAlways == Spec => []LettersThrow
  <1>1. IInv => LettersThrow
    <2> SUFFICES ASSUME IInv, pc = "idle", op = "regions", NEW m \in steady
                 PROVE  m.device[1] < 10 /\ m.device[2] < 10
      BY DEF LettersThrow
    <2>1. m \in Mapped /\ m.start < m.end BY DEF IInv, Covered
    <2>2. m.start \in m.start..(m.end - 1) BY <2>1, ProcAssumption DEF Mapped
    <2> QED BY <2>2 DEF IInv, Covered, Parses
  <1> QED BY <1>1, Invariance, PTL
=============================================================================
