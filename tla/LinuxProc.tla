------------------------------- MODULE LinuxProc -------------------------------
(***************************************************************************)
(* The Linux implementation of processes and memory regions: the lists     *)
(* that the RPC thread of the server reads from /proc, file by file, while *)
(* the processes of the machine start, end and map memory, and their       *)
(* numbers are used again.                                                 *)
(*                                                                         *)
(* A task is a process (the leader of its group, whose number is tgid) or  *)
(* one of its threads.  What a file said is abstracted to the life of the  *)
(* task that it was read from: its number among those that have had the    *)
(* same id, 0 for a file that did not open.                                *)
(***************************************************************************)
EXTENDS Integers, Sequences, FiniteSets, SequencesExt

CONSTANTS
    Ids,              \* the numbers of tasks
    MaxLife,          \* bound: lives of a number
    Top,              \* bound: the addresses are below it
    Kinds,            \* the permissions of a line of maps: a set of [rwx, private]
    Layouts           \* the sets of mappings [start, end, kind, device] a process may have

\* What the numbers of a device, major:minor in hexadecimal, begin with.
Devices == (0..15) \X (0..15)

ASSUME ProcAssumption ==
    /\ Ids \subseteq Nat \ {0} /\ MaxLife \in Nat \ {0} /\ Top \in Nat
    /\ Kinds \subseteq [rwx : SUBSET {"READ", "WRITE", "EXECUTE"}, private : BOOLEAN]
    /\ \A l \in Layouts : \A m \in l :
          /\ m \in [start : 0..Top, end : 0..Top, kind : Kinds, device : Devices] /\ m.start < m.end
          /\ \A n \in l : m = n \/ m.end <= n.start \/ n.end <= m.start

VARIABLES
    tgid,             \* the process of each task, 0 for none
    born,             \* for each life of an id: did it begin as a process
    maps,             \* the mappings of target, while its regions are read
    op,               \* what the RPC thread has been asked for
    pc,               \* its next step
    target,           \* id of the object it works on
    entry,            \* the id of the directory entry, the life status was read from
    seen,             \* the entries so far
    list,             \* the vector that is filled: tasks, or regions
    steady            \* auxiliary: what has been there since the call began

kernel == <<tgid, born>>
vars   == <<tgid, born, maps, op, pc, target, entry, seen, list, steady>>

Leaders   == {i \in Ids : tgid[i] = i}
Tasks(p)  == {i \in Ids : tgid[i] = p}
Alive     == {i \in Ids : tgid[i] # 0}
Life(i)   == IF i \in Alive THEN Len(born[i]) ELSE 0
NoEntry   == [id |-> 0, status |-> 0]

-----------------------------------------------------------------------------
(* The machine. *)

Ends(gone) ==
    /\ tgid' = [i \in Ids |-> IF i \in gone THEN 0 ELSE tgid[i]]
    /\ steady' = IF op = "regions" THEN IF target \in gone THEN {} ELSE steady
                 ELSE steady \ gone
    /\ UNCHANGED born
Begins(i, p) ==
    /\ i \notin Alive /\ Len(born[i]) < MaxLife
    /\ tgid' = [tgid EXCEPT ![i] = p]
    /\ born' = [born EXCEPT ![i] = Append(@, (i = p))]
    /\ UNCHANGED steady

Kernel ==
    /\ pc # "crashed"
    /\ \/ \E i \in Ids : Begins(i, i)                          \* fork
       \/ \E i \in Ids, p \in Leaders : Begins(i, p)            \* clone
       \/ \E i \in Alive \ Leaders : Ends({i})
       \/ \E p \in Leaders : Ends(Tasks(p))
    /\ UNCHANGED <<maps, op, pc, target, entry, seen, list>>

\* The target maps and unmaps memory.
Remap ==
    /\ pc = "line" /\ target \in Leaders
    /\ maps' \in Layouts \ {maps}
    /\ steady' = steady \cap maps'
    /\ UNCHANGED <<kernel, op, pc, target, entry, seen, list>>

-----------------------------------------------------------------------------
(* The RPC thread. *)

Call(o, p, first, there) ==
    /\ pc = "idle"
    /\ op' = o /\ target' = p /\ pc' = first
    /\ entry' = NoEntry /\ seen' = {} /\ list' = <<>> /\ steady' = there
    /\ UNCHANGED kernel

Update == Call("update", 0, "entry", Leaders) /\ UNCHANGED maps

\* threads() looks for the folder first; children() does not.
Threads ==
    \E p \in Ids :
       /\ Call("threads", p, IF p \in Leaders THEN "entry" ELSE "idle", Tasks(p))
       /\ UNCHANGED maps
Children == \E p \in Ids : Call("children", p, "entry", Tasks(p)) /\ UNCHANGED maps
Regions ==
    \E p \in Ids :
       /\ maps' \in IF p \in Alive THEN Layouts ELSE {{}}
       /\ Call("regions", p, "line", maps')

\* directory_iterator: each entry once, and none that was there all the time is left
\* out.  The folder of a process that has ended is an error, hence an exception,
\* which nothing catches in the RPC thread.
Scope == IF op = "update" THEN Leaders ELSE Tasks(target)
Gone  == op # "update" /\ target \notin Leaders

Entry ==
    /\ pc = "entry" /\ ~Gone
    /\ \E i \in Scope \ seen :
          /\ entry' = [id |-> i, status |-> 0] /\ seen' = seen \cup {i}
          /\ pc' = IF op = "threads" THEN "comm"
                   ELSE IF op = "children" /\ i = target THEN "entry" ELSE "status"
    /\ UNCHANGED <<kernel, maps, op, target, list, steady>>
Throw ==
    /\ pc = "entry" /\ Gone
    /\ pc' = "crashed"
    /\ UNCHANGED <<kernel, maps, op, target, entry, seen, list, steady>>

\* std::sort, by id, of the list of processes; the others stay as they were read.
Orders(l) == {[k \in 1..Len(l) |-> l[p[k]]] : p \in Bijection(1..Len(l), 1..Len(l))}
\* Mutant: the order of the directory is kept.
AsRead(l) == {l}
Sorted(l) ==
    IF op = "update" THEN {s \in Orders(l) : \A j, k \in 1..Len(s) : j < k => s[j].id <= s[k].id}
    ELSE {l}
Done ==
    /\ pc = "entry" /\ ~Gone /\ steady \subseteq seen
    /\ list' \in Sorted(list) /\ pc' = "idle"
    /\ UNCHANGED <<kernel, maps, op, target, entry, seen, steady>>

\* The status file: update keeps the processes, and children what belongs to the
\* target, which are its own threads.
\* Mutants: every directory is taken for a process's; the first that is not ends the
\* loop.
KeptAll(i)  == i \in Alive
Kept(i) == i \in Alive /\ tgid[i] = IF op = "update" THEN i ELSE target
StatusBreaks ==
    /\ pc = "status"
    /\ IF Kept(entry.id) THEN pc' = "comm" /\ entry' = [entry EXCEPT !.status = Life(entry.id)]
       ELSE pc' = "idle" /\ UNCHANGED entry
    /\ UNCHANGED <<kernel, maps, op, target, seen, list, steady>>
Status ==
    /\ pc = "status"
    /\ IF Kept(entry.id) THEN pc' = "comm" /\ entry' = [entry EXCEPT !.status = Life(entry.id)]
       ELSE pc' = "entry" /\ UNCHANGED entry
    /\ UNCHANGED <<kernel, maps, op, target, seen, list, steady>>

\* The object is made with the name in comm, "" of a file that does not open, and
\* then the command line.
Comm ==
    /\ pc = "comm"
    /\ list' = Append(list, [id |-> entry.id, status |-> entry.status,
                             name |-> Life(entry.id), cmdlines |-> 0])
    /\ pc' = IF op = "threads" THEN "entry" ELSE "cmdline"
    /\ UNCHANGED <<kernel, maps, op, target, entry, seen, steady>>
Cmdline ==
    /\ pc = "cmdline"
    /\ list' = [list EXCEPT ![Len(list)].cmdlines = Life(entry.id)]
    /\ pc' = "entry"
    /\ UNCHANGED <<kernel, maps, op, target, entry, seen, steady>>

-----------------------------------------------------------------------------
(* Regions. *)

Exclusive == {<<"PRIVATE", "SHARED">>, <<"SHARED", "PRIVATE">>, <<"STACK", "HEAP">>, <<"HEAP", "STACK">>}

\* operator| of the flags: rhs overwrites what it excludes.
Or(lhs, rhs) == {f \in lhs : ~\E g \in rhs : <<f, g>> \in Exclusive} \cup rhs

\* READ, WRITE and EXECUTE exclude nothing, so that their order does not matter.
Prot(kind) == Or(Or({}, kind.rwx), {IF kind.private THEN "PRIVATE" ELSE "SHARED"})

\* One line of maps: the kernel goes on behind the end of the last one.  The file of
\* a process that has ended has no more lines.
ReadTo == IF list = <<>> THEN 0 ELSE list[Len(list)].start + list[Len(list)].size
Mappings == IF target \in Alive THEN {m \in maps : m.end > ReadTo} ELSE {}
\* Mutant: the end of the mapping is taken for its size.
RegionToEnd(m) == [start |-> m.start, size |-> m.end, prot |-> Prot(m.kind)]
Region(m) == [start |-> m.start, size |-> m.end - m.start, prot |-> Prot(m.kind)]

\* std::stoul takes the numbers of the device for decimal ones: it reads the digits
\* before the first letter, and throws if there are none.
\* Mutant: the minor is not converted.
ParsesMajor(m) == m.device[1] < 10
Parses(m)      == m.device[1] < 10 /\ m.device[2] < 10

Line ==
    /\ pc = "line"
    /\ \E m \in Mappings :
          /\ \A n \in Mappings : m.start <= n.start
          /\ Parses(m)
          /\ list' = Append(list, Region([m EXCEPT !.start = IF @ < ReadTo THEN ReadTo ELSE @]))
    /\ UNCHANGED <<kernel, maps, op, pc, target, entry, seen, steady>>

\* Nothing catches the exception in the RPC thread.
LineThrows ==
    /\ pc = "line"
    /\ \E m \in Mappings : ~Parses(m) /\ \A n \in Mappings : m.start <= n.start
    /\ pc' = "crashed"
    /\ UNCHANGED <<kernel, maps, op, target, entry, seen, list, steady>>

EndOfMaps ==
    /\ pc = "line" /\ Mappings = {}
    /\ pc' = "idle" /\ maps' = {}
    /\ UNCHANGED <<kernel, op, target, entry, seen, list, steady>>

\* MemoryRegions::search: the first region that holds an address.
Holds(r, addr) == r.start <= addr /\ addr < r.start + r.size
search(l, addr) == SelectInSeq(l, LAMBDA r : Holds(r, addr))

-----------------------------------------------------------------------------
Init ==
    /\ tgid = [i \in Ids |-> 0] /\ born = [i \in Ids |-> <<>>]
    /\ maps = {} /\ op = "none" /\ pc = "idle" /\ target = 0
    /\ entry = NoEntry /\ seen = {} /\ list = <<>> /\ steady = {}

Next ==
    \/ Kernel \/ Remap
    \/ Update \/ Threads \/ Children \/ Regions
    \/ Entry \/ Throw \/ Done \/ Status \/ Comm \/ Cmdline
    \/ Line \/ LineThrows \/ EndOfMaps

Spec == Init /\ [][Next]_vars

-----------------------------------------------------------------------------
TypeOK ==
    /\ tgid \in [Ids -> Ids \cup {0}] /\ \A i \in Alive : tgid[i] \in Leaders
    /\ \A i \in Ids : born[i] \in Seq(BOOLEAN) /\ Len(born[i]) <= MaxLife
    /\ maps \in Layouts \cup {{}}
    /\ op \in {"none", "update", "threads", "children", "regions"}
    /\ pc \in {"idle", "entry", "status", "comm", "cmdline", "line", "crashed"}
    /\ target \in Ids \cup {0} /\ seen \subseteq Ids
    /\ entry.id \in Ids \cup {0} /\ entry.status \in 0..MaxLife
    /\ IF op = "regions"
       THEN \A k \in DOMAIN list :
               list[k] \in [start : 0..Top, size : 1..Top,
                            prot : SUBSET {"READ", "WRITE", "EXECUTE", "PRIVATE", "SHARED"}]
       ELSE \A k \in DOMAIN list :
               list[k] \in [id : Ids, status : 0..MaxLife, name : 0..MaxLife, cmdlines : 0..MaxLife]

\* The list of processes is in "ascending order by pid" (proc.hpp:73), each once,
\* whatever order the directory has and whichever numbers are used again meanwhile.
Ascending ==
    pc = "idle" /\ op = "update" =>
       \A j, k \in DOMAIN list : j < k => list[j].id < list[k].id

\* What ran during the whole of a call is listed when it ends, and everything the
\* entry says was read from that task: only those that end meanwhile are described
\* by halves, or by what their successors say.
SteadyListed ==
    pc = "idle" /\ op \in {"update", "threads"} =>
       \A i \in steady : \E k \in DOMAIN list :
          /\ list[k].id = i /\ list[k].name = Life(i)
          /\ op = "update" => list[k].status = Life(i) /\ list[k].cmdlines = Life(i)

\* No thread is listed as a process, even when it has the number of a process that
\* ended after its entry was read.
ListedWereProcesses ==
    op = "update" => \A k \in DOMAIN list : born[list[k].id][list[k].status]

\* Of a call of regions() that returns: the regions are in order and apart, and a
\* mapping that is there during the whole call is found by each of its addresses, with
\* its permissions and exactly one of PRIVATE and SHARED.
RegionsTrue ==
    pc \in {"idle", "line"} /\ op = "regions" =>
       /\ \A j, k \in DOMAIN list : j < k => list[j].start + list[j].size <= list[k].start
       /\ pc = "idle" => \A m \in steady : \A a \in m.start..(m.end - 1) :
             LET k == search(list, a)
             IN  /\ k # 0
                 /\ list[k].prot = m.kind.rwx \cup {IF m.kind.private THEN "PRIVATE" ELSE "SHARED"}

\* And of one that does not: with a mapping of a file on a device such as fd:00 or
\* 00:a1 there all the time, regions() never returns (61, 63), however the other
\* mappings come and go while the lines are read.
LettersThrow ==
    pc = "idle" /\ op = "regions" =>
       \A m \in steady : m.device[1] < 10 /\ m.device[2] < 10
=============================================================================
