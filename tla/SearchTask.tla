------------------------------ MODULE SearchTask ------------------------------
(***************************************************************************)
(* The search window of the GUI: show_memory_search() of gui_imgui.cpp,    *)
(* run once per frame by the UI thread, and the search threads it starts,  *)
(* which run begin_search() or continue_search() of lib/mem_utils.hpp.     *)
(*                                                                         *)
(* The threads share with the UI thread, without a lock, the SearchTask    *)
(* they hold a reference to, which lives in a std::vector, and the window's*)
(* mem; mtx_add_result guards some of the accesses to a task's results.    *)
(* Where C++ leaves the outcome undefined the model stops, with the reason *)
(* in fault.                                                               *)
(*                                                                         *)
(* An address stands for a region of its own, so a read of mem comes before *)
(* each match.  What matches is settled when a search starts: the inspected *)
(* process stands still; nothing matches an invalid pattern.                *)
(***************************************************************************)
EXTENDS Naturals, FiniteSets, Sequences, SequencesExt

CONSTANTS
    Tasks,        \* the SearchTask objects
    Addrs,        \* addresses of the inspected process
    None,         \* no task
    SearchMax     \* bound: searches started

ASSUME TaskAssumption == /\ None \notin Tasks /\ "ui" \notin Tasks \cup {None}
                         /\ IsFiniteSet(Addrs) /\ SearchMax \in Nat

VARIABLES
    \* shared
    tasks,       \* CheatNGGUI::search_tasks, the std::vector
    capacity,    \* its capacity
    searching,   \* SearchTask::is_searching
    results,     \* SearchTask::results
    thread,      \* SearchTask::search_thread: "null", "running" or "ended"
    mtx,         \* who holds mtx_add_result: "ui", a task's thread, or None
    mem,         \* CheatNGGUI::mem is not null
    \* the UI thread
    upc,         \* where in the frame it is
    sel,         \* the task it works on: search_tasks[selected_task_index]
    enter,       \* Enter was pressed in the input field in this frame
    count,       \* its result_count, read before the buttons are drawn
    rows,        \* the rows the clipper was told of
    searches,    \* searches started
    \* the search threads, by task
    tpc,         \* where each of them is
    bound,       \* the task it refers to is still where it was
    todo,        \* the addresses it has not looked at
    lost,        \* the mem it is in a call of was deleted
    \* history
    scope,       \* where the task's last search looks
    hits,        \* what matches its pattern
    cut,         \* it was stopped, or its results were cleared
    fault

shared == <<tasks, capacity, searching, results, thread, mtx, mem>>
ui     == <<upc, sel, enter, count, rows, searches>>
worker == <<tpc, bound, todo, lost>>
past   == <<scope, hits, cut>>
vars   == <<shared, ui, worker, past, fault>>

Fault(kind) == /\ fault' = kind
               /\ UNCHANGED <<shared, ui, worker, past>>

Goto(l) == upc' = l

-----------------------------------------------------------------------------
(* The vector of tasks.                                                    *)

\* The elements of S move: references to them go astray.
Move(S) == bound' = [u \in Tasks |-> bound[u] /\ u \notin S]

\* push_back: a full vector moves all of its elements to a new buffer.
PushBack(t) ==
    /\ tasks' = Append(tasks, t)
    /\ IF Len(tasks) < capacity
       THEN UNCHANGED <<capacity, bound>>
       ELSE capacity' = Max({1, 2 * capacity}) /\ Move(Range(tasks))

\* erase moves the elements behind i one place to the front.
Erase(i) ==
    /\ tasks' = RemoveAt(tasks, i)
    /\ Move(Range(SubSeq(tasks, i, Len(tasks))))
    /\ results' = [results EXCEPT ![tasks[i]] = {}]
    /\ scope' = [scope EXCEPT ![tasks[i]] = {}]
    /\ hits' = [hits EXCEPT ![tasks[i]] = {}]
    /\ cut' = [cut EXCEPT ![tasks[i]] = FALSE]
    /\ UNCHANGED capacity

-----------------------------------------------------------------------------
(* One frame of the window, by the UI thread.                              *)

Untouched == UNCHANGED <<searching, results, thread, mtx, mem>>

\* The window is drawn while mem is there.  A first task is added to an empty
\* list and the user may add one; the selection is any task of the list.
ListTasks ==
    /\ upc = "frame" /\ mem /\ Goto("count")
    /\ sel' \in Range(tasks)
    /\ UNCHANGED <<shared, enter, count, rows, searches, worker, past, fault>>

NewTask(t) ==
    /\ upc = "frame" /\ mem /\ Goto("count")
    /\ t \notin Range(tasks)
    /\ PushBack(t)
    /\ sel' \in Range(tasks')
    /\ UNCHANGED <<searching, results, thread, mtx, mem, enter, count, rows, searches,
                   tpc, todo, lost, past, fault>>

\* The context menu: a task that is not searching is erased...
DeleteTask(i) ==
    /\ upc = "frame" /\ mem /\ Goto("count")
    /\ ~searching[tasks[i]]
    /\ thread[tasks[i]] = "null" /\ Len(tasks) > 1
    /\ Erase(i)
    /\ sel' \in Range(tasks')
    /\ UNCHANGED <<searching, thread, mtx, mem, enter, count, rows, searches,
                   tpc, todo, lost, fault>>

\* ... which destroys its std::thread, and that terminates the program unless
\* it was joined; the window goes on with search_tasks[0] of an empty vector
\* when it was the only one.
DeleteFaults(i) ==
    /\ upc = "frame" /\ mem
    /\ ~searching[tasks[i]]
    /\ thread[tasks[i]] # "null" \/ Len(tasks) = 1
    /\ Fault(IF thread[tasks[i]] # "null" THEN "unjoined" ELSE "no task")

\* result_count, under the lock; and the input field.
ReadCount ==
    /\ upc = "count" /\ mtx = None
    /\ count' = Cardinality(results[sel])
    /\ enter' \in BOOLEAN
    /\ Goto("stop")
    /\ UNCHANGED <<sel, rows, searches, shared, worker, past, fault>>

\* Enter or the button "Stop Search".
Stop ==
    /\ upc = "stop" /\ searching[sel]
    /\ searching' = [searching EXCEPT ![sel] = FALSE]
    /\ cut' = [cut EXCEPT ![sel] = TRUE]
    /\ Goto("join")
    /\ UNCHANGED <<tasks, capacity, results, thread, mtx, mem,
                   sel, enter, count, rows, searches, worker, scope, hits, fault>>

NoStop ==
    /\ upc = "stop"
    /\ searching[sel] => ~enter
    /\ Goto("start")
    /\ UNCHANGED <<sel, enter, count, rows, searches, shared, worker, past, fault>>

\* search_thread->join() and reset().
JoinStopped ==
    /\ upc = "join" /\ thread[sel] # "running"
    /\ thread' = [thread EXCEPT ![sel] = "null"]
    /\ Goto("start")
    /\ UNCHANGED <<tasks, capacity, searching, results, mtx, mem,
                   sel, enter, count, rows, searches, worker, past, fault>>

\* Mutant: is_searching is left to the thread, which only tests it.
StartUnflagged ==
    /\ upc = "start" /\ ~searching[sel] /\ searches < SearchMax
    /\ searches' = searches + 1
    /\ results' = IF count = 0 THEN [results EXCEPT ![sel] = {}] ELSE results
    /\ cut' = [cut EXCEPT ![sel] = TRUE]
    /\ Goto("create")
    /\ UNCHANGED <<tasks, capacity, searching, thread, mtx, mem,
                   sel, enter, count, rows, worker, scope, hits, fault>>

\* Enter or the button "Start Search" or "Continue Search".  Enter that has
\* just stopped a search starts one in the same frame, by the count of before.
Start ==
    /\ upc = "start" /\ ~searching[sel] /\ searches < SearchMax
    /\ searches' = searches + 1
    /\ searching' = [searching EXCEPT ![sel] = TRUE]
    /\ results' = IF count = 0 THEN [results EXCEPT ![sel] = {}] ELSE results
    /\ cut' = [cut EXCEPT ![sel] = TRUE]
    /\ Goto("create")
    /\ UNCHANGED <<tasks, capacity, thread, mtx, mem,
                   sel, enter, count, rows, worker, scope, hits, fault>>

NoStart ==
    /\ upc = "start"
    /\ enter => searching[sel] \/ searches = SearchMax
    /\ Goto("clear")
    /\ UNCHANGED <<sel, enter, count, rows, searches, shared, worker, past, fault>>

\* The old thread is joined, the new one is created.
Create ==
    /\ upc = "create" /\ thread[sel] # "running"
    /\ thread' = [thread EXCEPT ![sel] = "running"]
    /\ tpc' = [tpc EXCEPT ![sel] = IF count = 0 THEN "begin" ELSE "continue"]
    /\ bound' = [bound EXCEPT ![sel] = TRUE]
    /\ cut' = [cut EXCEPT ![sel] = FALSE]
    /\ \E h \in SUBSET Addrs : hits' = [hits EXCEPT ![sel] = h]
    /\ Goto("clear")
    /\ UNCHANGED <<tasks, capacity, searching, results, mtx, mem,
                   sel, enter, count, rows, searches, todo, lost, scope, fault>>

\* "Clear Results" and "Clear" take no lock; the second is always there.
Clear ==
    /\ upc = "clear"
    /\ mtx # sel
    /\ results' = [results EXCEPT ![sel] = {}]
    /\ cut' = [cut EXCEPT ![sel] = TRUE]
    /\ Goto("draw")
    /\ UNCHANGED <<tasks, capacity, searching, thread, mtx, mem,
                   sel, enter, count, rows, searches, worker, scope, hits, fault>>

\* The thread was in the middle of its push_back.
ClearFaults == upc = "clear" /\ mtx = sel /\ Fault("clear")

NoClear ==
    /\ upc = "clear" /\ Goto("draw")
    /\ UNCHANGED <<sel, enter, count, rows, searches, shared, worker, past, fault>>

\* The table, under the lock: the number of its rows, then each of them, which
\* is read through mem.
DrawBegin ==
    /\ upc = "draw" /\ mtx = None
    /\ mtx' = "ui" /\ rows' = Cardinality(results[sel])
    /\ Goto("rows")
    /\ UNCHANGED <<tasks, capacity, searching, results, thread, mem,
                   sel, enter, count, searches, worker, past, fault>>

DrawRows ==
    /\ upc = "rows" /\ rows <= Cardinality(results[sel])
    /\ mtx' = None /\ Goto("frame")
    /\ sel' = None /\ enter' = FALSE /\ count' = 0 /\ rows' = 0
    /\ UNCHANGED <<tasks, capacity, searching, results, thread, mem,
                   searches, worker, past, fault>>

DrawFaults == upc = "rows" /\ rows > Cardinality(results[sel]) /\ Fault("rows")

-----------------------------------------------------------------------------
(* Between two frames of the window.                                       *)

\* update_process() for another process, or reset_process().  The old object
\* is deleted first; creating the new one is a call to the server.
ResetMem ==
    /\ upc = "frame" /\ mem /\ mem' = FALSE
    /\ lost' = [t \in Tasks |-> lost[t] \/ tpc[t] = "match"]
    /\ UNCHANGED <<tasks, capacity, searching, results, thread, mtx, ui,
                   tpc, bound, todo, past, fault>>

CreateMem ==
    /\ upc = "frame" /\ ~mem /\ mem' = TRUE
    /\ UNCHANGED <<tasks, capacity, searching, results, thread, mtx, ui, worker, past, fault>>

\* ~CheatNGGUI destroys the tasks with their threads.
Exit ==
    /\ upc = "frame"
    /\ IF \E t \in Range(tasks) : thread[t] # "null" THEN Fault("unjoined")
       ELSE Goto("exit") /\ UNCHANGED <<sel, enter, count, rows, searches,
                                        shared, worker, past, fault>>

-----------------------------------------------------------------------------
(* A search thread.                                                        *)

Running(t) == thread[t] = "running" /\ bound[t]

\* It reads or writes its task, or mem, where there is none.
ThreadFaults(t) ==
    /\ thread[t] = "running"
    /\ \/ ~bound[t] /\ Fault("dangling")
       \/ tpc[t] = "look" /\ todo[t] # {} /\ searching[t] /\ ~mem /\ Fault("mem")
       \/ lost[t] /\ Fault("mem")

\* begin_search: all of memory is to be looked at.
ThreadBegin(t) ==
    /\ Running(t) /\ tpc[t] = "begin"
    /\ todo' = [todo EXCEPT ![t] = Addrs]
    /\ scope' = [scope EXCEPT ![t] = Addrs]
    /\ tpc' = [tpc EXCEPT ![t] = "look"]
    /\ UNCHANGED <<shared, ui, bound, lost, hits, cut, fault>>

\* Mutant: the results are copied, not moved.
ThreadContinueCopies(t) ==
    /\ Running(t) /\ tpc[t] = "continue"
    /\ todo' = [todo EXCEPT ![t] = results[t]]
    /\ scope' = [scope EXCEPT ![t] = results[t]]
    /\ tpc' = [tpc EXCEPT ![t] = "look"]
    /\ UNCHANGED <<shared, ui, bound, lost, hits, cut, fault>>

\* continue_search: the thread moves the results away, without the lock.
ThreadContinue(t) ==
    /\ Running(t) /\ tpc[t] = "continue"
    /\ todo' = [todo EXCEPT ![t] = results[t]]
    /\ scope' = [scope EXCEPT ![t] = results[t]]
    /\ results' = [results EXCEPT ![t] = {}]
    /\ tpc' = [tpc EXCEPT ![t] = "look"]
    /\ UNCHANGED <<tasks, capacity, searching, thread, mtx, mem,
                   ui, bound, lost, hits, cut, fault>>

\* It tests is_searching, then reads a region, or an address, through mem.  A
\* change of is_searching while it scans what it read may be seen late or, as
\* here, not before the next read: it is an ordinary bool.
ThreadLook(t) ==
    /\ Running(t) /\ tpc[t] = "look" /\ mem
    /\ todo[t] # {} /\ searching[t]
    /\ tpc' = [tpc EXCEPT ![t] = "match"]
    /\ UNCHANGED <<shared, ui, bound, todo, lost, past, fault>>

\* The read returns.
ThreadMatch(t, a) ==
    /\ Running(t) /\ tpc[t] = "match" /\ ~lost[t]
    /\ a \in todo[t]
    /\ IF a \in hits[t]
       THEN tpc' = [tpc EXCEPT ![t] = "found"] /\ UNCHANGED todo
       ELSE tpc' = [tpc EXCEPT ![t] = "look"] /\ todo' = [todo EXCEPT ![t] = @ \ {a}]
    /\ UNCHANGED <<shared, ui, bound, lost, past, fault>>

\* on_found: mtx_add_result.lock() and push_back().
ThreadPush(t, a) ==
    /\ Running(t) /\ tpc[t] = "found"
    /\ mtx = None /\ mtx' = t
    /\ a \in todo[t] \cap hits[t]
    /\ todo' = [todo EXCEPT ![t] = @ \ {a}]
    /\ results' = [results EXCEPT ![t] = @ \cup {a}]
    /\ tpc' = [tpc EXCEPT ![t] = "push"]
    /\ UNCHANGED <<tasks, capacity, searching, thread, mem,
                   ui, bound, lost, past, fault>>

\* Mutant: on_found returns without unlocking.
ThreadPushedLocked(t) ==
    /\ Running(t) /\ tpc[t] = "push"
    /\ tpc' = [tpc EXCEPT ![t] = "look"]
    /\ UNCHANGED <<shared, ui, bound, todo, lost, past, fault>>

\* mtx_add_result.unlock().
ThreadPushed(t) ==
    /\ Running(t) /\ tpc[t] = "push"
    /\ mtx' = None
    /\ tpc' = [tpc EXCEPT ![t] = "look"]
    /\ UNCHANGED <<tasks, capacity, searching, results, thread, mem,
                   ui, bound, todo, lost, past, fault>>

\* is_searching = false, and the thread function returns.
ThreadEnds(t) ==
    /\ Running(t) /\ tpc[t] = "look"
    /\ todo[t] = {} \/ ~searching[t]
    /\ searching' = [searching EXCEPT ![t] = FALSE]
    /\ thread' = [thread EXCEPT ![t] = "ended"]
    /\ tpc' = [tpc EXCEPT ![t] = "none"]
    /\ bound' = [bound EXCEPT ![t] = FALSE]
    /\ todo' = [todo EXCEPT ![t] = {}]
    /\ UNCHANGED <<tasks, capacity, results, mtx, mem, ui, lost, past, fault>>

-----------------------------------------------------------------------------
Init ==
    /\ tasks = <<>> /\ capacity = 0
    /\ searching = [t \in Tasks |-> FALSE]
    /\ results = [t \in Tasks |-> {}]
    /\ thread = [t \in Tasks |-> "null"]
    /\ mtx = None /\ mem = FALSE
    /\ upc = "frame" /\ sel = None /\ enter = FALSE /\ count = 0 /\ rows = 0
    /\ searches = 0
    /\ tpc = [t \in Tasks |-> "none"]
    /\ todo = [t \in Tasks |-> {}]
    /\ bound = searching /\ lost = searching /\ cut = searching
    /\ scope = results /\ hits = results
    /\ fault = "none"

Frame ==
    \/ ReadCount \/ Stop \/ NoStop \/ JoinStopped
    \/ Start \/ NoStart \/ Create
    \/ Clear \/ ClearFaults \/ NoClear
    \/ DrawBegin \/ DrawRows \/ DrawFaults

User ==
    \/ \E i \in 1..Len(tasks) : DeleteTask(i) \/ DeleteFaults(i)
    \/ \E t \in Tasks : NewTask(t)
    \/ ListTasks \/ ResetMem \/ CreateMem \/ Exit

SearchThread(t) ==
    \/ ThreadBegin(t) \/ ThreadContinue(t) \/ ThreadLook(t)
    \/ \E a \in Addrs : ThreadMatch(t, a) \/ ThreadPush(t, a)
    \/ ThreadPushed(t) \/ ThreadEnds(t) \/ ThreadFaults(t)

Next == /\ fault = "none"
        /\ User \/ Frame \/ \E t \in Tasks : SearchThread(t)

Spec == Init /\ [][Next]_vars

\* The UI thread and the search threads run on; nothing is assumed of the user.
FairSpec == /\ Spec
            /\ WF_vars(fault = "none" /\ Frame)
            /\ \A t \in Tasks : WF_vars(fault = "none" /\ SearchThread(t))

-----------------------------------------------------------------------------
(* Properties.                                                             *)

\* Each variable has its type; only a task of the list holds the lock.
TypeOK ==
    /\ IsInjective(tasks) /\ Range(tasks) \subseteq Tasks /\ Len(tasks) <= capacity
    /\ {searching, cut, bound, lost} \subseteq [Tasks -> BOOLEAN]
    /\ {results, todo, scope, hits} \subseteq [Tasks -> SUBSET Addrs]
    /\ thread \in [Tasks -> {"null", "running", "ended"}]
    /\ tpc \in [Tasks -> {"none", "begin", "continue", "look", "match", "found", "push"}]
    /\ mtx \in Range(tasks) \cup {None, "ui"}
    /\ mem \in BOOLEAN
    /\ upc \in {"frame", "count", "stop", "join", "start", "create", "clear", "draw", "rows", "exit"}
    /\ sel \in Range(tasks) \cup {None}
    /\ enter \in BOOLEAN /\ searches \in 0..SearchMax
    /\ {count, rows} \subseteq 0..Cardinality(Addrs)
    /\ fault \in {"none", "dangling", "mem", "rows", "clear", "unjoined", "no task"}

\* A search nobody stopped or cleared reports all that matches where it looks:
\* no earlier thread of the task, no stale count and no other task's search
\* takes its is_searching or its results away (gui_imgui.cpp:505-558).
Complete ==
    \A t \in Range(tasks) :
        thread[t] = "ended" /\ ~cut[t] => results[t] = hits[t] \cap scope[t]

\* Each task implements SearchResults: whatever is pressed while its thread
\* runs, a continued search reports only addresses of the one before it.
Search(t) == INSTANCE SearchResults WITH scope <- scope[t], shown <- results[t]
ResultsInScope ==
    /\ \A t \in Tasks : Search(t)!Init
    /\ [][\A t \in Tasks : [Search(t)!Next]_<<scope[t], results[t]>>]_vars

\* Every frame of the window ends: the UI thread waits for ever neither for the
\* lock nor for a thread it joins (gui_imgui.cpp:483, 509, 521, 542, 586).
FramesEnd == (upc # "frame") ~> (upc \in {"frame", "exit"} \/ fault # "none")
=============================================================================
