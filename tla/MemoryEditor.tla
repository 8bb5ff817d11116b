----------------------------- MODULE MemoryEditor -----------------------------
(***************************************************************************)
(* What the GUI shows of a process's memory and writes to it: the editor   *)
(* (show_memory_editor), the rows of search results with their             *)
(* MemoryViewCache, and the MemoryViewRange below the editor, through      *)
(* RemoteMemory, whose calls fail once the connection is lost.             *)
(*                                                                         *)
(* Bytes are abstracted to where they were read and how many there are:    *)
(* view.at is the address that the first byte of view came from.  One      *)
(* frame draws the editor, the windows of regions and of results, and      *)
(* refreshes the view every 50 ms; each of its steps is an action, as      *)
(* every order of them occurs over a few frames.                           *)
(***************************************************************************)
EXTENDS Integers, FiniteSets, FiniteSetsExt

CONSTANTS
    Space,            \* 2^64
    IntSpan,          \* 2^31: an int goes from -IntSpan to IntSpan - 1
    TypeSize,         \* MemoryViewDisplayDataTypeWidth
    Special,          \* the types raw_to_str_expr does not handle
    Height,           \* view_height
    StartWidth,       \* view_width of a new process: 16
    Main,             \* the first executable region of a process's own file
    Results           \* the addresses in the list of results

Types == DOMAIN TypeSize
None  == 0            \* edit_addr: no cell is edited
Nothing == [valid |-> FALSE, len |-> 0, type |-> "none", fresh |-> FALSE]

\* The powers of 2 of an int: what doubling makes of 1.
Powers ==
    {n \in 1..(IntSpan - 1) : \A P \in SUBSET (1..(IntSpan - 1)) :
        1 \in P /\ (\A k \in P : 2 * k < IntSpan => 2 * k \in P) => n \in P}

ASSUME EditorAssumption ==
    /\ Space \in Nat \ {0} /\ Height \in Nat \ {0}
    /\ IntSpan \in Nat /\ \E n \in Powers : IntSpan = 2 * n
    /\ StartWidth \in Powers /\ StartWidth * Height < IntSpan
    /\ \A t \in Types : TypeSize[t] \in Powers
    /\ Special \subseteq Types /\ "u8" \in Types /\ Results \cup {Main} \subseteq 0..(Space - 1)

VARIABLES
    ok,                                              \* RemoteMemory.ok
    view_addr, view_width, view_width_step, view_data_type,
    view,             \* mem_view: [at, len]
    edit_addr,
    edited,           \* the last confirmed edit: whether all its bytes were
                      \* written, and whether an error was reported
    data_type,        \* of the search task
    cache,            \* an entry [valid, len, type, fresh] or Nothing for each result
    fault             \* "none", or the undefined behaviour the GUI has met

where == <<view_addr, view_width, view_width_step, view_data_type>>
rows  == <<data_type, cache>>
vars  == <<ok, where, view, edit_addr, edited, rows, fault>>

\* Bytes of a read of n: all, or those before what cannot be read; none of an
\* error of process_vm_readv, and of a read from a lost connection.
ReadLengths(n) == IF ok THEN 0..n ELSE {0}

-----------------------------------------------------------------------------
\* MemoryViewRange::set and update: RemoteMemory::read keeps the old bytes when
\* the call fails, and its result is never negative.
\* Mutant: the range is not set.
RefreshedAsWas(v, addr, n) == [at |-> v.at, len |-> IF ok THEN n ELSE v.len]
Refreshed(v, addr, n) ==
    [at |-> IF ok THEN addr ELSE v.at, len |-> IF ok THEN n ELSE v.len]

\* The cells of the editor, by their distance from view_addr.
Cells(w, t) == {i * w + j : i \in 0..(Height - 1), j \in {k \in 0..(w - 1) : k % TypeSize[t] = 0}}
\* Mutant: the cell just behind the data is drawn.
DrawnLate(w, t, len) == {c \in Cells(w, t) : c <= len}
Drawn(w, t, len) == {c \in Cells(w, t) : c < len}
CellFault(w, t, len) ==
    IF w * Height >= IntSpan THEN "overflow"
    ELSE IF Drawn(w, t, len) # {} /\ t \in Special THEN "assert"
    ELSE IF \E c \in Drawn(w, t, len) : c + TypeSize[t] > len THEN "cell"
    ELSE "none"

Draw == fault' = CellFault(view_width', view_data_type', view'.len)

-----------------------------------------------------------------------------
\* "Bytes Per Row": a U32 that the user typed, or the buttons made by adding or
\* subtracting the step, in an int.
AsInt(v) == IF v >= IntSpan THEN v - 2 * IntSpan ELSE v
\* Mutant: a step of 0 is not made 1.
HalfOf(w) == w \div 2
Half(w)   == IF w = 1 THEN 1 ELSE w \div 2

\* The loop ends at the first power of 2 not below v, 1 for v <= 0, if an int can
\* be that great.
PowerFrom(v) == Min({n \in Powers : n >= v})
Endless(v)   == 2 * v > IntSpan
IsAdd(v, step) == v = 3 * step

\* Mutant: what looks like neither button is taken as it is.
WidthTyped(v, step) == IF IsAdd(v, step) THEN v + step ELSE IF v <= 0 THEN 1 ELSE v
NewWidth(v, step) ==
    IF IsAdd(v, step) THEN v + step
    ELSE IF v = step THEN v                        \* a sub action
    ELSE PowerFrom(v)                              \* user input value

InputWidth ==
    /\ fault = "none"
    /\ UNCHANGED <<ok, view, edit_addr, edited, rows>>
    /\ \E u \in 0..(2 * IntSpan - 1) :
          LET v == AsInt(u)
          IN  \/ /\ Endless(v) /\ ~IsAdd(v, view_width_step)
                 /\ fault' = "loop" /\ UNCHANGED where
              \/ /\ Endless(v) => IsAdd(v, view_width_step)
                 /\ view_width' = NewWidth(v, view_width_step)
                 /\ view_width_step' = Half(view_width')
                 /\ UNCHANGED <<view_addr, view_data_type>>
                 /\ Draw

\* The selection of the type: AoB is not offered here.
SelectType ==
    /\ fault = "none"
    /\ view_data_type' \in Types
    /\ UNCHANGED <<ok, view_addr, view_width, view_width_step, view, edit_addr, edited, rows>>
    /\ Draw

\* The address typed, the mouse wheel, and "Show in Memory Viewer" of a region.
MoveView ==
    /\ fault = "none"
    /\ view_addr' \in 0..(Space - 1)
    /\ UNCHANGED <<ok, view_width, view_width_step, view_data_type, view, edit_addr, edited, rows>>
    /\ Draw

\* A click on a cell, and Escape.
Click ==
    /\ fault = "none"
    /\ \E c \in Drawn(view_width, view_data_type, view.len) : edit_addr' = (view_addr + c) % Space
    /\ UNCHANGED <<ok, where, view, edited, rows, fault>>
Escape ==
    /\ fault = "none" /\ edit_addr # None
    /\ edit_addr' = None
    /\ UNCHANGED <<ok, where, view, edited, rows, fault>>

\* `mem->write(addr, parsed_data) != parsed_data.size()`: the edit is reported.
\* Mutant: only the -1 of an error is, not a write that ended early.
NegativeOnly(ret, size) == ret < 0
Failed(ret, size)       == ret # size

\* The -1 of an error of process_vm_writev, or the bytes it wrote: those before what
\* cannot be written.
WriteResults(size) == -1..size

\* RemoteMemory::write and what its caller makes of the result.  A call that fails may
\* have been executed, and leaves the result uninitialised: any number.
Write(size) ==
    \/ /\ ok /\ UNCHANGED ok
       /\ \E ret \in WriteResults(size) :
             edited' = [whole |-> ret = size, reported |-> Failed(ret, size)]
    \/ /\ ok' = FALSE
       /\ \E ret, any \in WriteResults(size) :
             edited' = [whole |-> ret = size, reported |-> Failed(any, size)]

\* What is no number, or what the bytes are already, is reported and not written.
Refuse == edited' = [whole |-> FALSE, reported |-> TRUE] /\ UNCHANGED ok

\* Enter in the cell that is edited, if it is drawn.
Enter ==
    /\ fault = "none" /\ edit_addr # None
    /\ \E c \in Drawn(view_width, view_data_type, view.len) : edit_addr = (view_addr + c) % Space
    /\ Refuse \/ Write(TypeSize[view_data_type])
    /\ edit_addr' = None
    /\ UNCHANGED <<where, view, rows, fault>>

\* tick_update_process: update_process(false, false, false, true).
Tick ==
    /\ fault = "none"
    /\ \E n \in ReadLengths(view_width * Height) : view' = Refreshed(view, view_addr, n)
    /\ UNCHANGED <<ok, where, edit_addr, edited, rows>>
    /\ Draw

\* The process is closed and one is opened: reset_process and update_process, which
\* looks for the executable region of the process's file and then reads the view
\* once more.  The static variables and the search tasks keep their values.
Reopen ==
    /\ fault = "none" /\ ok
    /\ view_addr' \in {0, Main}
    /\ view_width' = StartWidth /\ view_data_type' = "u8"
    /\ \E n \in ReadLengths(StartWidth * Height) : view' = Refreshed(view, view_addr', n)
    /\ UNCHANGED <<ok, view_width_step, edit_addr, edited, rows, fault>>

-----------------------------------------------------------------------------
(* The rows of the results. *)

\* Mutant: an old entry is read again with the size of the task's type.
FetchedDefault(e, n) ==
    [valid |-> n = TypeSize[data_type], len |-> n,
     type |-> IF e = Nothing THEN data_type ELSE e.type, fresh |-> TRUE]

\* MemoryViewCache::get reads an entry that is missing or old, with the type the
\* user gave it.
TypeOf(e) == IF e = Nothing THEN data_type ELSE e.type
Fetched(e, n) ==
    [valid |-> n = TypeSize[TypeOf(e)], len |-> n, type |-> TypeOf(e), fresh |-> TRUE]
Entries(e) ==
    IF e.fresh THEN {e} ELSE {Fetched(e, n) : n \in ReadLengths(TypeSize[TypeOf(e)])}

RowFault(e) ==
    IF e.valid /\ e.type \in Special THEN "assert"
    ELSE IF e.valid /\ TypeSize[e.type] > e.len THEN "row"
    ELSE "none"

\* A row is drawn; the user may have chosen another type for it in this frame.
DrawRow ==
    /\ fault = "none"
    /\ \E r \in Results : \E e \in Entries(cache[r]), t \in Types :
          /\ cache' = [cache EXCEPT ![r] = [e EXCEPT !.type = t]]
          /\ fault' = RowFault([e EXCEPT !.type = t])
    /\ UNCHANGED <<ok, where, view, edit_addr, edited, data_type>>

\* Its address is chosen: the editor is opened at the row of view_width bytes, a
\* power of 2, that holds it.
SelectRow(r) ==
    /\ fault = "none" /\ cache[r] # Nothing
    /\ view_addr' = r - (r % view_width)
    /\ view_data_type' = cache[r].type
    /\ UNCHANGED <<ok, view_width, view_width_step, view, edit_addr, edited, rows>>
    /\ Draw

\* A value is confirmed in a row.  A number is compared with the bytes the row has,
\* too few of them, maybe none, if it shows "??".
RowEditFault(e) ==
    IF e.type \in Special THEN "assert"
    ELSE IF TypeSize[e.type] > e.len THEN "compare"
    ELSE "none"
EnterRow ==
    /\ fault = "none"
    /\ \E r \in Results :
          /\ cache[r] # Nothing
          /\ \/ RowEditFault(cache[r]) = "none" /\ Write(TypeSize[cache[r].type]) /\ UNCHANGED fault
             \/ /\ RowEditFault(cache[r]) # "none"
                /\ fault' = RowEditFault(cache[r]) /\ UNCHANGED <<ok, edited>>
             \/ cache[r].type \notin Special /\ Refuse /\ UNCHANGED fault
    /\ UNCHANGED <<where, view, edit_addr, rows>>

\* 200 ms pass; the type of the search is changed, which clears the cache.
Age ==
    /\ fault = "none"
    /\ \E r \in Results : cache[r].fresh /\ cache' = [cache EXCEPT ![r].fresh = FALSE]
    /\ UNCHANGED <<ok, where, view, edit_addr, edited, data_type, fault>>
SearchType ==
    /\ fault = "none"
    /\ data_type' \in Types \ {data_type}
    /\ cache' = [r \in Results |-> Nothing]
    /\ UNCHANGED <<ok, where, view, edit_addr, edited, fault>>

Lose ==
    /\ fault = "none" /\ ok
    /\ ok' = FALSE
    /\ UNCHANGED <<where, view, edit_addr, edited, rows, fault>>

Init ==
    /\ ok = TRUE /\ edit_addr = None /\ fault = "none"
    /\ view_addr \in {0, Main} /\ view_width = StartWidth /\ view_width_step = Half(StartWidth)
    /\ view_data_type = "u8"
    /\ view = [at |-> view_addr, len |-> 0]
    /\ edited = [whole |-> FALSE, reported |-> TRUE]
    /\ data_type \in Types /\ cache = [r \in Results |-> Nothing]

Next ==
    \/ InputWidth \/ SelectType \/ MoveView \/ Click \/ Escape \/ Enter \/ Tick \/ Reopen
    \/ DrawRow \/ (\E r \in Results : SelectRow(r)) \/ EnterRow \/ Age \/ SearchType \/ Lose

Spec == Init /\ [][Next]_vars /\ WF_vars(Tick)

-----------------------------------------------------------------------------
TypeOK ==
    /\ ok \in BOOLEAN
    /\ view_addr \in 0..(Space - 1) /\ edit_addr \in 0..(Space - 1)
    /\ view_width_step \in Nat \ {0} /\ view_data_type \in Types
    /\ view.at \in 0..(Space - 1) /\ view.len \in Nat
    /\ edited \in [whole : BOOLEAN, reported : BOOLEAN]
    /\ data_type \in Types
    /\ \A r \in Results : cache[r] = Nothing
          \/ cache[r] \in [valid : BOOLEAN, len : Nat,
                           type : Types, fresh : BOOLEAN]
    /\ fault \in {"none", "overflow", "loop", "assert", "cell", "row", "compare"}

\* The comment "ceil view_width to power of 2" (189) holds of every path through the
\* width's input that does not overflow an int, with whatever step an earlier
\* process or the buttons left: the
\* mask of "addr & (~(view_width-1))" (614) is right.
WidthIsPower == fault = "overflow" \/ view_width \in Powers

\* With whole elements in what was read and a row no narrower than one, no cell is
\* converted beyond the end of the data.
CellsFit == fault = "cell" => view_width < TypeSize[view_data_type] \/ view.len % TypeSize[view_data_type] # 0

\* A row is read beyond the bytes fetched for it in the frame in which the user gives
\* it a wider type (620, 624), or when a value is confirmed in a row that could not be
\* read (652): never because the cache fetched an element of another width than the
\* row's own type.
RowsFetchedWhole ==
    [][/\ fault' = "row" => \E r \in Results : cache'[r].type # TypeOf(cache[r])
       /\ fault' = "compare" => \E r \in Results : cache[r] # Nothing /\ ~cache[r].valid]_vars

\* While the connection lasts, the user is told of a confirmed edit exactly if not all
\* of its bytes were written: also of a write that ended in the middle of the value
\* (276, 653; mem_usermode_proc.cpp:33).  After it, the result is uninitialised
\* (remote.hpp:209), and either may be wrong.
EditReported == ok => (edited.reported <=> ~edited.whole)

\* However the user moves, the addresses beside the cells are those of the bytes
\* shown again and again: the labels of a moved view (226, 243) are wrong for the
\* time to the next refresh, unless the connection is lost.
LabelsSettle == []<>(view.at = view_addr \/ ~ok \/ fault # "none")
=============================================================================
