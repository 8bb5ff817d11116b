------------------------------ MODULE GuiSession ------------------------------
(***************************************************************************)
(* Which process the GUI works on: the process list, open_process(),       *)
(* update_process(), tick_update_process() and the windows of              *)
(* gui_imgui.cpp, one frame of show_main_panel() after the other, all by   *)
(* the UI thread, while the processes on the server's machine come and go. *)
(*                                                                         *)
(* Four places remember a pid: the member pid, opened_pid of               *)
(* show_process_list(), and a last_pid each of open_process() and of       *)
(* tick_update_process(); the last three are static and outlive the        *)
(* process.  What is read of the process is left out.                      *)
(***************************************************************************)
EXTENDS Naturals

CONSTANTS
    Pids,     \* process ids
    None      \* -1, and null

ASSUME PidAssumption == None \notin Pids \cup {"empty", "some"}

VARIABLES
    \* the server's machine
    alive,        \* the processes there are
    linked,       \* the connection to the server is up
    \* CheatNGGUI
    pid,
    proc,         \* the process the object is for, or None
    mem,          \* likewise
    mem_view,     \* it is not null
    mem_regions,  \* None, "empty" or "some"
    windows,      \* which windows are open
    \* static variables
    opened_pid,   \* show_process_list
    open_last,    \* open_process: last_pid
    result,       \* open_process: "ok" or "close"
    tick_last,    \* tick_update_process: last_pid
    due,          \* more than 0.5 s have passed since last_update_time_region
    \* ImGui
    popup,        \* the popup that is open: "choose", "error" or "none"
    clicked,      \* the mouse was used in this frame
    upc           \* where in the frame the UI thread is

machine == <<alive, linked>>
objects == <<proc, mem, mem_view, mem_regions>>
statics == <<opened_pid, open_last, result, tick_last, due>>
imgui   == <<popup, clicked>>
vars    == <<machine, pid, objects, windows, statics, imgui, upc>>

Window == {"list", "editor", "regions", "search"}

-----------------------------------------------------------------------------
(* update_process()                                                        *)

Valid(p) == p \in alive /\ linked

\* The regions that are read: none of a process that is gone, and maybe none of
\* one that is there (it exits just now, or may not be inspected).
Regions(p) == {"empty"} \cup (IF Valid(p) THEN {"some"} ELSE {})

\* Mutant: mem is not reset when another process is opened.
UpdateAllKeepsMem(p, r) ==
    /\ proc' = p
    /\ IF ~Valid(p)
       THEN r = "close" /\ UNCHANGED <<mem, mem_view, mem_regions>>
       ELSE /\ mem' = (IF mem = None THEN p ELSE mem) /\ mem_view' = TRUE
            /\ mem_regions' \in Regions(p)
            /\ r = IF mem_regions' = "empty" THEN "close" ELSE "ok"

\* Mutant: mem is created before the process is known to be valid.
UpdateAllViewLast(p, r) ==
    /\ proc' = p
    /\ IF ~Valid(p)
       THEN r = "close" /\ mem' = p /\ UNCHANGED <<mem_view, mem_regions>>
       ELSE /\ mem' = p /\ mem_view' = TRUE
            /\ mem_regions' \in Regions(p)
            /\ r = IF mem_regions' = "empty" THEN "close" ELSE "ok"

\* update_process(true, true, true, true) for p, with the action r of its
\* result.  An invalid process leaves the objects of the one before it.
UpdateAll(p, r) ==
    /\ proc' = p
    /\ IF ~Valid(p)
       THEN r = "close" /\ UNCHANGED <<mem, mem_view, mem_regions>>
       ELSE /\ mem' = p /\ mem_view' = TRUE
            /\ mem_regions' \in Regions(p)
            /\ r = IF mem_regions' = "empty" THEN "close" ELSE "ok"

\* update_process(false, true, false, false)
UpdateRegions(r) ==
    /\ UNCHANGED <<proc, mem, mem_view>>
    /\ IF mem = None
       THEN r = "ok" /\ UNCHANGED mem_regions
       ELSE /\ mem_regions' \in Regions(mem)
            /\ r = IF mem_regions' = "empty" THEN "close" ELSE "ok"

ResetProcess == /\ pid' = None
                /\ proc' = None /\ mem' = None /\ mem_view' = FALSE /\ mem_regions' = None

-----------------------------------------------------------------------------
(* One frame.  A modal popup keeps the other windows from being used.       *)

Goto(l) == upc' = l

Click == ~clicked /\ clicked' = TRUE

\* The button that opens the list of processes.
PressList ==
    /\ upc = "panel" /\ popup = "none"
    /\ clicked' = TRUE
    /\ windows' = windows \cup {"list"} /\ popup' = "choose"
    /\ Goto("list")
    /\ UNCHANGED <<machine, pid, objects, statics>>

\* It is not pressed.  A popup nobody draws is closed sooner or later.
NoPress ==
    /\ upc = "panel"
    /\ clicked' = FALSE
    /\ \/ UNCHANGED popup
       \/ ("list" \notin windows /\ popup' = "none")
    /\ Goto("list")
    /\ UNCHANGED <<machine, pid, objects, windows, statics>>

\* show_process_list() returns at once unless the window is open.
SkipList ==
    /\ upc = "list" /\ "list" \notin windows
    /\ Goto("buttons")
    /\ UNCHANGED <<machine, pid, objects, windows, statics, imgui>>

\* The list is drawn, or not; nothing is chosen; the popup may be closed.
DrawList ==
    /\ upc = "list" /\ "list" \in windows
    /\ \/ UNCHANGED imgui
       \/ Click /\ popup = "choose" /\ popup' = "none"
    /\ Goto("opened")
    /\ UNCHANGED <<machine, pid, objects, windows, statics>>

\* A double click on a process.
Choose(p) ==
    /\ upc = "list" /\ "list" \in windows /\ popup = "choose"
    /\ Click
    /\ opened_pid' = p
    /\ windows' = windows \ {"list"} /\ popup' = "none"
    /\ Goto("opened")
    /\ UNCHANGED <<machine, pid, objects, open_last, result, tick_last, due>>

NoneOpened ==
    /\ upc = "opened" /\ opened_pid = None
    /\ Goto("buttons")
    /\ UNCHANGED <<machine, pid, objects, windows, statics, imgui>>

\* Whatever process was chosen last becomes pid, and open_process() updates the
\* objects if the pid is not the one it saw last.
OpenProcess ==
    /\ upc = "opened" /\ opened_pid # None
    /\ pid' = opened_pid
    /\ open_last # opened_pid
    /\ open_last' = opened_pid
    /\ \E r \in {"ok", "close"} : UpdateAll(opened_pid, r) /\ result' = r
    /\ Goto("popup")
    /\ UNCHANGED <<machine, windows, opened_pid, tick_last, due, imgui>>

OpenAgain ==
    /\ upc = "opened" /\ opened_pid # None
    /\ pid' = opened_pid
    /\ open_last = opened_pid
    /\ Goto("popup")
    /\ UNCHANGED <<machine, objects, windows, statics, imgui>>

\* The rest of open_process(): the popup with the error, when it is open, and
\* the call that opens it.
ErrorPopup ==
    /\ upc = "popup"
    /\ popup' = IF result = "close" THEN "error" ELSE popup
    /\ Goto("buttons")
    /\ UNCHANGED <<clicked, machine, pid, objects, windows, statics>>

\* Its button "OK": back to the list of processes.
ErrorConfirmed ==
    /\ upc = "popup" /\ result = "close" /\ popup = "error"
    /\ Click
    /\ result' = "ok" /\ open_last' = None /\ opened_pid' = None
    /\ popup' = "choose"
    /\ ResetProcess
    /\ Goto("buttons")
    /\ UNCHANGED <<machine, windows, tick_last, due>>

\* The buttons of the windows are there while there is a pid.
PressWindow(w) ==
    /\ upc = "buttons" /\ pid # None /\ popup = "none"
    /\ w # "list" /\ Click
    /\ windows' = windows \cup {w}
    /\ Goto("windows")
    /\ UNCHANGED <<machine, pid, objects, statics, popup>>

NoWindow ==
    /\ upc = "buttons" /\ Goto("windows")
    /\ UNCHANGED <<machine, pid, objects, windows, statics, imgui>>

\* show_memory_editor(), which dereferences mem_view, and show_memory_regions()
\* and show_memory_search(), which close when there is nothing to show.
DrawWindows ==
    /\ upc = "windows"
    /\ "editor" \in windows /\ pid # None => mem_view
    /\ windows' = IF pid = None THEN windows
                  ELSE windows \ ((IF mem_regions = None THEN {"regions", "search"} ELSE {})
                                  \cup (IF mem = None THEN {"search"} ELSE {}))
    /\ Goto("tick")
    /\ UNCHANGED <<machine, pid, objects, statics, imgui>>

DrawFaults ==
    /\ upc = "windows"
    /\ "editor" \in windows /\ pid # None /\ ~mem_view
    /\ Goto("fault")
    /\ UNCHANGED <<machine, pid, objects, windows, statics, imgui>>

\* The user closes a window.
CloseWindow(w) ==
    /\ upc = "tick" /\ popup = "none" /\ w \in windows \ {"list"}
    /\ Click
    /\ windows' = windows \ {w}
    /\ UNCHANGED <<machine, pid, objects, statics, popup, upc>>

\* tick_update_process(); a result that closes the process resets it and the
\* windows.
TickNone ==
    /\ upc = "tick" /\ pid = None
    /\ Goto("panel")
    /\ UNCHANGED <<machine, pid, objects, windows, statics, imgui>>

CloseProcess == ResetProcess /\ windows' = {}

\* Another process than in the last call.
TickOpen ==
    /\ upc = "tick" /\ pid # None /\ tick_last # pid
    /\ tick_last' = pid
    /\ \/ UpdateAll(pid, "ok") /\ Goto("regions") /\ UNCHANGED <<pid, windows>>
       \/ CloseProcess /\ Goto("panel")
    /\ UNCHANGED <<machine, opened_pid, open_last, result, due, imgui>>

TickSame ==
    /\ upc = "tick" /\ pid # None /\ tick_last = pid
    /\ Goto("regions")
    /\ UNCHANGED <<machine, pid, objects, windows, statics, imgui>>

\* Mutant: regions that cannot be read do not close the process.
TickRegionsStays ==
    /\ upc = "regions" /\ due
    /\ due' = FALSE
    /\ \E r \in {"ok", "close"} : UpdateRegions(r)
    /\ Goto("panel")
    /\ UNCHANGED <<machine, pid, windows, opened_pid, open_last, result, tick_last, imgui>>

\* The regions, every 0.5 s.  (The view is read every 0.05 s, which closes
\* nothing.)
TickRegions ==
    /\ upc = "regions" /\ due
    /\ due' = FALSE
    /\ \/ UpdateRegions("ok") /\ UNCHANGED <<pid, windows>>
       \/ mem # None /\ CloseProcess
    /\ Goto("panel")
    /\ UNCHANGED <<machine, opened_pid, open_last, result, tick_last, imgui>>

TickNotDue ==
    /\ upc = "regions" /\ ~due
    /\ Goto("panel")
    /\ UNCHANGED <<machine, pid, objects, windows, statics, imgui>>

-----------------------------------------------------------------------------
(* Time, and the machine that is inspected.                                *)

TimePasses ==
    /\ ~due /\ due' = TRUE
    /\ UNCHANGED <<machine, pid, objects, windows, opened_pid, open_last, result,
                   tick_last, imgui, upc>>

\* A pid may be used again.
Spawn(p) ==
    /\ p \notin alive /\ alive' = alive \cup {p}
    /\ UNCHANGED <<linked, pid, objects, windows, statics, imgui, upc>>

Exits(p) ==
    /\ p \in alive /\ alive' = alive \ {p}
    /\ UNCHANGED <<linked, pid, objects, windows, statics, imgui, upc>>

\* Calls return false from now on: nothing is valid, and there are no regions.
LinkLost ==
    /\ linked /\ linked' = FALSE
    /\ UNCHANGED <<alive, pid, objects, windows, statics, imgui, upc>>

-----------------------------------------------------------------------------
Init ==
    /\ alive \in SUBSET Pids /\ linked = TRUE
    /\ pid = None /\ proc = None /\ mem = None /\ mem_view = FALSE /\ mem_regions = None
    /\ windows = {}
    /\ opened_pid = None /\ open_last = None /\ result = "ok" /\ tick_last = None
    /\ due = TRUE
    /\ popup = "none" /\ clicked = FALSE /\ upc = "panel"

Panel == PressList \/ NoPress
List == SkipList \/ DrawList \/ (\E p \in Pids : Choose(p)) \/ NoneOpened
Open == OpenProcess \/ OpenAgain \/ ErrorPopup \/ ErrorConfirmed
Windows == (\E w \in Window : PressWindow(w)) \/ NoWindow \/ DrawWindows \/ DrawFaults
Tick == TickNone \/ TickOpen \/ TickSame \/ TickRegions \/ TickNotDue

Frame == Panel \/ List \/ Open \/ Windows \/ Tick

Next ==
    \/ Frame
    \/ \E w \in Window : CloseWindow(w)
    \/ TimePasses
    \/ \E p \in Pids : Spawn(p) \/ Exits(p)
    \/ LinkLost

Spec == Init /\ [][Next]_vars

\* Frames follow each other and the clock goes on; what the user does in them,
\* and what becomes of the processes, is open.
FairSpec == Spec /\ WF_vars(Frame) /\ WF_vars(TimePasses)

-----------------------------------------------------------------------------
(* Properties.                                                             *)

\* Each variable has its type.
TypeOK ==
    /\ alive \subseteq Pids /\ linked \in BOOLEAN
    /\ {pid, proc, mem, opened_pid, open_last, tick_last} \subseteq Pids \cup {None}
    /\ mem_view \in BOOLEAN /\ mem_regions \in {None, "empty", "some"}
    /\ windows \subseteq Window
    /\ result \in {"ok", "close"} /\ due \in BOOLEAN
    /\ popup \in {"none", "choose", "error"} /\ clicked \in BOOLEAN
    /\ upc \in {"panel", "list", "opened", "popup", "buttons", "windows", "tick",
                "regions", "fault"}

\* When a frame is over, the memory that the windows show and write to, and the
\* search reads, is that of the process the panel names, also when a process was
\* opened over another one and turned out invalid (gui_imgui.cpp:691-703, 77-86).
SameProcess == upc = "panel" /\ mem # None => mem = pid /\ proc = pid

\* The objects of a process come and go together: show_memory_editor() uses
\* mem_regions and mem where it has mem_view (gui_imgui.cpp:215-216), and
\* show_memory_search() needs only ask for two of them (402).
ObjectsTogether == (mem # None) = mem_view /\ (mem # None) = (mem_regions # None)

\* A process that is gone, or whose server is, is not shown for ever: some
\* frame closes it (gui_imgui.cpp:88-99, 705-710, 1033-1036).
GoneClosed ==
    \A p \in Pids : mem = p /\ ~Valid(p) ~> mem # p \/ Valid(p) \/ upc = "fault"
=============================================================================
