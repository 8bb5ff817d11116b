------------------------------ MODULE Gui_proofs ------------------------------
(***************************************************************************)
(* Proofs about GuiSession: its types, that the objects of a process come  *)
(* and go together, and that at the end of a frame they are those of the   *)
(* process that the panel names.                                           *)
(*                                                                         *)
(* The last is not inductive: within a frame the objects may be those of   *)
(* the process before.  What holds then is a promise of                    *)
(* tick_update_process(): where it will not read the objects again, since  *)
(* its last_pid is the pid, they are already those of pid.                 *)
(*                                                                         *)
(* And about AndroidApp, the program that GUI is drawn by on Android: its  *)
(* types, that a window is held exactly as long as the activity has one,   *)
(* and nothing when android_main is over.                                  *)
(***************************************************************************)
EXTENDS GuiSession, AndroidApp, TLAPS

\* The parts of the type invariant: truth values, pids, and the others.
Truths == linked \in BOOLEAN /\ mem_view \in BOOLEAN /\ due \in BOOLEAN /\ clicked \in BOOLEAN
Remembered ==
    /\ pid \in Pids \cup {None} /\ proc \in Pids \cup {None} /\ mem \in Pids \cup {None}
    /\ opened_pid \in Pids \cup {None} /\ open_last \in Pids \cup {None}
    /\ tick_last \in Pids \cup {None} /\ mem_regions \in {None, "empty", "some"}
Places ==
    /\ alive \subseteq Pids /\ windows \subseteq Window
    /\ result \in {"ok", "close"} /\ popup \in {"none", "choose", "error"}
    /\ upc \in {"panel", "list", "opened", "popup", "buttons", "windows", "tick",
                "regions", "fault"}

\* tick_update_process() is done with this frame, and open_process() has yet to begin.
Settled == {"panel", "list", "opened", "regions"}

\* The objects' process, at every place of a frame.
Same ==
    /\ upc \in Settled /\ mem # None => mem = pid /\ proc = pid /\ tick_last = pid
    /\ mem # None => pid # None /\ (tick_last = pid => mem = pid /\ proc = pid)

IInv == TypeOK /\ ObjectsTogether /\ Same

\* The type invariant is its parts, now and after a step.
LEMMA Parts == TypeOK <=> Truths /\ Remembered /\ Places
  <1>1. {pid, proc, mem, opened_pid, open_last, tick_last} \subseteq Pids \cup {None}
          <=> /\ pid \in Pids \cup {None} /\ proc \in Pids \cup {None} /\ mem \in Pids \cup {None}
              /\ opened_pid \in Pids \cup {None} /\ open_last \in Pids \cup {None}
              /\ tick_last \in Pids \cup {None}
    OBVIOUS
  <1> QED BY <1>1, Zenon DEF TypeOK, Truths, Remembered, Places

\* The same of the primed variables.
LEMMA PartsNext == TypeOK' <=> Truths' /\ Remembered' /\ Places'
  BY Parts, PTL

\* Nothing is open at first.
LEMMA InitIInv == Init => IInv
  <1> SUFFICES ASSUME Init PROVE IInv OBVIOUS
  <1>1. Truths BY Zenon DEF Init, Truths
  <1>2. Remembered BY DEF Init, Remembered
  <1>3. Places BY DEF Init, Places
  <1>4. ObjectsTogether
    <2>1. mem = None /\ mem_view = FALSE /\ mem_regions = None BY Zenon DEF Init
    <2> QED BY <2>1 DEF ObjectsTogether
  <1>5. Same BY DEF Init, Same
  <1> QED BY <1>1, <1>2, <1>3, <1>4, <1>5, Parts DEF IInv

\* A step that leaves the objects, pid and the last_pid of tick_update_process() alone
\* keeps what is said of them, unless it ends the frame's update.
LEMMA Quiet ==
    ASSUME IInv, UNCHANGED <<pid, objects, tick_last>>, upc' \in Settled => upc \in Settled
    PROVE  ObjectsTogether' /\ Same'
  <1>1. /\ pid' = pid /\ proc' = proc /\ mem' = mem /\ mem_view' = mem_view
        /\ mem_regions' = mem_regions /\ tick_last' = tick_last
    BY Zenon DEF objects
  <1>2. ObjectsTogether' BY <1>1, Zenon DEF ObjectsTogether, IInv
  <1>3. Same' BY <1>1 DEF Same, IInv
  <1> QED BY <1>2, <1>3

\* update_process(true, true, true, true): all objects are those of p, or all but proc
\* are left as they were and the result is to close the process.
LEMMA Updated ==
    ASSUME IInv, NEW p \in Pids, NEW r, UpdateAll(p, r)
    PROVE  /\ proc' = p /\ mem_regions' \in {None, "empty", "some"}
           /\ mem_view' \in BOOLEAN /\ ObjectsTogether'
           /\ \/ mem' = p
              \/ r = "close" /\ mem' = mem
  <1>0. Truths /\ Remembered /\ ObjectsTogether BY Parts, Zenon DEF IInv
  <1>1. proc' = p BY Zenon DEF UpdateAll
  <1>2. CASE ~Valid(p)
    <2>1. r = "close" /\ mem' = mem /\ mem_view' = mem_view /\ mem_regions' = mem_regions
      BY <1>2, Zenon DEF UpdateAll
    <2> QED BY <1>0, <1>1, <2>1, Zenon DEF Truths, Remembered, ObjectsTogether
  <1>3. CASE Valid(p)
    <2>1. mem' = p /\ mem_view' = TRUE /\ mem_regions' \in Regions(p)
      BY <1>3, Zenon DEF UpdateAll
    <2>2. mem_regions' \in {"empty", "some"} BY <2>1 DEF Regions
    <2>3. mem' # None /\ mem_regions' # None BY <2>1, <2>2, PidAssumption
    <2>4. ObjectsTogether' BY <2>1, <2>3 DEF ObjectsTogether
    <2>5. mem_view' \in BOOLEAN BY <2>1, Zenon
    <2> QED BY <1>1, <2>1, <2>2, <2>4, <2>5
  <1> QED BY <1>2, <1>3

\* The button of the list of processes.
LEMMA PanelIInv ==
    ASSUME IInv, Panel
    PROVE  IInv'
  <1>0. Truths /\ Remembered /\ Places BY Parts, Zenon DEF IInv
  <1>1. CASE PressList
    <2>1. Truths' BY <1>0, <1>1, Zenon DEF PressList, machine, objects, statics, imgui,
                     Goto, Click, Truths
    <2>2. Remembered' BY <1>0, <1>1, Zenon DEF PressList, machine, objects, statics,
                         imgui, Goto, Click, Remembered
    <2>3. Places' BY <1>0, <1>1 DEF PressList, machine, objects, statics, imgui, Goto,
                     Click, Places, Window
    <2>4. UNCHANGED <<pid, objects, tick_last>> /\ (upc' \in Settled => upc \in Settled)
      BY <1>1 DEF PressList, machine, objects, statics, imgui, Goto, Click, Settled
    <2> QED BY <2>1, <2>2, <2>3, <2>4, PartsNext, Quiet DEF IInv
  <1>2. CASE NoPress
    <2>1. Truths' BY <1>0, <1>2, Zenon DEF NoPress, machine, objects, statics, imgui,
                     Goto, Click, Truths
    <2>2. Remembered' BY <1>0, <1>2, Zenon DEF NoPress, machine, objects, statics, imgui,
                         Goto, Click, Remembered
    <2>3. Places' BY <1>0, <1>2 DEF NoPress, machine, objects, statics, imgui, Goto,
                     Click, Places, Window
    <2>4. UNCHANGED <<pid, objects, tick_last>> /\ (upc' \in Settled => upc \in Settled)
      BY <1>2 DEF NoPress, machine, objects, statics, imgui, Goto, Click, Settled
    <2> QED BY <2>1, <2>2, <2>3, <2>4, PartsNext, Quiet DEF IInv
  <1> QED BY <1>1, <1>2 DEF Panel

\* The list of processes.
LEMMA ListIInv ==
    ASSUME IInv, List
    PROVE  IInv'
  <1>0. Truths /\ Remembered /\ Places BY Parts, Zenon DEF IInv
  <1>1. CASE SkipList
    <2>1. Truths' BY <1>0, <1>1, Zenon DEF SkipList, machine, objects, statics, imgui,
                     Goto, Click, Truths
    <2>2. Remembered' BY <1>0, <1>1, Zenon DEF SkipList, machine, objects, statics, imgui,
                         Goto, Click, Remembered
    <2>3. Places' BY <1>0, <1>1 DEF SkipList, machine, objects, statics, imgui, Goto,
                     Click, Places, Window
    <2>4. UNCHANGED <<pid, objects, tick_last>> /\ (upc' \in Settled => upc \in Settled)
      BY <1>1 DEF SkipList, machine, objects, statics, imgui, Goto, Click, Settled
    <2> QED BY <2>1, <2>2, <2>3, <2>4, PartsNext, Quiet DEF IInv
  <1>2. CASE DrawList
    <2>1. Truths' BY <1>0, <1>2, Zenon DEF DrawList, machine, objects, statics, imgui,
                     Goto, Click, Truths
    <2>2. Remembered' BY <1>0, <1>2, Zenon DEF DrawList, machine, objects, statics, imgui,
                         Goto, Click, Remembered
    <2>3. Places' BY <1>0, <1>2 DEF DrawList, machine, objects, statics, imgui, Goto,
                     Click, Places, Window
    <2>4. UNCHANGED <<pid, objects, tick_last>> /\ (upc' \in Settled => upc \in Settled)
      BY <1>2 DEF DrawList, machine, objects, statics, imgui, Goto, Click, Settled
    <2> QED BY <2>1, <2>2, <2>3, <2>4, PartsNext, Quiet DEF IInv
  <1>3. ASSUME NEW p \in Pids, Choose(p) PROVE IInv'
    <2>1. Truths' BY <1>0, <1>3, Zenon DEF Choose, machine, objects, statics, imgui, Goto,
                     Click, Truths
    <2>2. Remembered' BY <1>0, <1>3, Zenon DEF Choose, machine, objects, statics, imgui,
                         Remembered
    <2>3. Places' BY <1>0, <1>3 DEF Choose, Goto, machine, objects, statics, imgui,
                     Places, Window
    <2>4. UNCHANGED <<pid, objects, tick_last>> /\ (upc' \in Settled => upc \in Settled)
      BY <1>3 DEF Choose, Goto, machine, objects, statics, imgui, Settled
    <2> QED BY <2>1, <2>2, <2>3, <2>4, PartsNext, Quiet DEF IInv
  <1>4. CASE NoneOpened
    <2>1. Truths' BY <1>0, <1>4, Zenon DEF NoneOpened, machine, objects, statics, imgui,
                     Goto, Click, Truths
    <2>2. Remembered' BY <1>0, <1>4, Zenon DEF NoneOpened, machine, objects, statics,
                         imgui, Goto, Click, Remembered
    <2>3. Places' BY <1>0, <1>4 DEF NoneOpened, machine, objects, statics, imgui, Goto,
                     Click, Places, Window
    <2>4. UNCHANGED <<pid, objects, tick_last>> /\ (upc' \in Settled => upc \in Settled)
      BY <1>4 DEF NoneOpened, machine, objects, statics, imgui, Goto, Click, Settled
    <2> QED BY <2>1, <2>2, <2>3, <2>4, PartsNext, Quiet DEF IInv
  <1> QED BY <1>1, <1>2, <1>3, <1>4 DEF List

\* open_process().
LEMMA OpenIInv ==
    ASSUME IInv, Open
    PROVE  IInv'
  <1>0. Truths /\ Remembered /\ Places BY Parts, Zenon DEF IInv
  <1>1. CASE OpenProcess
    <2>1. PICK r \in {"ok", "close"} : UpdateAll(opened_pid, r) /\ result' = r
      BY <1>1, Zenon DEF OpenProcess
    <2>2. /\ upc = "opened" /\ opened_pid # None /\ pid' = opened_pid /\ open_last' = opened_pid
          /\ upc' = "popup"
          /\ UNCHANGED <<alive, linked, windows, opened_pid, tick_last, due, popup, clicked>>
      BY <1>1, Zenon DEF OpenProcess, Goto, machine, imgui
    <2>3. opened_pid \in Pids BY <1>0, <2>2 DEF Remembered
    <2>4. /\ proc' = opened_pid /\ mem_regions' \in {None, "empty", "some"}
          /\ mem_view' \in BOOLEAN /\ ObjectsTogether' /\ (mem' = opened_pid \/ mem' = mem)
      BY <2>1, <2>3, Updated, Zenon
    <2>5. Truths' BY <1>0, <2>2, <2>4, Zenon DEF Truths
    <2>6. Remembered' BY <1>0, <2>2, <2>3, <2>4 DEF Remembered
    <2>7. Places' BY <1>0, <2>1, <2>2 DEF Places
    <2>8. Same'
      <3>1. mem # None => mem = tick_last BY <2>2 DEF IInv, Same, Settled
      <3> QED BY <2>2, <2>4, <3>1 DEF Same, Settled
    <2> QED BY <2>4, <2>5, <2>6, <2>7, <2>8, PartsNext DEF IInv
  <1>2. CASE OpenAgain
    <2>1. /\ upc = "opened" /\ opened_pid # None /\ pid' = opened_pid /\ upc' = "popup"
          /\ UNCHANGED <<machine, objects, windows, statics, imgui>>
      BY <1>2, Zenon DEF OpenAgain, Goto
    <2>2. Truths' BY <1>0, <2>1, Zenon DEF Truths, machine, objects, statics, imgui
    <2>3. Remembered' BY <1>0, <2>1, Zenon DEF Remembered, objects, statics
    <2>4. Places' BY <1>0, <2>1 DEF Places, machine, objects, statics, imgui
    <2>5. ObjectsTogether' BY <2>1, Zenon DEF IInv, ObjectsTogether, objects
    <2>6. Same'
      <3>1. mem # None => mem = tick_last /\ proc = tick_last BY <2>1 DEF IInv, Same,
           Settled
      <3>2. UNCHANGED <<proc, mem, tick_last>> BY <2>1, Zenon DEF objects, statics
      <3> QED BY <2>1, <3>1, <3>2 DEF Same, Settled
    <2> QED BY <2>2, <2>3, <2>4, <2>5, <2>6, PartsNext DEF IInv
  <1>3. CASE ErrorPopup
    <2>1. Truths' BY <1>0, <1>3, Zenon DEF ErrorPopup, machine, objects, statics, imgui,
                     Goto, Click, Truths
    <2>2. Remembered' BY <1>0, <1>3, Zenon DEF ErrorPopup, machine, objects, statics,
                         imgui, Goto, Click, Remembered
    <2>3. Places' BY <1>0, <1>3 DEF ErrorPopup, machine, objects, statics, imgui, Goto,
                     Click, Places, Window
    <2>4. UNCHANGED <<pid, objects, tick_last>> /\ (upc' \in Settled => upc \in Settled)
      BY <1>3 DEF ErrorPopup, machine, objects, statics, imgui, Goto, Click, Settled
    <2> QED BY <2>1, <2>2, <2>3, <2>4, PartsNext, Quiet DEF IInv
  <1>4. CASE ErrorConfirmed
    <2>1. Truths' BY <1>0, <1>4, Zenon DEF ErrorConfirmed, ResetProcess, Click, Truths,
                     machine
    <2>2. Remembered' BY <1>0, <1>4, Zenon DEF ErrorConfirmed, ResetProcess, Remembered
    <2>3. Places' BY <1>0, <1>4 DEF ErrorConfirmed, Goto, machine, Places
    <2>4. mem' = None /\ mem_view' = FALSE /\ mem_regions' = None
      BY <1>4, Zenon DEF ErrorConfirmed, ResetProcess
    <2>5. ObjectsTogether' /\ Same' BY <2>4 DEF ObjectsTogether, Same
    <2> QED BY <2>1, <2>2, <2>3, <2>5, PartsNext DEF IInv
  <1> QED BY <1>1, <1>2, <1>3, <1>4 DEF Open

\* The other windows.
LEMMA WindowsIInv ==
    ASSUME IInv, Windows
    PROVE  IInv'
  <1>0. Truths /\ Remembered /\ Places BY Parts, Zenon DEF IInv
  <1>1. ASSUME NEW w \in Window, PressWindow(w) PROVE IInv'
    <2>1. Truths' BY <1>0, <1>1, Zenon DEF PressWindow, machine, objects, statics, imgui,
                     Goto, Click, Truths
    <2>2. Remembered' BY <1>0, <1>1, Zenon DEF PressWindow, machine, objects, statics,
                         imgui, Remembered
    <2>3. Places' BY <1>0, <1>1 DEF PressWindow, Goto, machine, objects, statics, imgui,
                     Places, Window
    <2>4. UNCHANGED <<pid, objects, tick_last>> /\ (upc' \in Settled => upc \in Settled)
      BY <1>1 DEF PressWindow, Goto, machine, objects, statics, imgui, Settled
    <2> QED BY <2>1, <2>2, <2>3, <2>4, PartsNext, Quiet DEF IInv
  <1>2. CASE NoWindow
    <2>1. Truths' BY <1>0, <1>2, Zenon DEF NoWindow, machine, objects, statics, imgui,
                     Goto, Click, Truths
    <2>2. Remembered' BY <1>0, <1>2, Zenon DEF NoWindow, machine, objects, statics, imgui,
                         Goto, Click, Remembered
    <2>3. Places' BY <1>0, <1>2 DEF NoWindow, machine, objects, statics, imgui, Goto,
                     Click, Places, Window
    <2>4. UNCHANGED <<pid, objects, tick_last>> /\ (upc' \in Settled => upc \in Settled)
      BY <1>2 DEF NoWindow, machine, objects, statics, imgui, Goto, Click, Settled
    <2> QED BY <2>1, <2>2, <2>3, <2>4, PartsNext, Quiet DEF IInv
  <1>3. CASE DrawWindows
    <2>1. Truths' BY <1>0, <1>3, Zenon DEF DrawWindows, machine, objects, statics, imgui,
                     Goto, Click, Truths
    <2>2. Remembered' BY <1>0, <1>3, Zenon DEF DrawWindows, machine, objects, statics,
                         imgui, Goto, Click, Remembered
    <2>3. Places' BY <1>0, <1>3 DEF DrawWindows, machine, objects, statics, imgui, Goto,
                     Click, Places, Window
    <2>4. UNCHANGED <<pid, objects, tick_last>> /\ (upc' \in Settled => upc \in Settled)
      BY <1>3 DEF DrawWindows, machine, objects, statics, imgui, Goto, Click, Settled
    <2> QED BY <2>1, <2>2, <2>3, <2>4, PartsNext, Quiet DEF IInv
  <1>4. CASE DrawFaults
    <2>1. Truths' BY <1>0, <1>4, Zenon DEF DrawFaults, machine, objects, statics, imgui,
                     Goto, Click, Truths
    <2>2. Remembered' BY <1>0, <1>4, Zenon DEF DrawFaults, machine, objects, statics,
                         imgui, Goto, Click, Remembered
    <2>3. Places' BY <1>0, <1>4 DEF DrawFaults, machine, objects, statics, imgui, Goto,
                     Click, Places, Window
    <2>4. UNCHANGED <<pid, objects, tick_last>> /\ (upc' \in Settled => upc \in Settled)
      BY <1>4 DEF DrawFaults, machine, objects, statics, imgui, Goto, Click, Settled
    <2> QED BY <2>1, <2>2, <2>3, <2>4, PartsNext, Quiet DEF IInv
  <1> QED BY <1>1, <1>2, <1>3, <1>4 DEF Windows

\* A process is closed.
LEMMA Closed ==
    ASSUME IInv, CloseProcess
    PROVE  /\ pid' = None /\ proc' = None /\ mem' = None /\ mem_regions' = None
           /\ mem_view' = FALSE /\ windows' = {} /\ ObjectsTogether' /\ Same'
  <1>1. /\ pid' = None /\ proc' = None /\ mem' = None /\ mem_regions' = None
        /\ mem_view' = FALSE /\ windows' = {}
    BY Zenon DEF CloseProcess, ResetProcess
  <1>2. ObjectsTogether' /\ Same' BY <1>1 DEF ObjectsTogether, Same
  <1> QED BY <1>1, <1>2

\* tick_update_process().
LEMMA TickIInv ==
    ASSUME IInv, Tick
    PROVE  IInv'
  <1>0. Truths /\ Remembered /\ Places BY Parts, Zenon DEF IInv
  <1>1. CASE TickNone
    <2>1. Truths' BY <1>0, <1>1, Zenon DEF TickNone, machine, objects, statics, imgui,
                     Goto, Click, Truths
    <2>2. Remembered' BY <1>0, <1>1, Zenon DEF TickNone, machine, objects, statics, imgui,
                         Goto, Click, Remembered
    <2>3. Places' BY <1>0, <1>1 DEF TickNone, machine, objects, statics, imgui, Goto,
                     Click, Places, Window
    <2>4. mem = None /\ UNCHANGED mem
      BY <1>1 DEF TickNone, objects, IInv, Same
    <2>5. Same' BY <2>4 DEF Same
    <2>6. ObjectsTogether' BY <1>1, Zenon DEF TickNone, objects, IInv, ObjectsTogether
    <2> QED BY <2>1, <2>2, <2>3, <2>5, <2>6, PartsNext DEF IInv
  <1>2. CASE TickOpen
    <2>1. /\ upc = "tick" /\ pid \in Pids /\ tick_last' = pid /\ upc' \in {"regions", "panel"}
          /\ UNCHANGED <<machine, opened_pid, open_last, result, due, imgui>>
      BY <1>0, <1>2 DEF TickOpen, Goto, Remembered
    <2>2. CASE UpdateAll(pid, "ok") /\ UNCHANGED <<pid, windows>>
      <3>1. /\ proc' = pid /\ mem_regions' \in {None, "empty", "some"}
            /\ mem_view' \in BOOLEAN /\ ObjectsTogether' /\ mem' = pid
        <4>1. "ok" # "close" OBVIOUS
        <4> QED BY <2>1, <2>2, <4>1, Updated, Zenon
      <3>2. pid' = pid /\ windows' = windows BY <2>2, Zenon
      <3>3. Truths' BY <1>0, <2>1, <3>1, Zenon DEF Truths, machine, imgui
      <3>4. Remembered' BY <1>0, <2>1, <3>1, <3>2 DEF Remembered
      <3>5. Places' BY <1>0, <2>1, <3>2 DEF Places, machine, imgui
      <3>6. Same' BY <2>1, <3>1, <3>2, PidAssumption DEF Same
      <3> QED BY <3>1, <3>3, <3>4, <3>5, <3>6, PartsNext DEF IInv
    <2>3. CASE CloseProcess
      <3>1. Truths' BY <1>0, <2>1, <2>3, Closed, Zenon DEF Truths, machine, imgui
      <3>2. Remembered' BY <1>0, <2>1, <2>3, Closed DEF Remembered
      <3>3. Places' BY <1>0, <2>1, <2>3, Closed DEF Places, machine, imgui
      <3> QED BY <2>3, <3>1, <3>2, <3>3, Closed, PartsNext DEF IInv
    <2> QED BY <1>2, <2>2, <2>3 DEF TickOpen
  <1>3. CASE TickSame
    <2>1. Truths' BY <1>0, <1>3, Zenon DEF TickSame, machine, objects, statics, imgui,
                     Truths
    <2>2. Remembered' BY <1>0, <1>3, Zenon DEF TickSame, machine, objects, statics, imgui,
                         Remembered
    <2>3. Places' BY <1>0, <1>3 DEF TickSame, machine, objects, statics, imgui, Goto, Places
    <2>4. tick_last = pid /\ UNCHANGED <<pid, proc, mem, tick_last>>
      BY <1>3, Zenon DEF TickSame, objects, statics
    <2>5. Same' BY <2>4 DEF IInv, Same
    <2>6. ObjectsTogether' BY <1>3, Zenon DEF TickSame, objects, IInv, ObjectsTogether
    <2> QED BY <2>1, <2>2, <2>3, <2>5, <2>6, PartsNext DEF IInv
  <1>4. CASE TickRegions
    <2>1. /\ upc = "regions" /\ upc' = "panel" /\ due' = FALSE
          /\ UNCHANGED <<alive, linked, opened_pid, open_last, result, tick_last, popup, clicked>>
      BY <1>4, Zenon DEF TickRegions, Goto, machine, imgui
    <2>2. CASE UpdateRegions("ok") /\ UNCHANGED <<pid, windows>>
      <3>1. UNCHANGED <<proc, mem, mem_view, pid, windows>> BY <2>2, Zenon DEF UpdateRegions
      <3>2. /\ mem = None => mem_regions' = mem_regions
            /\ mem # None => mem_regions' \in {"empty", "some"}
        BY <2>2 DEF UpdateRegions, Regions
      <3>3. Truths' BY <1>0, <2>1, <3>1, Zenon DEF Truths
      <3>4. Remembered' BY <1>0, <2>1, <3>1, <3>2 DEF Remembered
      <3>5. Places' BY <1>0, <2>1, <3>1 DEF Places
      <3>6. (mem # None) = (mem_regions' # None)
        BY <3>2, PidAssumption DEF IInv, ObjectsTogether
      <3>7. ObjectsTogether' BY <3>1, <3>6, Zenon DEF IInv, ObjectsTogether
      <3>8. Same' BY <2>1, <3>1 DEF IInv, Same, Settled
      <3> QED BY <3>3, <3>4, <3>5, <3>7, <3>8, PartsNext DEF IInv
    <2>3. CASE CloseProcess
      <3>1. Truths' BY <1>0, <2>1, <2>3, Closed, Zenon DEF Truths
      <3>2. Remembered' BY <1>0, <2>1, <2>3, Closed DEF Remembered
      <3>3. Places' BY <1>0, <2>1, <2>3, Closed DEF Places
      <3> QED BY <2>3, <3>1, <3>2, <3>3, Closed, PartsNext DEF IInv
    <2> QED BY <1>4, <2>2, <2>3 DEF TickRegions
  <1>5. CASE TickNotDue
    <2>1. Truths' BY <1>0, <1>5, Zenon DEF TickNotDue, machine, objects, statics, imgui,
                     Goto, Click, Truths
    <2>2. Remembered' BY <1>0, <1>5, Zenon DEF TickNotDue, machine, objects, statics,
                         imgui, Goto, Click, Remembered
    <2>3. Places' BY <1>0, <1>5 DEF TickNotDue, machine, objects, statics, imgui, Goto,
                     Click, Places, Window
    <2>4. UNCHANGED <<pid, objects, tick_last>> /\ (upc' \in Settled => upc \in Settled)
      BY <1>5 DEF TickNotDue, machine, objects, statics, imgui, Goto, Click, Settled
    <2> QED BY <2>1, <2>2, <2>3, <2>4, PartsNext, Quiet DEF IInv
  <1> QED BY <1>1, <1>2, <1>3, <1>4, <1>5 DEF Tick

\* The windows' close buttons, the clock and the machine; and no step at all.
LEMMA WorldIInv ==
    ASSUME IInv, (\E w \in Window : CloseWindow(w)) \/ TimePasses
           \/ (\E p \in Pids : Spawn(p) \/ Exits(p)) \/ LinkLost \/ UNCHANGED vars
    PROVE  IInv'
  <1>0. Truths /\ Remembered /\ Places BY Parts, Zenon DEF IInv
  <1>1. ASSUME NEW w \in Window, CloseWindow(w) PROVE IInv'
    <2>1. Truths' BY <1>0, <1>1, Zenon DEF CloseWindow, machine, objects, statics, imgui,
                     Goto, Click, Truths
    <2>2. Remembered' BY <1>0, <1>1, Zenon DEF CloseWindow, machine, objects, statics,
                         imgui, Remembered
    <2>3. Places' BY <1>0, <1>1 DEF CloseWindow, Goto, machine, objects, statics, imgui,
                     Places, Window
    <2>4. UNCHANGED <<pid, objects, tick_last>> /\ (upc' \in Settled => upc \in Settled)
      BY <1>1 DEF CloseWindow, Goto, machine, objects, statics, imgui, Settled
    <2> QED BY <2>1, <2>2, <2>3, <2>4, PartsNext, Quiet DEF IInv
  <1>2. CASE TimePasses
    <2>1. Truths' BY <1>0, <1>2, Zenon DEF TimePasses, machine, objects, statics, imgui,
                     Goto, Click, Truths
    <2>2. Remembered' BY <1>0, <1>2, Zenon DEF TimePasses, machine, objects, statics,
                         imgui, Goto, Click, Remembered
    <2>3. Places' BY <1>0, <1>2 DEF TimePasses, machine, objects, statics, imgui, Goto,
                     Click, Places, Window
    <2>4. UNCHANGED <<pid, objects, tick_last>> /\ (upc' \in Settled => upc \in Settled)
      BY <1>2 DEF TimePasses, machine, objects, statics, imgui, Goto, Click, Settled
    <2> QED BY <2>1, <2>2, <2>3, <2>4, PartsNext, Quiet DEF IInv
  <1>3. ASSUME NEW p \in Pids, Spawn(p) PROVE IInv'
    <2>1. Truths' BY <1>0, <1>3, Zenon DEF Spawn, machine, objects, statics, imgui, Goto,
                     Click, Truths
    <2>2. Remembered' BY <1>0, <1>3, Zenon DEF Spawn, machine, objects, statics, imgui,
                         Remembered
    <2>3. Places' BY <1>0, <1>3 DEF Spawn, Goto, machine, objects, statics, imgui, Places,
                     Window
    <2>4. UNCHANGED <<pid, objects, tick_last>> /\ (upc' \in Settled => upc \in Settled)
      BY <1>3 DEF Spawn, Goto, machine, objects, statics, imgui, Settled
    <2> QED BY <2>1, <2>2, <2>3, <2>4, PartsNext, Quiet DEF IInv
  <1>4. ASSUME NEW p \in Pids, Exits(p) PROVE IInv'
    <2>1. Truths' BY <1>0, <1>4, Zenon DEF Exits, machine, objects, statics, imgui, Goto,
                     Click, Truths
    <2>2. Remembered' BY <1>0, <1>4, Zenon DEF Exits, machine, objects, statics, imgui,
                         Remembered
    <2>3. Places' BY <1>0, <1>4 DEF Exits, Goto, machine, objects, statics, imgui, Places,
                     Window
    <2>4. UNCHANGED <<pid, objects, tick_last>> /\ (upc' \in Settled => upc \in Settled)
      BY <1>4 DEF Exits, Goto, machine, objects, statics, imgui, Settled
    <2> QED BY <2>1, <2>2, <2>3, <2>4, PartsNext, Quiet DEF IInv
  <1>5. CASE LinkLost
    <2>1. Truths' BY <1>0, <1>5, Zenon DEF LinkLost, machine, objects, statics, imgui,
                     Goto, Click, Truths
    <2>2. Remembered' BY <1>0, <1>5, Zenon DEF LinkLost, machine, objects, statics, imgui,
                         Goto, Click, Remembered
    <2>3. Places' BY <1>0, <1>5 DEF LinkLost, machine, objects, statics, imgui, Goto,
                     Click, Places, Window
    <2>4. UNCHANGED <<pid, objects, tick_last>> /\ (upc' \in Settled => upc \in Settled)
      BY <1>5 DEF LinkLost, machine, objects, statics, imgui, Goto, Click, Settled
    <2> QED BY <2>1, <2>2, <2>3, <2>4, PartsNext, Quiet DEF IInv
  <1>6. CASE UNCHANGED vars
    <2>1. Truths' BY <1>0, <1>6, Zenon DEF vars, machine, objects, statics, imgui, Goto,
                     Click, Truths
    <2>2. Remembered' BY <1>0, <1>6, Zenon DEF vars, machine, objects, statics, imgui,
                         Goto, Click, Remembered
    <2>3. Places' BY <1>0, <1>6 DEF vars, machine, objects, statics, imgui, Goto, Click,
                     Places, Window
    <2>4. UNCHANGED <<pid, objects, tick_last>> /\ (upc' \in Settled => upc \in Settled)
      BY <1>6 DEF vars, machine, objects, statics, imgui, Goto, Click, Settled
    <2> QED BY <2>1, <2>2, <2>3, <2>4, PartsNext, Quiet DEF IInv
  <1> QED BY <1>1, <1>2, <1>3, <1>4, <1>5, <1>6

\* The invariant holds in every reachable state.
THEOREM Invariance == Spec => []IInv
  <1>1. IInv /\ [Next]_vars => IInv'
    BY PanelIInv, ListIInv, OpenIInv, WindowsIInv, TickIInv, WorldIInv, Zenon DEF Next,
       Frame
  <1> QED BY InitIInv, <1>1, PTL DEF Spec

\* Every variable of the GUI's session keeps its type.
THEOREM TypeCorrect == Spec => []TypeOK
  <1>1. IInv => TypeOK BY DEF IInv
  <1> QED BY Invariance, <1>1, PTL

\* At the end of a frame the memory that is shown, written and searched is that of the
\* process the panel names (gui_imgui.cpp:691-703, 77-86).
THEOREM SameProcessAlways == Spec => []SameProcess
  <1>1. IInv => SameProcess BY DEF IInv, Same, SameProcess, Settled
  <1> QED BY Invariance, <1>1, PTL

\* The objects of a process come and go together (gui_imgui.cpp:215-216, 402, 691-747).
THEOREM ObjectsTogetherAlways == Spec => []ObjectsTogether
  <1>1. IInv => ObjectsTogether BY DEF IInv
  <1> QED BY Invariance, <1>1, PTL

-----------------------------------------------------------------------------
(* The Android application: what it holds of its window.  The properties    *)
(* are not inductive: why DESTROY finds nothing to shut down, and           *)
(* INIT_WINDOW nothing set up, lies in what the activity waits for.         *)

Init0 == "INIT_WINDOW"
Term  == "TERM_WINDOW"
Dest  == "DESTROY"

\* At most one command is on its way, the one the activity waits for an answer to.
Waiting ==
    /\ ui = "runs"  => cmds = <<>> /\ window = surface
    /\ ui = "given" => surface /\ ((cmds = <<Init0>> /\ ~window) \/ (cmds = <<>> /\ window))
    /\ ui = "taken" => ~surface /\ ((cmds = <<Term>> /\ window) \/ (cmds = <<>> /\ ~window))
    /\ ui = "ended" => ~surface /\ ~window /\ (cmds = <<Dest>> \/ (cmds = <<>> /\ pc = "returned"))

\* What the application holds at each place of its thread.
Holds ==
    /\ HoldsItsWindow /\ NothingLeft
    /\ pc \in {"connect", "auth", "crashed"} => window /\ ~g_Initialized /\ imgui_ctx /\ acquired = 1

AppIInv == AppTypeOK /\ Waiting /\ Holds

\* The sequences of at most one command.
LEMMA Pipe ==
    ASSUME NEW c \in {Init0, Term, Dest}
    PROVE  /\ Append(<<>>, c) = <<c>> /\ <<c>> # <<>>
           /\ Head(<<c>>) = c /\ Tail(<<c>>) = <<>>
           /\ <<c>> \in Seq({Init0, Term, Dest}) /\ Len(<<c>>) = 1
           /\ <<>> \in Seq({Init0, Term, Dest}) /\ Len(<<>>) = 0
  BY DEF Init0, Term, Dest

\* The parts of the type invariant: variables that hold a truth value, and the others.
AppTruths ==
    /\ surface \in BOOLEAN /\ window \in BOOLEAN /\ g_Initialized \in BOOLEAN
    /\ display \in BOOLEAN /\ imgui_ctx \in BOOLEAN /\ gui_ctx \in BOOLEAN
    /\ threads \in BOOLEAN /\ quit \in BOOLEAN /\ up \in BOOLEAN
AppPlaces ==
    /\ ui \in {"runs", "given", "taken", "ended"}
    /\ pc \in {"poll", "connect", "auth", "returned", "crashed"}
    /\ acquired \in 0..1
    /\ mine \in {"none", "waiting", "open", "broken"}
    /\ new \in {"none", "waiting", "open", "broken"}
    /\ served \in {"none", "mine", "new"}
Commands == cmds \in Seq({"INIT_WINDOW", "TERM_WINDOW", "DESTROY"}) /\ Len(cmds) <= 2

\* The type invariant is its parts, now and after a step.
LEMMA AppParts == AppTypeOK <=> AppTruths /\ AppPlaces /\ Commands
  <1>1. {mine, new} \subseteq {"none", "waiting", "open", "broken"}
          <=> /\ mine \in {"none", "waiting", "open", "broken"}
              /\ new \in {"none", "waiting", "open", "broken"}
    OBVIOUS
  <1> QED BY <1>1, Zenon DEF AppTypeOK, AppTruths, AppPlaces, Commands

\* The same of the primed variables.
LEMMA AppPartsNext == AppTypeOK' <=> AppTruths' /\ AppPlaces' /\ Commands'
  BY AppParts, PTL

\* The program starts without a window, and holds nothing.
LEMMA AppInitIInv == AppInit => AppIInv
  <1> SUFFICES ASSUME AppInit PROVE AppIInv OBVIOUS
  <1>1. AppTypeOK
    <2>1. AppTruths BY Zenon DEF AppInit, AppTruths
    <2>2. AppPlaces BY DEF AppInit, AppPlaces
    <2>3. Commands BY Pipe DEF AppInit, Commands, Init0, Term, Dest
    <2> QED BY <2>1, <2>2, <2>3, AppParts
  <1>2. Waiting BY DEF AppInit, Waiting
  <1>3. Holds BY DEF AppInit, Holds, HoldsItsWindow, NothingLeft
  <1> QED BY <1>1, <1>2, <1>3 DEF AppIInv

\* The activity's steps.
LEMMA ActivityIInv ==
    ASSUME AppIInv, Activity
    PROVE  AppIInv'
  <1> USE DEF AppIInv
  <1>0. AppTruths /\ AppPlaces /\ Commands
    BY AppParts, Zenon
  <1>1. ASSUME NEW c \in {Init0, Term, Dest}, NEW w \in {"given", "taken", "ended"},
               ui = "runs", Send(c, w), surface' \in BOOLEAN
        PROVE  AppTypeOK' /\ Holds' /\ cmds' = <<c>> /\ ui' = w /\ window' = window
    <2>1. cmds' = <<c>> /\ ui' = w
      BY <1>1, Pipe DEF Send, Waiting
    <2>2. UNCHANGED <<app, net>>
      BY <1>1 DEF Send
    <2>3. AppTypeOK'
      BY <1>1, <2>1, <2>2, Pipe DEF AppTypeOK, app, net, egl, Init0, Term, Dest
    <2>4. Holds'
      BY <1>1, <2>2 DEF Holds, HoldsItsWindow, NothingLeft, app, egl
    <2> QED BY <2>1, <2>2, <2>3, <2>4 DEF app
  <1>b. /\ Init0 \in {Init0, Term, Dest} /\ Term \in {Init0, Term, Dest} /\ Dest \in {Init0, Term, Dest}
        /\ "given" \in {"given", "taken", "ended"} /\ "taken" \in {"given", "taken", "ended"}
        /\ "ended" \in {"given", "taken", "ended"}
    OBVIOUS
  <1>2. CASE SurfaceCreated
    <2>1. ui = "runs" /\ surface' /\ surface' \in BOOLEAN /\ Send(Init0, "given")
      BY <1>2, Zenon DEF SurfaceCreated, Init0
    <2>2. ~surface /\ window = surface
      BY <1>2, <2>1, Zenon DEF SurfaceCreated, Waiting
    <2>3. AppTypeOK' /\ Holds' /\ cmds' = <<Init0>> /\ ui' = "given" /\ window' = window
      BY <1>1, <1>b, <2>1, Zenon
    <2>4. Waiting' BY <2>1, <2>2, <2>3 DEF Waiting
    <2> QED BY <2>3, <2>4
  <1>3. CASE SurfaceDestroyed
    <2>1. ui = "runs" /\ ~surface' /\ surface' \in BOOLEAN /\ Send(Term, "taken")
      BY <1>3, Zenon DEF SurfaceDestroyed, Term
    <2>2. surface /\ window = surface
      BY <1>3, <2>1, Zenon DEF SurfaceDestroyed, Waiting
    <2>3. AppTypeOK' /\ Holds' /\ cmds' = <<Term>> /\ ui' = "taken" /\ window' = window
      BY <1>1, <1>b, <2>1, Zenon
    <2>4. Waiting' BY <2>1, <2>2, <2>3 DEF Waiting
    <2> QED BY <2>3, <2>4
  <1>4. CASE Destroy
    <2>1. ui = "runs" /\ surface' = surface /\ Send(Dest, "ended")
      BY <1>4, Zenon DEF Destroy, Dest
    <2>2. ~surface /\ window = surface
      BY <1>4, <2>1, Zenon DEF Destroy, Waiting
    <2>3. surface' \in BOOLEAN
      BY <2>1, AppParts, Zenon DEF AppTruths
    <2>4. AppTypeOK' /\ Holds' /\ cmds' = <<Dest>> /\ ui' = "ended" /\ window' = window
      BY <1>1, <1>b, <2>1, <2>3, Zenon
    <2>5. Waiting' BY <2>1, <2>2, <2>4 DEF Waiting
    <2> QED BY <2>4, <2>5
  <1>5. CASE UiGoesOn
    <2>1. AppTypeOK'
      <3>1. AppTruths' BY <1>0, <1>5, Zenon DEF UiGoesOn, AppTruths, app, net, egl
      <3>2. ui' = "runs" /\ UNCHANGED <<cmds, pc, acquired, mine, new, served>>
        BY <1>5, Zenon DEF UiGoesOn, app, net
      <3>3. AppPlaces' BY <1>0, <3>2, Zenon DEF AppPlaces
      <3>4. Commands' BY <1>0, <3>2, Zenon DEF Commands
      <3> QED BY <3>1, <3>3, <3>4, AppPartsNext
    <2>2. Waiting'
      <3>1. cmds = <<>> /\ window = surface
        <4>1. ui \in {"given", "taken"} /\ (ui = "given" => window) /\ (ui = "taken" => ~window)
          BY <1>5, Zenon DEF UiGoesOn, Answered
        <4>2. ui = "given" => cmds = <<>> /\ window /\ surface BY <4>1 DEF Waiting
        <4>3. ui = "taken" => cmds = <<>> /\ ~window /\ ~surface BY <4>1 DEF Waiting
        <4> QED BY <4>1, <4>2, <4>3, <1>0, Zenon DEF AppTruths
      <3>2. ui' = "runs" /\ cmds' = cmds /\ window' = window /\ surface' = surface
        BY <1>5, Zenon DEF UiGoesOn, app
      <3> QED BY <3>1, <3>2 DEF Waiting
    <2>3. Holds' BY <1>5 DEF UiGoesOn, Holds, HoldsItsWindow, NothingLeft, app, egl
    <2> QED BY <2>1, <2>2, <2>3
  <1>6. CASE Recreate
    <2>1. ui = "ended" /\ pc = "returned"
      BY <1>6, Zenon DEF Recreate, Answered
    <2>2. ~surface /\ ~g_Initialized /\ ~display /\ ~imgui_ctx /\ acquired = 0
      BY <2>1 DEF Waiting, Holds, NothingLeft
    <2>3. /\ ui' = "runs" /\ pc' = "poll" /\ cmds' = <<>> /\ ~window'
          /\ UNCHANGED <<surface, acquired, g_Initialized, display, imgui_ctx, served, mine, new>>
      BY <1>6, Zenon DEF Recreate, net, egl
    <2>4. AppTypeOK'
      <3>1. AppTruths' BY <1>0, <1>6, Zenon DEF Recreate, AppTruths, net, egl
      <3>2. AppPlaces' BY <1>0, <2>3, Zenon DEF AppPlaces
      <3>3. Commands' BY <2>3, Pipe DEF Commands, Init0, Term, Dest
      <3> QED BY <3>1, <3>2, <3>3, AppPartsNext
    <2>5. window' = surface'
      <3>1. window' = FALSE /\ surface' = surface BY <1>6, Zenon DEF Recreate
      <3>2. surface = FALSE BY <2>2, AppParts, Zenon DEF AppTruths
      <3> QED BY <3>1, <3>2
    <2>6. Waiting' BY <2>3, <2>5 DEF Waiting
    <2>7. g_Initialized' = window' /\ imgui_ctx' = window'
      <3>1. window' = FALSE /\ g_Initialized' = g_Initialized /\ imgui_ctx' = imgui_ctx
        BY <1>6, Zenon DEF Recreate, egl
      <3>2. g_Initialized = FALSE /\ imgui_ctx = FALSE BY <2>2, AppParts, Zenon DEF AppTruths
      <3> QED BY <3>1, <3>2
    <2>8. Holds' BY <2>2, <2>3, <2>7 DEF Holds, HoldsItsWindow, NothingLeft
    <2> QED BY <2>4, <2>6, <2>8
  <1> QED BY <1>2, <1>3, <1>4, <1>5, <1>6 DEF Activity

\* A command is taken while the activity waits for its answer.
LEMMA TakesIt ==
    ASSUME AppIInv, NEW c \in {Init0, Term, Dest}, Takes(c)
    PROVE  /\ cmds = <<c>> /\ cmds' = <<>>
           /\ c = Init0 => ui = "given" /\ surface /\ ~window
           /\ c = Term  => ui = "taken" /\ ~surface /\ window
           /\ c = Dest  => ui = "ended" /\ ~surface /\ ~window
  <1>1. ui \in {"runs", "given", "taken", "ended"}
    BY DEF AppIInv, AppTypeOK
  <1>2. cmds \in {<<Init0>>, <<Term>>, <<Dest>>}
    BY <1>1 DEF AppIInv, Waiting, Takes
  <1>3. cmds = <<c>> /\ cmds' = <<>>
    BY <1>2, Pipe DEF Takes, Init0, Term, Dest
  <1> QED BY <1>1, <1>3, Pipe DEF AppIInv, Waiting, Init0, Term, Dest

\* The steps of android_main.
LEMMA LoopIInv ==
    ASSUME AppIInv, Loop
    PROVE  AppIInv'
  <1> USE DEF AppIInv
  <1>0. AppTruths /\ AppPlaces /\ Commands
    BY AppParts, Zenon
  <1>b. Init0 \in {Init0, Term, Dest} /\ Term \in {Init0, Term, Dest} /\ Dest \in {Init0, Term, Dest}
    OBVIOUS
  <1>1. CASE InitWindow
    <2>1. /\ cmds' = <<>> /\ ui = "given" /\ surface /\ ~window /\ window'
          /\ pc = "poll" /\ UNCHANGED <<ui, surface>>
      BY <1>b, <1>1, TakesIt DEF InitWindow, Takes, Init0, activity
    <2>2. ~g_Initialized /\ acquired = 0
      BY <2>1 DEF Holds, HoldsItsWindow
    <2>3. /\ pc' = "connect" /\ acquired' = 1 /\ display' \in BOOLEAN /\ imgui_ctx' = TRUE
          /\ window' = TRUE /\ UNCHANGED g_Initialized
      BY <1>1, <2>2 DEF InitWindow
    <2>4. AppTypeOK' BY <1>1, <2>1, <2>3, Pipe DEF InitWindow, AppTypeOK, net, Init0, Term, Dest
    <2>5. Waiting' BY <2>1, <2>3 DEF Waiting
    <2>6. Holds' BY <2>2, <2>3 DEF Holds, HoldsItsWindow, NothingLeft
    <2> QED BY <2>4, <2>5, <2>6
  <1>2. CASE TermWindow
    <2>1. /\ cmds' = <<>> /\ ui = "taken" /\ ~surface /\ window /\ window' = FALSE
          /\ pc = "poll" /\ UNCHANGED <<ui, surface, pc>>
      BY <1>b, <1>2, TakesIt DEF TermWindow, Takes, Term, activity
    <2>2. g_Initialized /\ acquired = 1
      BY <2>1 DEF Holds, HoldsItsWindow
    <2>3. g_Initialized' = FALSE /\ display' = FALSE /\ imgui_ctx' = FALSE /\ acquired' = 0
      BY <1>2, <2>2 DEF TermWindow, Shutdown
    <2>4. AppTypeOK'
      <3>1. AppTruths' BY <1>0, <1>2, <2>1, <2>3, Zenon DEF TermWindow, AppTruths, net
      <3>2. UNCHANGED <<mine, new, served>> BY <1>2, Zenon DEF TermWindow, net
      <3>3. AppPlaces' BY <1>0, <2>1, <2>3, <3>2 DEF AppPlaces
      <3>4. Commands' BY <2>1, Pipe DEF Commands, Init0, Term, Dest
      <3> QED BY <3>1, <3>3, <3>4, AppPartsNext
    <2>5. Waiting' BY <2>1 DEF Waiting
    <2>6. Holds' BY <2>1, <2>3 DEF Holds, HoldsItsWindow, NothingLeft
    <2> QED BY <2>4, <2>5, <2>6
  <1>3. CASE DestroyRequested
    <2>1. /\ cmds' = <<>> /\ ui = "ended" /\ ~surface /\ ~window /\ pc = "poll" /\ pc' = "returned"
          /\ UNCHANGED <<ui, surface, window>>
      BY <1>b, <1>3, TakesIt DEF DestroyRequested, Takes, Dest, activity
    <2>2. ~g_Initialized /\ ~display /\ ~imgui_ctx /\ acquired = 0
      BY <2>1 DEF Holds, HoldsItsWindow, AppTypeOK
    <2>3. UNCHANGED <<g_Initialized, display, imgui_ctx, acquired>>
      BY <1>3, <2>2 DEF DestroyRequested, Shutdown
    <2>4. AppTypeOK' BY <1>3, <2>1, <2>3, Pipe DEF DestroyRequested, AppTypeOK, net, Init0,
                     Term, Dest
    <2>5. Waiting' BY <2>1 DEF Waiting
    <2>6. Holds' BY <2>1, <2>2, <2>3 DEF Holds, HoldsItsWindow, NothingLeft
    <2> QED BY <2>4, <2>5, <2>6
  <1>4. CASE Connect
    <2>1. AppTypeOK' BY <1>4 DEF Connect, AppTypeOK, activity, egl
    <2>2. Waiting' BY <1>4 DEF Connect, Waiting, activity
    <2>3. Holds' BY <1>4 DEF Connect, Holds, HoldsItsWindow, NothingLeft, egl
    <2> QED BY <2>1, <2>2, <2>3
  <1>5. CASE Auth
    <2>1. pc = "auth" /\ UNCHANGED <<ui, surface, cmds, window, acquired, display, imgui_ctx, quit, up>>
      BY <1>5, Zenon DEF Auth, activity, egl
    <2>2. window /\ g_Initialized = FALSE /\ imgui_ctx /\ acquired = 1 /\ ui # "ended"
      <3>1. window /\ ~g_Initialized /\ imgui_ctx /\ acquired = 1 BY <2>1 DEF Holds
      <3>2. ui # "ended" BY <2>1, <3>1 DEF Waiting
      <3> QED BY <1>0, <3>1, <3>2, Zenon DEF AppTruths
    <2>3. \/ pc' = "crashed" /\ UNCHANGED <<g_Initialized, gui_ctx, threads, mine, new, served>>
          \/ /\ pc' = "poll" /\ g_Initialized' = TRUE /\ gui_ctx' = TRUE /\ threads' = FALSE
             /\ mine' = new /\ new' = "none" /\ served' \in {"mine", "none"}
      <3>1. CASE gui_ctx /\ threads BY <1>5, <3>1, Zenon DEF Auth
      <3>2. CASE ~(gui_ctx /\ threads)
        <4>1. /\ pc' = "poll" /\ g_Initialized' = TRUE /\ gui_ctx' = TRUE /\ threads' = FALSE
              /\ mine' = new /\ new' = "none" /\ served' = IF served = "new" THEN "mine" ELSE "none"
          BY <1>5, <3>2, Zenon DEF Auth
        <4>2. served' \in {"mine", "none"} BY <4>1
        <4> QED BY <4>1, <4>2, Zenon
      <3> QED BY <3>1, <3>2
    <2>4. AppTypeOK'
      <3>1. AppTruths' BY <1>0, <2>1, <2>3, Zenon DEF AppTruths
      <3>2. AppPlaces' BY <1>0, <2>1, <2>3 DEF AppPlaces
      <3>3. Commands' BY <1>0, <2>1, Zenon DEF Commands
      <3> QED BY <3>1, <3>2, <3>3, AppPartsNext
    <2>5. Waiting' BY <2>1, <2>2 DEF Waiting
    <2>6. Holds'
      <3>1. CASE pc' = "crashed" BY <2>1, <2>2, <2>3, <3>1 DEF Holds, HoldsItsWindow,
                                    NothingLeft
      <3>2. CASE pc' = "poll"
        <4>1. g_Initialized' = window' /\ imgui_ctx' = window' /\ window'
          BY <1>0, <2>1, <2>2, <2>3, <3>2, Zenon DEF AppTruths
        <4> QED BY <2>1, <2>2, <3>2, <4>1 DEF Holds, HoldsItsWindow, NothingLeft
      <3> QED BY <2>3, <3>1, <3>2
    <2> QED BY <2>4, <2>5, <2>6
  <1>6. CASE MainLoopStep
    <2>1. pc = "poll" /\ g_Initialized /\ window /\ acquired = 1 /\ imgui_ctx
      BY <1>6 DEF MainLoopStep, Holds, HoldsItsWindow, AppTypeOK
    <2>2. UNCHANGED <<ui, surface, cmds, window, gui_ctx, mine, new, up, served>>
      BY <1>6, Zenon DEF MainLoopStep, activity, net
    <2>3. \/ UNCHANGED <<pc, quit, g_Initialized, display, imgui_ctx, acquired>>
          \/ /\ pc' = "returned" /\ quit' = TRUE
             /\ g_Initialized' = FALSE /\ display' = FALSE /\ imgui_ctx' = FALSE /\ acquired' = 0
      <3>1. CASE display /\ gui_ctx
        <4>1. PICK stay \in BOOLEAN : FrameEnds(stay)
          BY <1>6, <3>1, Zenon DEF MainLoopStep
        <4>2. CASE stay BY <4>1, <4>2, Zenon DEF FrameEnds, egl
        <4>3. CASE ~stay
          <5>1. pc' = "returned" /\ quit' = TRUE /\ Shutdown
            BY <4>1, <4>3, Zenon DEF FrameEnds
          <5>2. g_Initialized' = FALSE /\ display' = FALSE /\ imgui_ctx' = FALSE /\ acquired' = acquired - 1
            BY <2>1, <5>1, Zenon DEF Shutdown
          <5> QED BY <2>1, <5>1, <5>2
        <4> QED BY <4>2, <4>3
      <3>2. CASE ~(display /\ gui_ctx)
        BY <1>6, <3>2, Zenon DEF MainLoopStep, egl
      <3> QED BY <3>1, <3>2
    <2>4. threads' \in BOOLEAN
      <3>1. CASE display /\ gui_ctx BY <1>6, <3>1, Zenon DEF MainLoopStep
      <3>2. CASE ~(display /\ gui_ctx)
        BY <1>0, <1>6, <3>2, Zenon DEF MainLoopStep, AppTruths
      <3> QED BY <3>1, <3>2
    <2>5. AppTypeOK'
      <3>1. AppTruths' BY <1>0, <2>2, <2>3, <2>4, Zenon DEF AppTruths
      <3>2. AppPlaces' BY <1>0, <2>2, <2>3 DEF AppPlaces
      <3>3. Commands' BY <1>0, <2>2, Zenon DEF Commands
      <3> QED BY <3>1, <3>2, <3>3, AppPartsNext
    <2>6. Waiting' BY <2>1, <2>2, <2>3 DEF Waiting
    <2>7. Holds' BY <2>1, <2>2, <2>3 DEF Holds, HoldsItsWindow, NothingLeft
    <2> QED BY <2>5, <2>6, <2>7
  <1> QED BY <1>1, <1>2, <1>3, <1>4, <1>5, <1>6 DEF Loop, Init0, Term, Dest

\* Steps of the server, and none at all, leave android_main and the activity alone.
LEMMA ServerAppIInv ==
    ASSUME AppIInv, Accept \/ Dies \/ Restarts \/ UNCHANGED AppVars
    PROVE  AppIInv'
  <1> USE DEF AppIInv
  <1>1. UNCHANGED <<activity, cmds, app>>
    BY DEF Accept, Dies, Restarts, AppVars
  <1>2. {mine', new'} \subseteq {"none", "waiting", "open", "broken"} /\ up' \in BOOLEAN
        /\ served' \in {"none", "mine", "new"}
    BY DEF Accept, Dies, Break, Restarts, AppVars, net, AppTypeOK
  <1>3. AppTypeOK' BY <1>1, <1>2 DEF AppTypeOK, activity, app, egl
  <1>4. Waiting' BY <1>1 DEF Waiting, activity, app
  <1>5. Holds' BY <1>1 DEF Holds, HoldsItsWindow, NothingLeft, app, egl
  <1> QED BY <1>3, <1>4, <1>5

\* The invariant holds in every reachable state of the application.
THEOREM AppInvariance == AppSpec => []AppIInv
  <1>1. AppIInv /\ [AppNext]_AppVars => AppIInv'
    BY ActivityIInv, LoopIInv, ServerAppIInv DEF AppNext
  <1> QED BY AppInitIInv, <1>1, PTL DEF AppSpec

\* Every variable of android_main and of what it talks to keeps its type; at most one
\* reference to a window is held.
THEOREM AppTypeCorrect == AppSpec => []AppTypeOK
  <1>1. AppIInv => AppTypeOK BY DEF AppIInv
  <1> QED BY AppInvariance, <1>1, PTL

\* Between commands the application holds a window's reference, a context and a display
\* only of the window it has (main_android_imgui.cpp:115-163, 298-327).
THEOREM HoldsItsWindowAlways == AppSpec => []HoldsItsWindow
  <1>1. AppIInv => HoldsItsWindow BY DEF AppIInv, Holds
  <1> QED BY AppInvariance, <1>1, PTL

\* Nothing is left to free when android_main returns, however it does (95-111).
THEOREM NothingLeftAlways == AppSpec => []NothingLeft
  <1>1. AppIInv => NothingLeft BY DEF AppIInv, Holds
  <1> QED BY AppInvariance, <1>1, PTL
=============================================================================
