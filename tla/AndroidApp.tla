------------------------------ MODULE AndroidApp ------------------------------
(***************************************************************************)
(* The Android application: android_main, the commands it gets when its    *)
(* window comes and goes, what Init sets up and Shutdown takes down, and   *)
(* the GUI that outlives both with its connection to the server.           *)
(*                                                                         *)
(* The activity's thread is external: native_app_glue sends a command      *)
(* through a pipe and waits until the application's thread has taken the   *)
(* new window or let go of the old one, or has ended.  The activity takes  *)
(* its window away before it destroys the application.                     *)
(*                                                                         *)
(* The names that GuiSession has too begin with App here: both are modules *)
(* of one program, and Gui_proofs extends both.                            *)
(***************************************************************************)
EXTENDS Naturals, Sequences

VARIABLES
    \* The activity.
    ui,               \* "runs", or what it waits for: "given", "taken", "ended"
    surface,          \* the activity has a surface
    cmds,             \* commands in the pipe
    \* The application.
    pc,               \* "poll", "connect" and "auth" in Init, "returned", "crashed"
    window,           \* app->window is not null
    acquired,         \* references to a window that Init took
    g_Initialized,
    display,          \* g_EglDisplay with its context and surface
    imgui_ctx,        \* an ImGui context exists
    gui_ctx,          \* a CheatNGGUI exists
    threads,          \* one of its search tasks has a thread that was not joined
    quit,             \* tick has returned false
    \* The connections: the one of gui_ctx, the one of the GUI that Init makes.
    mine, new,        \* "none", "waiting" for accept, "open", "broken"
    up,               \* a server runs
    served            \* the connection it serves: "none", "mine", "new"

activity == <<ui, surface>>
egl      == <<display, imgui_ctx>>
app      == <<pc, window, acquired, g_Initialized, egl, gui_ctx, threads, quit>>
net      == <<mine, new, up, served>>
AppVars  == <<activity, cmds, app, net>>

Answered(w) ==
    /\ w = "given" => window
    /\ w = "taken" => ~window
    /\ w = "ended" => pc = "returned"

-----------------------------------------------------------------------------
(* The activity's thread. *)

Send(cmd, wait) == cmds' = Append(cmds, cmd) /\ ui' = wait /\ UNCHANGED <<app, net>>

SurfaceCreated   == ui = "runs" /\ ~surface /\ surface' = TRUE /\ Send("INIT_WINDOW", "given")
SurfaceDestroyed == ui = "runs" /\ surface /\ surface' = FALSE /\ Send("TERM_WINDOW", "taken")
Destroy          == ui = "runs" /\ ~surface /\ UNCHANGED surface /\ Send("DESTROY", "ended")
UiGoesOn ==
    /\ ui \in {"given", "taken"} /\ Answered(ui) /\ ui' = "runs"
    /\ UNCHANGED <<surface, cmds, app, net>>

\* The activity is created again in the same program: its static variables, and with
\* them the GUI and its connection, are as android_main left them.
Recreate ==
    /\ ui = "ended" /\ Answered(ui)
    /\ ui' = "runs" /\ pc' = "poll" /\ cmds' = <<>> /\ window' = FALSE /\ quit' = FALSE
    /\ UNCHANGED <<surface, acquired, g_Initialized, egl, gui_ctx, threads, net>>

-----------------------------------------------------------------------------
(* The application's thread. *)

\* Mutant: the ImGui context is not destroyed.
ShutdownKeepsContext ==
    IF g_Initialized THEN g_Initialized' = FALSE /\ display' = FALSE /\ imgui_ctx' = imgui_ctx /\ acquired' = acquired - 1
    ELSE UNCHANGED <<g_Initialized, display, imgui_ctx, acquired>>
\* gui_ctx stays.
Shutdown ==
    IF g_Initialized THEN g_Initialized' = FALSE /\ display' = FALSE /\ imgui_ctx' = FALSE /\ acquired' = acquired - 1
    ELSE UNCHANGED <<g_Initialized, display, imgui_ctx, acquired>>

Takes(cmd) == pc = "poll" /\ cmds # <<>> /\ Head(cmds) = cmd /\ cmds' = Tail(cmds)

\* handleAppCmd: Init up to the constructor of the new GUI.  Failures of EGL are
\* only logged.
InitWindow ==
    /\ Takes("INIT_WINDOW")
    /\ window' = TRUE
    /\ IF g_Initialized THEN UNCHANGED <<pc, acquired, egl>>
       ELSE pc' = "connect" /\ acquired' = acquired + 1 /\ display' \in BOOLEAN /\ imgui_ctx' = TRUE
    /\ UNCHANGED <<activity, g_Initialized, gui_ctx, threads, quit, net>>

TermWindow ==
    /\ Takes("TERM_WINDOW")
    /\ Shutdown /\ window' = FALSE
    /\ UNCHANGED <<activity, pc, gui_ctx, threads, quit, net>>

\* Mutant: the loop is left only where there is something to shut down.
DestroyStays ==
    /\ Takes("DESTROY")
    /\ Shutdown
    /\ pc' = IF g_Initialized THEN "returned" ELSE pc
    /\ UNCHANGED <<activity, window, gui_ctx, threads, quit, net>>
\* destroyRequested: Shutdown is called only where it does nothing.
DestroyRequested ==
    /\ Takes("DESTROY")
    /\ IF g_Initialized THEN UNCHANGED <<g_Initialized, egl, acquired>> ELSE Shutdown
    /\ pc' = "returned"
    /\ UNCHANGED <<activity, window, gui_ctx, threads, quit, net>>

\* CheatNGGUI(): init_rpc and the Factory with its RPCClient, which connects, sends
\* the password and waits for the answer.
Connect ==
    /\ pc = "connect"
    /\ new' = IF up THEN "waiting" ELSE "broken"
    /\ pc' = "auth"
    /\ UNCHANGED <<activity, cmds, window, acquired, g_Initialized, egl, gui_ctx, threads, quit, mine, up, served>>

\* The new GUI replaces the old one, whose destructor closes its connection, and
\* ends the program if a thread is left in one of its tasks.
\* Mutant: the end of the connection is not noticed.
AuthWaits ==
    /\ pc = "auth" /\ new = "open"
    /\ IF gui_ctx /\ threads THEN pc' = "crashed" /\ UNCHANGED <<g_Initialized, gui_ctx, threads, mine, new, served>>
       ELSE /\ pc' = "poll" /\ g_Initialized' = TRUE /\ gui_ctx' = TRUE /\ threads' = FALSE
            /\ mine' = new /\ new' = "none" /\ served' = "mine"
    /\ UNCHANGED <<activity, cmds, window, acquired, egl, quit, up>>
Auth ==
    /\ pc = "auth" /\ new \in {"open", "broken"}
    /\ IF gui_ctx /\ threads
       THEN pc' = "crashed" /\ UNCHANGED <<g_Initialized, gui_ctx, threads, mine, new, served>>
       ELSE /\ pc' = "poll" /\ g_Initialized' = TRUE /\ gui_ctx' = TRUE /\ threads' = FALSE
            /\ mine' = new /\ new' = "none"
            /\ served' = IF served = "new" THEN "mine" ELSE "none"
    /\ UNCHANGED <<activity, cmds, window, acquired, egl, quit, up>>

\* No event is pending: a frame.  Without a display nothing is drawn.
\* Mutant: android_main returns at once when the user quits.
FrameQuits(stay) ==
    /\ IF stay THEN UNCHANGED <<pc, quit>> ELSE pc' = "returned" /\ quit' = TRUE
    /\ UNCHANGED <<g_Initialized, egl, acquired>>
FrameEnds(stay) ==
    IF stay THEN UNCHANGED <<pc, quit, g_Initialized, egl, acquired>>
    ELSE Shutdown /\ pc' = "returned" /\ quit' = TRUE

MainLoopStep ==
    /\ pc = "poll" /\ g_Initialized /\ cmds = <<>>
    /\ IF display /\ gui_ctx
       THEN (\E stay \in BOOLEAN : FrameEnds(stay)) /\ threads' \in BOOLEAN
       ELSE UNCHANGED <<pc, quit, g_Initialized, egl, acquired, threads>>
    /\ UNCHANGED <<activity, cmds, window, gui_ctx, net>>

-----------------------------------------------------------------------------
(* The server, as RpcSession has it: one connection at a time, the next one waits. *)

Accept ==
    /\ up /\ served = "none" /\ new = "waiting"
    /\ new' = "open" /\ served' = "new"
    /\ UNCHANGED <<activity, cmds, app, mine, up>>

Break(c) == IF c \in {"waiting", "open"} THEN "broken" ELSE c
Dies ==
    /\ up /\ up' = FALSE
    /\ mine' = Break(mine) /\ new' = Break(new) /\ served' = "none"
    /\ UNCHANGED <<activity, cmds, app>>
Restarts == ~up /\ up' = TRUE /\ UNCHANGED <<activity, cmds, app, mine, new, served>>

AppInit ==
    /\ ui = "runs" /\ surface = FALSE /\ cmds = <<>>
    /\ pc = "poll" /\ window = FALSE /\ acquired = 0 /\ g_Initialized = FALSE
    /\ display = FALSE /\ imgui_ctx = FALSE /\ gui_ctx = FALSE /\ threads = FALSE /\ quit = FALSE
    /\ mine = "none" /\ new = "none" /\ up \in BOOLEAN /\ served = "none"

Loop == InitWindow \/ TermWindow \/ DestroyRequested \/ Connect \/ Auth \/ MainLoopStep
Activity == SurfaceCreated \/ SurfaceDestroyed \/ Destroy \/ UiGoesOn \/ Recreate
AppNext == Loop \/ Activity \/ Accept \/ Dies \/ Restarts

AppSpec == AppInit /\ [][AppNext]_AppVars /\ WF_AppVars(Loop) /\ WF_AppVars(UiGoesOn) /\ WF_AppVars(Accept)

-----------------------------------------------------------------------------
AppTypeOK ==
    /\ ui \in {"runs", "given", "taken", "ended"} /\ surface \in BOOLEAN
    /\ cmds \in Seq({"INIT_WINDOW", "TERM_WINDOW", "DESTROY"}) /\ Len(cmds) <= 2
    /\ pc \in {"poll", "connect", "auth", "returned", "crashed"}
    /\ window \in BOOLEAN /\ acquired \in 0..1 /\ g_Initialized \in BOOLEAN
    /\ display \in BOOLEAN /\ imgui_ctx \in BOOLEAN /\ gui_ctx \in BOOLEAN
    /\ threads \in BOOLEAN /\ quit \in BOOLEAN
    /\ {mine, new} \subseteq {"none", "waiting", "open", "broken"}
    /\ up \in BOOLEAN /\ served \in {"none", "mine", "new"}

\* Between commands the application holds a window's reference and an ImGui context
\* exactly while it has a window, so a frame never uses those of an earlier one.
HoldsItsWindow ==
    pc = "poll" => /\ g_Initialized = window /\ imgui_ctx = window
                   /\ acquired = IF window THEN 1 ELSE 0
                   /\ display => window

\* "shutdown() should have been called already" (98): whichever way android_main
\* returns, nothing is left for it to free.
NothingLeft == pc = "returned" => ~g_Initialized /\ ~display /\ ~imgui_ctx /\ acquired = 0

\* The application waits for its own old GUI: the server serves the connection of
\* gui_ctx, which is closed only when the constructor that waits has returned.
WaitsForItself == pc = "auth" /\ new = "waiting" /\ gui_ctx /\ mine = "open" /\ served = "mine"

\* Every window the activity gives is set up for drawing in the end (the comment at
\* 88: the loop blocks "until g_Initialized == true"), unless the application waits
\* for itself, has died or the user quits: nothing else keeps its thread in Init.
WindowIsDrawn ==
    ui = "given" ~> g_Initialized \/ pc = "crashed" \/ WaitsForItself \/ quit

\* The activity's thread gets its answer, unless the application's waits for itself,
\* has died, or has returned because the user quit: then no one takes the command
\* that tells it of the next window.
ActivityAnswered ==
    ui # "runs" ~> Answered(ui) \/ WaitsForItself \/ pc = "crashed" \/ quit
=============================================================================
