# Verification of CheatNG

CheatNG inspects and edits the memory of another process.  A GUI (ImGui) runs on
one machine, a small server on the machine of the inspected process, and the GUI
works through proxies that call the server over one TCP connection.  This
directory holds TLA+ models of that program, the TLC configurations that check
them on small instances, and proofs, checked by TLAPS, of the main properties of
every model for every size.

Paths are relative to the repository (`src/lib/rpc.hpp` and so on).  Run from
this directory:

    tlc -workers 2 -config RpcSession.cfg MCRpcSession     # a run, see the table
    tlapm RpcSession_proofs.tla                            # the proofs of a module

A definition marked *Mutant* in a module is not part of the specification: it is
the definition that follows it with a plausible bug.  `PROJECT.json` names, for
every property of a passing run, a mutant under which TLC finds it violated.

## 1. Inventory

| Component | Code | State | Operations |
|---|---|---|---|
| RPC client | `RPCClient`, lib/rpc.hpp:277-382 | `tunnel` (null once lost), `authed`, `mutex` | constructor (connect, send auth, receive "ok"), `call` / `do_call` from any thread |
| RPC server | `RPCServer`, lib/rpc.hpp:384-488, server/server.cpp | `authed`, the RPC thread's place in its loop, the map of functions | receive auth, answer "ok", receive function id and parameters, run, answer |
| TCP tunnel | `BaseFdIO`, `TunnelTCP`, lib/rpc_tunnel.hpp | `fd` (shared by two threads on the server), `socketfd`, accept thread | `send`, `recv`, `close`, accept loop, destructor |
| Remote objects | `new_remote`, `get_remote`, `delete_remote`, lib/rpc.hpp:150-275, lib/rpc.cpp; the proxies of lib/remote.hpp | `available_remote_objects`; per proxy `obj` and `ok` | construct, method, `update`, destroy |
| Search window | `show_memory_search`, gui/gui_imgui.cpp:393-668; `MemSearch`, lib/mem_utils.hpp | vector of `SearchTask` (results, `is_searching`, thread), `mtx_add_result` | add, delete, start, continue, stop, clear, draw; the search threads |
| Process lifecycle | `show_process_list`, `open_process`, `update_process`, `tick_update_process`, gui/gui_imgui.cpp | `pid`, `proc`, `mem`, `mem_view`, `mem_regions`, windows, three static pids | choose, open, refresh, close, error popup |
| Search algorithm | `SearchMemory`, `Pattern`, lib/mem_utils.hpp | `search_in_addresses`, the callback's results, `stay_running` | `begin_search`, `continue_search` |
| View range and cache | `MemoryViewRange`, `MemoryViewCache`, lib/mem_utils.hpp | the bytes shown and their address; an entry for each result | `set`, `update`, `get` |
| Conversions | lib/base.cpp | - | numbers and byte patterns from and to text |
| Regions, flags | lib/mem.hpp | - | flag rules, region lookup |
| Linux implementation | lib/imp/linux | lists read from /proc | `update`, `regions`, `threads`, `children`, `is_valid`, read and write |
| Memory editor | `show_memory_editor`, gui/gui_imgui.cpp:170-390 | `view_addr`, `view_width`, `view_width_step`, `view_data_type`, `edit_addr` | width, type, address, click, Enter, Escape, draw |
| Android application | gui/main_android_imgui.cpp | `app->window`, `g_Initialized`, the EGL objects, the ImGui context, `gui_ctx` | `android_main`, `handleAppCmd`, `Init`, `MainLoopStep`, `Shutdown` |
| Desktop application, translations, fonts, build | gui/main_glfw_imgui.cpp, gui/i18n, CMake | - | platform set-up, constant tables |

**How they interact.**  The UI thread and every search thread call methods of
proxies; each is one or two `RPCClient::call`s, which take the client's mutex for
the two frames of the request and the one of the reply.  Frames are paired by
order only: nothing in a frame says which call it belongs to.  On the server the
accept thread writes `fd` when it is -1 and the RPC thread closes it; they share
it without a lock, and serve one client at a time while others wait in the listen
queue.  A proxy names its object by its address on the server's heap, and each call
writes that address into its request before it waits for the mutex.  The search
threads hold references into the GUI's vector of tasks and to its `mem`, which the UI
thread destroys without waiting for them.

**What is hard here.**  Two threads on each side of the connection, unlocked
tests of shared fields, two successive closes of a descriptor that another thread
may have replaced in between, calls that fail after they may have run, clients
and servers that die in the middle of an exchange, heap addresses used again,
a vector that moves under references into it, flags written by two threads, four
copies of a pid of which only one is reset, text that is parsed with another
width than it was printed with, sizes that wrap around, a /proc that changes
between two of its files, and a GUI that is made a second time while the first
one is still connected.  `PROJECT.json` lists the
hazards, each at its line, with the properties that would catch it.

**What makes each component correct.**

- *RPC session*: a call runs at most once and returns true only if it ran; a
  reply reaches the call it answers; a function runs on its own parameters; no
  accepted descriptor is lost; a dead client frees the server; no thread holds
  the mutex for ever; a handshake ends.
- *Tunnel*: `recv` returns the frames given to `send`, whole and in order, or
  closes; neither blocks when the other side has closed.
- *Remote objects*: no request reaches an object other than its proxy's own, but for
  reads of a memory destroyed meanwhile; nothing leaks while the session lasts.
- *Search*: a search nobody stopped is complete; a continued one reports only
  what the one before it left; the UI thread is never stuck; nothing a thread
  refers to goes away under it.
- *Process lifecycle*: what is shown and written is the process the panel names;
  one that is gone is closed and the user is told.
- *Conversions and search algorithm*: what is searched for is what was typed; what
  is found is every place where it is, and nothing else; what a cell shows is read
  back as itself.  The code gets some numbers and patterns wrong: the properties say
  exactly which.
- *Memory editor*: the width is the power of 2 the masks rely on; no cell or row is
  converted beyond the bytes it has; an edit that is lost is reported; addresses
  and bytes shown belong together.
- *Linux implementation*: what was there during the whole of a call is listed,
  and described as itself; no thread is taken for a process; every address of a
  mapping is found with the mapping's permissions.
- *Android application*: each set-up is taken down once; a window that is given is
  drawn in; the activity's thread gets its answers.

## 2. Modules

| Module | Models | Correspondence |
|---|---|---|
| `RemoteCalls` | what `RPCClient::call` promises | abstract: a call is refused, or begun, run at most once, and ended with true (only if it ran) or false |
| `RpcSession` | `RPCClient`, `RPCServer`, the accept loop, `main` of the server | `tunnel`, `cauthed`, `mutex` are the client's fields; `fd`, `authed` the server's; `cpc`, `tpc`, `spc` the places in the constructor, in `do_call` and in the RPC thread's loop; `sfd`, `backlog`, `broken`, `toS`, `toC` the kernel's connections |
| `FrameChannel` | what one direction of a tunnel promises | abstract: whole frames, in order, none after the receiver closed |
| `BaseFdIO` | `send`, `recv`, `close`, `ensure_little_endian` byte by byte | each `read()`/`write()` is an action that moves any number of bytes the kernel could move; `stream` is the kernel's buffer |
| `RemoteObjects` | the proxies, `new_remote`, `get_remote`, `delete_remote`, the methods | `objects` is `available_remote_objects`; `obj`, `ok` the proxies' fields, `life` whether they are constructed; `pc`, `call` where each thread is in `RPCClient::call` and the request it has serialised; one request in flight per client, as `RpcSession` shows |
| `SearchResults` | what a search task promises | abstract: begin, continue, found, clear, delete |
| `SearchTask` | `show_memory_search` and the search threads | `upc` is the place in the frame, `tpc` in a thread; `bound` says whether a thread's reference still points to its task |
| `GuiSession` | the frame of `show_main_panel`: list, open, windows, tick | the members and static variables under their own names |
| `Conversions` | lib/base.cpp | operators named as its functions; a text is its sign, its digits and whether it begins with "0x" |
| `MemSearch` | `Pattern`, `SearchMemory`, `RemoteMemory::read` and the read below it | a read and scan of a region, or of an address, is an action; `ram` is the process's memory, with holes |
| `MemoryEditor` | `show_memory_editor`, the rows of results, `MemoryViewRange`, `MemoryViewCache`, `RemoteMemory::read` and `write` | the editor's fields under their own names; bytes are where they were read and how many they are |
| `LinuxProc` | `update`, `threads`, `children`, `regions` of lib/imp/linux, the flags and `MemoryRegions::search` of lib/mem.hpp | an action for each directory entry, each file and each line of `maps`; `Kernel` and `Remap` are the machine |
| `AndroidApp` | main_android_imgui.cpp and what the activity's thread does to it | a command taken, the two waits inside `Init`, a frame; `cmds` is native_app_glue's pipe |
| `MCRpcSession`, `MCRemoteObjects`, `MCSearchTask`, `MCMemSearch`, `MCMemoryEditor`, `MCLinuxProc` | | constants and symmetries of the runs |
| `RpcSession_inv`, `*_proofs` | | inductive invariants and theorems, section 7; `Gui_proofs` is about `GuiSession` and `AndroidApp`, `MemSearch_proofs` also about `Conversions` |

**How they compose.**  `BaseFdIO` implements `FrameChannel`, which is what
`RpcSession` takes a connection for; `RpcSession` implements `RemoteCalls`, which
is what `RemoteObjects` takes a call for (at most once, perhaps after the
connection broke, perhaps without an answer); `GuiSession` sees of all of them
only that calls succeed or return false, and `SearchTask` that `mem` may go away.
`SearchTask` has the threads, the lock and the life of a search and takes each
result for one step; `MemSearch` has what those steps compute, and extends
`Conversions` for the text that is searched for.  `MemSearch` and `MemoryEditor`
see of a lost connection what `RemoteMemory` makes of it: old bytes with their old
size, a result that nobody wrote.  `AndroidApp` takes from `RpcSession` that one
connection is served and the next one waits (`OneConnection`, `SlotReleased`).
`LinuxProc` runs in the server's RPC thread: its `Throw` is one of the ends of the
server in `RpcSession`.

Where C++ leaves an outcome undefined, `RpcSession` ends the client
(`NullTunnel`), and the other models stop with the place or the reason (`fault`,
`upc = "fault"`, `pc = "fault"`, `pc = "crashed"`; the last also for an exception
that nothing catches).  Stopping is the strongest thing to say: after
undefined behaviour no property can be expected, and each such stop is either the
subject of a property or a run of its own or described in section 6.

## 3. Runs

| Configuration (module) | Shows | States |
|---|---|---|
| `RpcSession.cfg` (`MCRpcSession`) | `OneConnection`, `RepliesMatch`, `ParamsMatch`, `AuthNotRepeated`, and the refinement `CallsAtMostOnce`, for two clients of two threads | 225,612 |
| `RpcSession_live.cfg` (`MCRpcSession`) | `SlotReleased`, `MutexReleased`, `HandshakeAnswered`, for two clients of two threads | 99,072 |
| `BaseFdIO.cfg` | `FramesInOrder` (refinement of `FrameChannel`), `FramesDelivered`, `RecvEnds` | 19,126 |
| `RemoteObjects.cfg` (`MCRemoteObjects`) | `OwnObject`, `NoLeakInSession` | 566,446 |
| `SearchTask.cfg` (`MCSearchTask`) | `Complete`, and `ResultsInScope` (each task refines `SearchResults`) | 1,093,289 |
| `SearchTask_live.cfg` (`SearchTask`) | `FramesEnd` | 185,946 |
| `GuiSession.cfg` | `SameProcess`, `ObjectsTogether`, `GoneClosed` | 45,872 |
| `MemSearch.cfg` (`MCMemSearch`) | `TypeOK`, `PatternIsTyped`, `ShownReadBack`, `FindsTyped`, `KeepsMatching`, `OverreadOnlyShort` | 535,242 |
| `MemoryEditor.cfg` (`MCMemoryEditor`) | `TypeOK`, `WidthIsPower`, `CellsFit`, `EditReported`, `RowsFetchedWhole`, `LabelsSettle` | 1,126,062 |
| `LinuxProc.cfg` (`MCLinuxProc`) | `Ascending`, `SteadyListed`, `ListedWereProcesses`, `RegionsTrue`, `LettersThrow` | 3,392,720 |
| `AndroidApp.cfg` | `HoldsItsWindow`, `NothingLeft`, `WindowIsDrawn`, `ActivityAnswered` | 233 |
| `RpcSession_null.cfg` (`MCRpcSession`) | the counterexample to `NoNullTunnel`, section 5 | |

The types of every state machine are a theorem (section 7); the runs of seven of
them do not check them a second time.

**Bounds, and why they are enough.**

- `RpcSession`: two threads share a mutex, a tunnel and a connection, and two
  clients the server's slot: one is served while the other waits, arrives or has
  left something behind.  The proofs cover any number.  Three calls: two
  that the server knows, so that two can be mixed up, and one it does not
  (`Registered`).  `RestartMax = 1` is one server that ends and another that
  finds clients of the first still there.  `BacklogMax` stands for the length of
  the listen queue: 1 makes it fill with two clients.  The liveness run has no call
  the server does not know, and no restart.
- `BaseFdIO`: frames of 0 to 3 bytes around `Limit = 2` (16 GB in the code) give
  the empty frame, the largest and one that is too large; `HeaderSize = 2` (8)
  is the least that can be split; `StreamMax = 4` makes the kernel's buffer
  smaller than a header and a frame of 3 bytes together, so that writes are cut
  short, and holds two small frames, so that reads could run over a frame's end.
  Three frames: one whose failure another one follows, and one more.
- `RemoteObjects`: two addresses for three proxies, so that an address is used
  again while others are still named; two clients; one replaced server.  One client
  has a list (`update()` calls twice) and a memory that a search thread reads, which
  is enough for a read to arrive after the memory's `delete_remote`, and after the
  address was given to the other client's object.
- `SearchTask`: two tasks are what the vector needs to move (its capacity goes
  from 1 to 2) and what the lock has to be shared by; two addresses make a result
  that matches and one that does not, and a partial one; `SearchMax = 2` is a
  search and its continuation, or two searches at a time.  The liveness run
  has one address, which leaves every wait of the UI thread possible.
- `GuiSession`: two pids make one process opened over another; processes come
  and go without a bound.
- `MemSearch`: a byte has two values, "decimal" is base 2 and "hex" base 3, so that
  the two bases differ, a digit may belong to one only, and every value of every
  type is tried; types of 1, 2 and 4 bytes keep the code's distinctions (`int` as
  wide as u32, `long` as u64).  Six addresses hold an element of the widest type at
  two aligned places or a pattern across two regions; the holes make regions that
  can be read in part, from the middle on, or to the end; one region and two,
  aligned and not; a range that takes them in and one that cuts one off.
  One layout has a region of size 0, which the code skips.  `Space = 16` stands for
  2^64: `data.size() - pattern_size` wraps around it; no region does, by
  `MemSearchAssumption`, as none that the kernel lists reaches 2^64.
- `MemoryEditor`: ints of 4 bits make every number a user can type, the greatest
  power of 2 and the overflow of "+" and of the ceiling loop; types of one and two
  bytes and the type that asserts; three addresses, one of them a result and one
  the executable region.  Rows are independent, so one is enough.
- `LinuxProc`: three numbers with two lives each: a process with its thread, and a
  process that takes the number of another or of a thread between two files of its
  entry.  The layouts unmap, grow and split mappings, before, behind and under
  the line read last; `Top = 4` has room for two mappings and a gap.  Mappings are of no
  file, whose device is 00:00, or on fd:00 or 00:a1.
- `AndroidApp`: no constants; the pipe holds at most two commands, as the activity
  waits for an answer to each but the last.

The counters `restarts`, `searches` and the length of `sizes` only bound the
runs: they are tested by the actions that raise them and by nothing else
(`NoStart` lets the frame go on when no search is left).

`CHECK_DEADLOCK FALSE` stands where the program may really stop: all clients have
gone or a server is down for good (`RpcSession`, `RemoteObjects`), a tunnel is
closed at both ends (`BaseFdIO`), the program has exited or met undefined
behaviour (`SearchTask`, `MemoryEditor`, `AndroidApp`), the server has been ended by
an exception (`LinuxProc`), or the search and its continuation are over
(`MemSearch`).  `GuiSession.cfg` checks for deadlock: frames go on,
also after a fault, where the rest of the machine moves.

Symmetry is used for clients, threads and registered calls (`RpcSession`), for
addresses (`RemoteObjects`), for tasks and addresses (`SearchTask`), and only in
runs without liveness properties.

## 4. Fairness

- `RpcSession`: weak fairness of every step a client's constructor, a thread in
  `do_call`, the accept thread and the RPC thread can take.  They are ordinary
  threads of a preemptive scheduler that block only in `read`, `accept` or the
  mutex; the polling loops (100 ms) only delay.  A thread waiting for the mutex
  has weak fairness only: `std::mutex` does not promise a waiting thread its
  turn, and no property needs it.  Users connect, call and quit, and faults
  occur, or not.  A connection whose other end is gone is noticed in the
  end: the model lets a read fail as soon as the peer is gone and a write fail
  or be lost.  Without keep-alive, which the code does not set, a machine that
  vanishes silently would not be noticed; the hazard is listed, and no property
  claims otherwise.
- `RemoteObjects`: none, it has no liveness property; that the call of a destructor
  ends is `MutexReleased`.
- `BaseFdIO`: a thread inside `send` or `recv` goes on, and the receiver is
  always in a loop over `recv`.
- `SearchTask`: the UI thread inside a frame and the search threads run on.
- `GuiSession`: frames follow each other, and the half second between two
  updates of the regions passes.
- `MemoryEditor`: `Tick`, the refresh of the view every 50 ms of the frame loop.
- `AndroidApp`: `Loop`, as the application's thread runs on unless it waits for the
  server; `UiGoesOn`, as the activity's thread wakes up when its condition holds;
  `Accept`, as the server's accept thread does in `RpcSession`.  Nothing obliges
  the activity, the user, or the server to end or to start.
- `MemSearch`, `LinuxProc`: none, they have no liveness property.

## 5. Where the code does not do what it says

One run shows a counterexample; `PROJECT.json` quotes the line.

- **`NoNullTunnel`** (rpc.hpp:318-337).  `authed` is tested before the mutex is
  taken, and the tunnel another thread's failed call dropped is used after.  A
  client with one calling thread is safe (`NoNullTunnelAlone`, section 7); the GUI
  has its UI thread and its search threads.  proc.hpp:34 speaks of the proxies'
  connection status as a state: losing it is meant to be one, not the end of the
  program.

Everything else the code does unlike what a reader may expect contradicts no
statement of the repository; it is in section 6.

## 6. Behaviour that no property judges

The models also do what follows, as the code does.  No document, comment or test
of the repository promises clearly otherwise, so it is described here and not
stated as a property.

In `RpcSession`:

- `recv()` has already closed `fd` when it reports an error; the RPC thread closes
  "the client" once more (rpc.hpp:423, 457), and by then `fd` may be the next
  client's, which loses its connection.  `OneConnection` holds nevertheless, and so
  does every other property: to the next client it is a connection that was lost.
- When "ok" cannot be sent, `authed` stays set (431): the next client's auth string
  is read as a function id, and both sides wait for each other.
  `HandshakeAnswered` and `SlotReleased` are what holds of the handshake: if the
  server was waiting for an auth string when it accepted a client, that client's
  handshake ends; `AuthNotRepeated` is the converse mistake, which the code does
  not make.

In `SearchTask`, each with its `fault`:

- *"no task"*: deleting the only task (gui_imgui.cpp:444) leaves a reference to
  element 0 of an empty vector.
- *"rows"*: the thread of a continued search moves the results away and clears
  the task (545, 546) without the lock, while the window draws as many rows as it
  counted before (600).
- *"mem"*: the process is closed or replaced (699, 1033) while a search thread
  reads through `mem`, by reference (525, 548).
- *"dangling"*: `push_back` (421) and `erase` (440) move the tasks while a search
  thread holds `task` by reference (523, 530).
- *"unjoined"*: a task whose search has ended by itself still has its
  `std::thread`; deleting it (440), or ending the program, destroys a joinable
  thread, which calls `std::terminate`.
- *"clear"*: "Clear" (576) empties the results without the lock, maybe in the
  middle of the thread's `push_back`.

In `GuiSession`, `DrawFaults`: `opened_pid` (788) and the two static `last_pid`
(77, 752) keep the pid of a closed process.  Opening the list again sets `pid`
(886), and choosing the same process opens nothing (753, 83), so there is a pid
without objects, and the memory editor uses the view it does not have (215).
The popup of an error while opening (760, 783, 868) is drawn only by the list that
the choice has just closed.

In `BaseFdIO`: a header that `read()` or `write()` transfers in two parts closes
the connection (77, 106).  With `BigEndian = TRUE`, `EnsureLittleEndian` yields 0
for every size, since the code returns the value its loop has shifted away (27),
and `FramesInOrder` fails.  `send` accepts a frame that `recv` refuses (111).

In `RemoteObjects`:

- A search thread's read writes the object's address into its request and then waits
  for the mutex (rpc.hpp:372-381).  The UI thread replaces or resets `mem`
  (gui_imgui.cpp:699, gui_imgui.hpp:134-146) without joining the thread, so that the
  request may follow `delete_remote`.  The method does not look the address up
  (rpc.hpp:265): it runs on a deleted object, or on whatever was allocated there
  since, for one the memory of the process opened next, or another client's object.
  `OwnObject` names these requests (`Stale`) and says that there are no others.
- The objects of a client that goes away, or whose call failed just after
  `new_remote` ran, stay on the server (rpc.hpp:423): `NoLeakInSession` speaks of
  connected clients only.

Also in `SearchTask`: `search_err` is assigned and printed by several threads
without a lock, and `is_searching` is a plain `bool`.  The model takes a write of
the latter to be seen at the thread's next test, and leaves the former out with
all texts.

In `Conversions` and `MemSearch`:

- An s64 is parsed with "%d" (base.cpp:26): its upper four bytes stay 0, so that
  something else is searched for in place of one below 0 or from 2^32; a u64 in
  decimal stops at the greatest `long`.
- A negative number in hex is "-0x..", does not begin with "0x", and is searched
  for in decimal, as 0.
- The last token of a byte pattern is dropped unless a space follows it (146).
- `PatternIsTyped` and `ShownReadBack` are exact about these three: they name the
  texts that are searched, and the numbers that are read back, as something else
  (`Plain`, `Parsed`), and say that all others are taken for what they are.
  base.hpp:28 exempts only the special types from going to text and back, and
  base.hpp:30 says that spaces separate the bytes of a pattern.  `FindsTyped` is about the texts in `Plain`.
- `data.size() - pattern_size` (mem_utils.hpp:173) wraps around when a region gives
  fewer bytes than the pattern has, and the scan leaves the data:
  `OverreadOnlyShort` says that nothing else makes it do so.
- A region partly outside the range is skipped whole, and a value that spans two
  regions is not found; `FindsTyped` is about the regions in the range.
- Continuing with a text that gives no pattern loses all results: they are moved
  away (gui_imgui.cpp:545) before the text is looked at (mem_utils.hpp:192).
- `decode_aob_pattern` is called by nothing.

In `MemoryEditor`, each with its `fault`:

- *"assert"*: `raw_to_str_expr` asserts for "C String" (base.cpp:249), which the
  editor's selection offers.
- *"cell"*: a cell of a type of several bytes is converted when only its first
  byte is known to be there (gui_imgui.cpp:249); `CellsFit` says when.
- *"row"*, *"compare"*: a row is converted in the frame in which it is given a wider
  type (620, 624), and compared with bytes that could not be read (652);
  `RowsFetchedWhole` says that nothing else leads there.
- *"loop"*, *"overflow"*: the loop to the next power of 2 (187) never ends for
  numbers above 2^30, and `width * height` overflows an int.
- A row shown in hex is read in decimal when it is confirmed (648), so
  `ShownReadBack` speaks of rows in decimal only.
- `view_width_step` and `edit_addr` are static and survive a change of the process.
- A write may end in the middle of the value, where the memory does
  (mem_usermode_proc.cpp:33).  Its result is then compared with the size that was
  given (276, 653), and the user is told: `EditReported`.
- `RemoteMemory::write` returns a value nobody wrote when its call failed
  (remote.hpp:209).  Such an edit may be lost in silence, or reported although it was
  made; `EditReported` speaks of the time before.
- `RemoteMemory::read` then returns the size of the bytes it was given
  (remote.hpp:206), which are shown at the new address: `LabelsSettle` excludes it.

In `LinuxProc`:

- `directory_iterator` throws when the process ends while its folder is read
  (proc_usermode_proc.cpp:110), nothing in the RPC thread catches it, and the
  server ends (`pc = "crashed"`).
- `linux_maps_line` reads the device numbers of a mapping, which are hexadecimal, with
  `std::stoul` in base 10 (mem_usermode_proc.cpp:60-63).  For a file on a device such
  as fd:00 (a volume of the device mapper) it throws, nothing catches it in the RPC
  thread, and the server ends: `LettersThrow`.  `RegionsTrue` is about the calls that
  return.
- `children()` keeps what has the target's thread group, the process's own threads,
  and leaves the process out; the GUI shows them as its children
  (gui_imgui.cpp:851-861).  No property judges its list.
- The status, name and command line of an entry are read one after the other: when
  the number is used again in between, an entry mixes two tasks.  `SteadyListed`
  and `ListedWereProcesses` say what holds then.

In `AndroidApp`:

- *Waiting for itself* (`WaitsForItself`): a second window makes a second
  `CheatNGGUI`, whose constructor waits for a server that still serves the first
  one's connection; the first one is destroyed only after it.  The application and
  the activity's thread then hang until the server ends.
- A user who quits leaves the activity's thread waiting for an answer to its next
  command.
- Replacing a GUI that has an unjoined search thread ends the program
  (`pc = "crashed"`).
- `if (!g_Initialized)` before `Shutdown` (100) is the wrong way round, and harmless:
  `NothingLeft` holds because the window is taken away first.
- A failure of EGL is logged only: the application goes on without drawing.

## 7. Proofs

Eight modules hold theorems about all nine specifications (`RpcSession` to
`AndroidApp` of section 2), each of the whole `Spec` and for every value of the
constants that the named assumptions allow (sets may be infinite).  Every safety
property of the passing runs is the subject of one, refinements included.

| Module | Theorems | Assumptions |
|---|---|---|
| `RpcSession_proofs` | `TypeCorrect`, `OneConnectionAlways`, `RepliesMatchAlways`, `ParamsMatchAlways`, `AuthNotRepeatedAlways`, `NoNullTunnelAlone`, and `Refinement`: the session implements `RemoteCalls` (`CallsAtMostOnce`) | `RpcAssumption`: `None` is no client, thread or call, `Registered` is a set of calls, `BacklogMax` is positive, `RestartMax` a natural number; for `NoNullTunnelAlone` also that there is at most one thread |
| `BaseFdIO_proofs` | `TypeCorrect`, and `Refinement`: the bytes implement `FrameChannel` (`FramesInOrder`) | `FdAssumption`: a header holds every size, the buffer a header; and `BigEndian = FALSE` as a hypothesis of each theorem |
| `RemoteObjects_proofs` | `Invariance`, `TypeCorrect`, `OwnObjectAlways`, `NoLeak` | `ObjectsAssumption`, `NoneAssumption`: `None` is no request or answer |
| `SearchTask_proofs` | `TypeCorrect`, `CompleteAlways`, and `Refinement`: each task implements `SearchResults` (`ResultsInScope`) | `TaskAssumption`: `None` and "ui" are no tasks, addresses are finitely many |
| `Gui_proofs` | `TypeCorrect`, `SameProcessAlways`, `ObjectsTogetherAlways` of `GuiSession`; `AppTypeCorrect`, `HoldsItsWindowAlways`, `NothingLeftAlways` of `AndroidApp` | `PidAssumption`: `None` is no pid |
| `LinuxProc_proofs` | `TypeCorrect`, `AscendingAlways`, `SteadyListedAlways`, `ListedWereProcessesAlways`, `RegionsTrueAlways`, `LettersThrowAlways` | `ProcAssumption`: numbers are positive, the mappings of a layout are apart |
| `MemoryEditor_proofs` | `TypeCorrect`, `WidthIsPowerAlways`, `CellsFitAlways`, `EditReportedAlways`, `RowsFetchedWholeAlways` | `EditorAssumption`: the values of an int are twice a power of 2, the first width and the size of every type are powers of 2, a first view's size is an int |
| `MemSearch_proofs` | `TypeCorrect`, `PatternIsTypedAlways`, `ShownReadBackAlways`, `FindsTypedAlways`, `KeepsMatchingAlways`, `OverreadOnlyShortAlways` | `ConversionsAssumption`: a byte has at least two values, decimal two digits and hex more, no type is larger than a long and only u64 and s64 are as large, the tokens of a pattern that are no bytes are no numbers; `MemSearchAssumption`: memories have one set of addresses, regions are ascending, apart and below `Space`, a typed number is one its type holds |

In each the invariant `IInv` is a conjunction of named parts, TLC checked it
before it was proved, a lemma per action says that the step keeps it, and the
property theorems follow from `IInv`.  Most properties are not inductive; why the
parts are needed:

**`RpcSession`.**  None of the properties is inductive.  `RepliesMatch` says that
a frame in `toC[c]` answers the call that waits for it; to see that no step
breaks this one must know what the server will send, hence what it read, hence
what is still in `toS[c]` and where both threads are.  `IInv`
(`RpcSession_inv`) says so part by part:

- `LockInv`, `ThreadInv`: the mutex is held by exactly the thread between lock
  and return, and each thread in `do_call` has a call of its own.  Without them
  two threads' frames could be mixed.
- `TunnelInv`, `QueueInv`, `ServerInv`, `ClosedInv`, `OneConnection`: the life of
  a connection, from the queue through `fd` to its end, as both sides and the
  kernel see it.
- `RequestInv`: what may be in `toS[c]` at each place of the RPC thread, whatever
  client it came from.  It carries `ParamsMatch`, and covers the client that was
  accepted while `authed` was still set.
- `HandshakeInv`, `CallInv`: for a client in its constructor and for one past it,
  the joint state of `toS[c]`, `toC[c]` and the RPC thread at each place of the
  client's thread.  They say that a session is in step: this is where order
  alone is shown to pair requests and replies.
- `HistoryInv`: a call the server may still run (`Asked`) has not run, and only
  one client's request names it; a reply exists only for a call that ran.  This
  is what the refinement needs: `SrvExec` never repeats a call, and `CallRecv`
  never reports one that did not run.

`TypeOK` has a lemma for each group of actions; the other parts together are
called `Linked`, and each action has a lemma of its own, `<Action>Linked`, with
one step per part that the action can disturb.  `InductiveIInv` puts them
together, and the property theorems follow from `IInv`.  `Refinement` maps each action to a
step of `RemoteCalls` or a stutter: the mapping is the identity on `outcome` and
`executed`, `CallAdmitted` is the beginning of a call, `SrvExec` its execution,
`CallRecv` and `CallIoFails` its end.
`NoNullTunnelAlone` adds `Admitted`: a thread past the test of `authed` has a
tunnel until it sends, if no other thread can drop it.

**`BaseFdIO`.**  That frames come out whole and in order depends on every byte
between the two programs.  `Chain` says that the bytes in the kernel are a stretch
of those that `send` writes, without a gap; `Ends` that the first is the one `recv`
wants next (`Wanted`) and, while that end can be used, the last is the one before
`send`'s next (`ToWrite`).  `Sender` and `Receiver` tie `left`, `want` and `data`
to the frame in hand.  On big-endian machines `recv` takes every size for 0 and the
theorem is false, hence the hypothesis.

**`RemoteObjects`.**  The one request that a client has sent is the call of the
thread that holds its mutex (`Holder`), and it is in one place: on the wire, taken, or
answered (`OnWire`, `Taken`, `Replied`).  `Calls` says what each thread may be calling:
the UI thread one thing, at the stage of the proxy's life it is for, and a search
thread a method of a memory that may be at any later stage.  So what a proxy that is
not being destroyed knows of its object is true while the connection lasts, and a
request that was serialised before and waits for the mutex still reaches it, unless
it became `Stale` (`Kept`, `Reaches`).  Once stale a request stays so, and on one
server only `delete_remote` of the proxy itself makes one that reached its object
stop doing so.  `Shape` and `Session` exclude requests of clients that have not connected and of
constructors that failed.

**`SearchTask`.**  `Flagged`: a running thread finds `is_searching` set unless the UI
thread waits in `join` for it, and then its search was cut.  `Found`: what a thread
has found is at any time what matches among the addresses it has looked at.
`Vector` and `Threads` say that a thread's task is in the vector and who may hold
the lock.

**`GuiSession`.**  Within a frame the objects may be those of the process before.
`Same` has what holds then: where `tick_update_process` will not read them again,
because its `last_pid` is the pid, they are already that pid's.

**`AndroidApp`.**  Why DESTROY finds nothing to take down, and INIT_WINDOW nothing
set up, lies in what the activity's thread waits for (`Waiting`); `Holds` has what
the application holds at each place of its thread.

**`LinuxProc`.**  `Machine` records that a process's last life began as one;
`Described`, `Processes`, `Steadies` that each task seen so far and still there is
listed in full, or is the one whose files are being read (`Pending`); `Covered`
that the regions are apart and hold every address below the end of the last one of
the mappings that stayed, each of which was read without an exception: from this
follows `LettersThrow`.

**`MemoryEditor`.**  As long as no row has met the end of its bytes, every valid
entry of the cache has as many as its type (`RowsInv`).  `WidthInv` says that the
step is a power of 2 as well as the width, without which "+" and "-" would lose
it; for the ceiling loop (187), that an int holds a power of 2 at or above any number
that is not "loop" follows by induction on the powers.  A width and
the size of a type are both powers, so that one divides the other: the last
cell of a row then ends with the row, which is `CellsFit`.

**`MemSearch`.**  The conversions are recursive functions: powers, the digits of a
number, the bytes of a number, and what strtol makes of digits.  The proofs get
their equations, and induction, from the well-foundedness of the order of the
numbers (`Least`, `Induction`, `Recursion`), since the library's own induction
theorems take an operator.  `DigitsFacts` and `MagnitudeFacts` then say that the
digits of a number, read in the same base, are that number, `UnsignedBytes` and
`ValueOfBytes` that its bytes are, and `ReadBack` that printing and parsing give
the bytes back.  `ReadOther` is the converse: the numbers outside `Parsed` are read as
other bytes, since the upper ones stay 0 or the greatest `long` is stored.  From the
two follow `PatternIsTyped` and `ShownReadBack`.

The two loops need more than their properties say: `FoundInv`, that what was found
in the first regions are places in *those* regions, in order (`Sound`), and all
of them (`Complete`).  As the regions are apart, what the next one adds comes after
all that was found, so that nothing is reported twice.  `KeptInv` says the
same of the addresses visited.  That the scan sees every aligned place and only
those is arithmetic modulo the alignment (`OffsetFacts`, `ScanFacts`).  `Stages`
ties what is left to visit to the regions or addresses the loop began with.

**Only model-checked**: the liveness properties (`SlotReleased`, `MutexReleased`,
`HandshakeAnswered`, `FramesDelivered`, `RecvEnds`, `FramesEnd`, `GoneClosed`,
`LabelsSettle`, `WindowIsDrawn`, `ActivityAnswered`), as the prover has neither
fairness nor `ENABLED`.

## 8. What is not modelled, and why

- *Data*: serialised arguments and results, names, texts, layout, the log.  The
  properties above do not depend on them.
- *Authentication*: the server compares `cfg.auth` with itself, so every string
  is accepted; the model accepts every first frame.
- *The address shown* (gui_imgui.cpp:712): `view_addr` keeps its value when another
  process is opened over the first one.
- *RPC thread's reference to `cfg`* (rpc.hpp:408): it outlives the constructor's
  parameter.  Whatever is read there is compared with itself.
- *`~TunnelTCP` and `~RPCServer`* (rpc_tunnel.hpp:199-211), whose accept thread
  `close()` does not wake: `main` of the server ends only by being ended, and
  nothing else destroys a serving tunnel.
- *Floating types*: they take the integers' path with another format (base.cpp:19,
  26); whether their texts come back is a question about the C library.
- *A peer that vanishes in silence*: without keep-alive nothing in the program would
  notice, see section 4.
- *The local factory*, without a server: the same interfaces called directly.
- *The list of processes' filter and layout, the regions window, text input, the
  log of results*: drawing; what they change of the editor's state is in
  `MemoryEditor.MoveView`.
- *The desktop application*: one sequence without branches but the loop of frames,
  by one thread; its frames are those of `GuiSession`, its end is
  `SearchTask.Exit`.
- *Fonts, translations, build files, third-party code*: no state of their own, or
  not this project's.

## 9. Plan

Done: the RPC session, the byte stream below it and the remote objects above it;
the search window and what it computes; the process lifecycle, the editor and the
rows; conversions; the lists read from /proc; the Android application; and the
proofs of section 7.

Every safety property of the passing runs is proved.  What is left, most useful first:

1. `TunnelServer`: the destructors against the accept thread ("closing socket will
   unblock accept", rpc_tunnel.hpp:199), once a program destroys a serving tunnel.
2. `Conversions`: the floating types, should their texts be modelled.
