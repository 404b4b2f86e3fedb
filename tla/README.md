# A verification of voice-terminal (FarShell)

voice-terminal shows tmux sessions in web pages, and lets its user talk to the
coding agents that run in them: prompts are queued and typed into a pane when an
agent stops, the server follows what every agent does, and the output of a
terminal is sent to any number of browsers. This directory holds TLA+ models of
the parts of it in which several actors meet, the TLC runs that check them on
small instances, and proofs that TLAPS checks for instances of every size.

Paths below are relative to `src/`.

## 1. The system

### Parts, and how they meet

| Part | State | Operations | Meets |
|---|---|---|---|
| Prompt queue store, `server/queue_store.py` | `~/.vt/queue.json`, `queue.lock`, `queue.json.tmp` | list, add, remove, clear, pop_next, mark_blocked, unblock | threads of the server and processes `fsh queue ...`, through the files only |
| Queue runner, `server/queue_runner.py` | `_pending_task`, `_drain_lock` (memory of one process) | schedule_drain, drain_after_grace, drain_now, drain_once | the store; the status table (gate 5); `tmux send-keys` |
| Agent status, `server/agent_status.py`, `routes/agents.py` | `_state`: session id to status, tmux session, time | on_event (hooks), report, on_waiting, sweep, status_for_session | hooks post events; done schedules a drain; pages read it |
| Prompt detection, `server/agent_prompt_detect.py`, `server/deps.py` | per terminal: last chunks, `_waiting`, `_changed_at` | feed, on_user_input, remove | fed by the terminal's viewers; changes the status table |
| Terminal output, `server/pty_manager.py` | per session: descriptor, `_out_buf`, scrollback, subscribers, pause requesters | _on_readable, _flush_session, pause_read, resume_read, subscribe, destroy_session | event loop; the viewers' callbacks |
| Terminal WebSocket, `server/routes/pty.py`, `frontend/js/term/ws.js` | per viewer: send queue, `pty_paused`, worker, heartbeat; connection counts | handshake, replay, _on_data, _send_worker, render_pause, clean-up | PTY manager; browser |
| Session registry, `session_store.py`, `routes/tmux.py` | session information, reverse index, attach locks | attach, list (reaps dead sessions), rename, delete | PTY manager, tmux |
| Preview, `preview.py` | subscribers, last hash per session | subscribe, watcher loop | tmux, pages |
| Authentication, `auth.py` | devices, tickets, one-time-password counter (files), failure counts | see file | server and command line |
| Workspace, `workspace.py`, `routes/system.py` | one JSON file, connected pages | load, save, broadcast | pages |
| Output watcher, push, notify | per session buffer, timers | feed, monitor loop, callbacks | viewers' callbacks, external services |
| Voice, tunnels, files, ports, usage, clipboard, hooks, TUI, `bin/fsh` | mostly external processes | requests | the queue, the operating system |
| Page: connections, `term/ws.js`, `conn-overlay.js` | per session: socket, retry counter, timers; one overlay | connect, retry, stop, reconnect | Terminal WebSocket |
| Page: terminal size and replay, `term/resize.js`, `e2e.js` | last size fitted and told, replay flag | fit, tell, reset on open | Terminal WebSocket, fonts, layout |
| Page: tabs and boot, `term/session.js`, `boot.js`, `workspace.js`, `tmux-panel.js` | tabs in order, session records, list in localStorage | boot, restore, reconcile, open, close, move | Session registry, Workspace |
| Page: panes, `layout/tree.js`, `store.js`, `panes.js`, `dnd.js`, `compact.js`, `pane-picker.js` | tree of panes, active pane, active session | split, close, show, drop, step, pick, draw | tabs, terminals |
| Page: layout saving, `layout/persist.js` | two copies with their times, a save timer | save, restore | panes, Workspace |
| Page: rail, `layout/rail.js`, `clients.js` | open panel, its list, a block that polls | open, close, redraw | tabs, agent status |
| Page: settings, `core/settings.js`, `panels/settings.js`, `term/mouse-mode.js` | values, copy in localStorage, what each terminal runs under | load, set, push | Workspace, terminals |
| Page: shortcuts, `core/keymap.js` | overrides, a recording | match, rebind, reset | settings |
| Page: code viewer, `panels/viewer` | rows of the tree, the pane's view, the log | open, navigate, stage, commit, page | `routes/files.py`, git |
| Page: agent status, `agent/*.js`, `ui/favicon.js` | status per tmux session, dots, icon, a retry counter | message, paint, reconnect | Agent status, tabs, panes |
| Page: palette, `quickopen.js`, `panels/panel.js` | field, rows, answers awaited | type, pick, close | ports, tabs |

Paths of the page are relative to `frontend/js/`.

### What is hard in it

* The queue file is shared by threads and processes, any of which can die.
* A drain holds an item outside the file while it checks, asks and sends; users,
  other drains, an exception or a restart come in between.
* The lock that orders drains belongs to one process; a command-line run has none.
* The status of an agent is inferred: hooks come late or never, detections are
  wrong, entries expire, several agents share one session.
* The gate reads the status of one session, the prompt may go to another pane.
* The reader of a terminal is shared by its viewers, each of which may stop it
  and leave in any state; a viewer joins while output goes on.
* The page is single-threaded but never waits: whatever it asks the server, its
  user, its timers, its sockets and other devices go on, and the answer changes a
  page that is not the one that asked. The same tab is known by a web id that
  dies with the server and a tmux name that does not.

### What makes it correct

* Store: every operation takes effect at one moment, whatever fails
  (`Linearizable`), the lock excludes (`LockExcludes`) and is released
  (`LockReleased`), nothing is written over unseen (`ReadIsCurrent`).
* Runner: no prompt is dropped or doubled (`Accounted`), one server keeps the
  order (`ServerInOrder`), blocked prompts wait for the user (`BlockedStays`),
  refused ones are never sent (`NoDangerousSent`, which the run has as a part of
  `LivesAsPromised`), the limit is exceeded by no
  more than what is in flight (`Capacity`), drains end (`DrainsEnd`); and all of
  it together is a life a user may count on (`LivesAsPromised`).
* Status and gate: a detection closes and opens the gate
  (`DetectionReachesGate`), only work becomes waiting (`OnlyWorkWaits`), waiting
  ends (`WaitingEnds`), the gate covers what it was asked about
  (`GateCoversTarget`).
* Terminal: pauses and places belong to viewers that are there
  (`PausesAreOwned`), output is in order (`InOrder`), the replay's end mark
  survives (`EndMarkKept`) and the replay ends (`ReplayEnds`).
* Page: a lost connection comes back (`LostReconnects`) without a storm
  (`BackoffKept`); the replay flag and the PTY's size are those of the current
  connection (`ReplayFlagHonest`, `SizeToldSameFont`); a session is in one pane
  (`ShownOnce`), the screen is the tree (`ScreenFollowsTree`), panes nobody
  touched stay (`PanesKeepPlace`); a tab knows its tmux session
  (`TabKnowsTmux`), booting passes over none of them unless a request fails
  (`BootShowsAllTmux`), and a saved layout finds its sessions (`LayoutRestored`); polls stop (`OnePoller`); what is
  drawn after an answer is what it should be about (`RailListCurrent`,
  `TreeNested`, `LogNoGap`, `DotsCurrent`, `ResultsMatchInput`); settings are
  followed and shadowed shortcuts warned of (`SettingsHonest`).

## 2. The modules

| Module | Models | Role |
|---|---|---|
| `QueueOps` | the next list, for every function of `queue_store.py` | pure operators |
| `QueueService` | what the store promises: an atomic list | abstract specification |
| `QueueStore` | the store step by step: flock, read, temporary file, replace | implements `QueueService` |
| `PromptLife` | what the queue promises of every prompt: the steps of its life | abstract specification |
| `PromptQueue` | users and drains over atomic queue operations | composes `QueueOps` with the runner; implements `PromptLife` |
| `AgentStatus` | the status table as functions from table to table | pure operators |
| `WaitingGate` | the table, hooks, expiry, detector, bridge and the drain's gate | composes `AgentStatus`, detector and runner |
| `PtyOutput` | one PTY session and its viewers | manager and WebSocket together |
| `TerminalSockets` | chains of connections, overlay, tabs coming and going | page |
| `TerminalScreen` | one terminal, up to two connections, the PTY's size | page |
| `PageLayout` | the tree of panes and everything that changes what it shows | page |
| `PageSessions` | tabs and booting, with the server's web and tmux sessions | page and a bit of server |
| `LayoutPersist` | the two copies of the layout | page, server, other devices |
| `RailPanel` | the panel, its drawings and polls | page |
| `PageSettings`, `PageKeymap` | settings and the terminals under them; shortcuts | page, server, other devices |
| `ViewerTree`, `ViewerPane` | the code viewer's tree; its pane, git and log | page, server, agent |
| `AgentPage`, `AgentLink` | statuses and what is painted of them; their socket | page |
| `QuickOpen` | the palette | page |
| `MCPage` | the page's parts side by side | for TLC, and the specification the page's theorems are about |
| `QueueOps_proofs`, `QueueStore_proofs`, `PromptQueue_proofs`, `PtyOutput_proofs`, `WaitingGate_proofs` | theorems about the module of that name | section 4 |
| `PageTerminals_proofs` | theorems about `TerminalSockets`, `TerminalScreen`, `PageSessions`, `LayoutPersist` | section 4 |
| `PageViews_proofs` | theorems about `PageLayout`, `AgentPage`, `ViewerTree`, `ViewerPane` | section 4 |
| `PageControls_proofs` | theorems about `QuickOpen`, `PageSettings`, `PageKeymap`, `RailPanel`, `AgentLink`, and the types of the whole page; uses the two others | section 4 |
| `MC...` | values of the constants for TLC | |

`QueueStore` shows that queue operations may be taken as atomic;
`PromptQueue` takes them so. `PromptQueue` lets a send be refused for whatever
reason; `WaitingGate` is about one of those reasons. `PROJECT.json` maps each
definition to the lines it models.

Operators named `X_Something` are *slips* of `X`: what a plausible mistake in
that line of code would make of it. No specification uses them. Every property
of a passing run has one slip that violates it when it takes the place of `X`,
which shows that the property depends on that line of the code.

### QueueStore and the code

`pc[c]` is where a client is inside `with _locked():`. `Enter` is the call,
`Lock` the `flock`, `Read` is `_read_unlocked` with the decision that follows it
(the body of the `with` block up to `_write_unlocked`), `OpenTmp`, `Dump` and
`Replace` are the three calls of `_write_unlocked`, `Unlock` the `finally`
clause. `WriteFails` is an `OSError` in any of the three, `Crash` the death of
the client at any point: the kernel closes its descriptors and with them frees
the flock. `carried` is the item a drain popped, so that `mark_blocked` puts
back what was popped. A text and its creation time are not kept; an item is its
identity, target and status. Identities are numbers in the order of submission,
so that properties can speak of that order; the code draws random ones, which
only have to be different. A list that is not JSON reads as empty; `tmp` is
`Torn` between open and dump, and `Linearizable` shows that no torn text is
ever moved over the file. `ReadFails` (reading fails with `OSError` and counts
as an empty list) is outside `Spec` and part of `SpecMisread` only.

### PromptQueue and the code

`Scheduled` is `_pending_task`; `Manual` are requests to `/api/queue/run`; `Cli` are
`fsh queue run` processes. `lockQ` is `_drain_lock` with its waiters, first
come, first served, as `asyncio.Lock` is. `PopNext` is `pop_next` with the check
of the text, whose verdict cannot change in between. `SendOk`, `SendLate` and
`NotSent` are the outcomes of gate, pane and `send_to_tmux`; `SendLate` is the
case in which `subprocess.run` times out though the keys went in.
`DrainRaises` is an exception between pop and settlement. `sent`, `deleted`,
`lost`, `everBlocked` and `unsure` are history and occur in no guard but for the
bounds.

`PromptLife` knows nothing of lists, drains and locks. A prompt is in one of
seven places, and its steps are those the user is told of: submitted, taken by a
drain, delivered or put back as blocked, unblocked, deleted, and lost with the
process that held it. `Places` and `Log` say where `PromptQueue` has it: the
status of its item while it is in the list, else whether a drain holds it, else
how it ended. Of the guards in the code the abstract ones keep what a user
would notice: only what is pending is taken, so a blocked prompt waits for its
user; a deleted one is not typed; a failure loses one prompt at a time, though a
restart ends all drains of the server at once; what is refused is not typed; and
a prompt may be typed without leaving its drain's hands, when tmux answers too
late, which is the only way it can be typed twice.

### WaitingGate and the code

Time is one bit per entry: older than the time to live of its status, or not;
`TtlPasses` sets it and every `_set_status` clears it. Output is the kinds of
text the patterns distinguish; which old chunks are still in the window is
chosen freely, a superset of what `maxlen` and the byte limit allow. A drain is
`job`: due or asked for, then past the gate. `warned` records whether the pane's
session was waiting in the table when the gate was passed.

### PtyOutput and the code

An action is what the event loop runs between two awaits. `OnReadable` is one
`os.read`; the batch is flushed with it or by the timer. A viewer is out,
joining (accepted, counted, in the handshake), marking (its `await` for room for
the end mark) or open (subscribed). `OnData` is the callback `_on_data`,
`SendWorker` one round of `_send_worker`, `CleanUp` the `finally` clause.
`requesters` and `reader` are `_pause_requesters` and `_reader_registered`. When
several viewers' callbacks pause and resume in the same broadcast, Python's set
order decides who comes first; `PauseOrResume` gives the result, which does not
depend on it.

### The page's modules and the code

In all of them an action is what runs between two awaits: an event handler up to
its first `await`, or what follows an answer. A request that was sent is a
member of some set (`awaited`, `arriving`, `navs`, `asked`), and its answer an
action that is enabled as long as the member is there, so answers come in any
order and late. Frames and timers (`requestAnimationFrame`, `setTimeout`) are
pending flags.

* `TerminalSockets`: `rec` is the record of `core/store.js`, `chain` the closure
  of `startSessionSocket` (`_retries`, `_stableTimer`, pending calls), `sock` the
  browser's sockets, several of which one session may have. `OpenSocket` and
  `CloseSocket` are `onopen` and `onclose` with the overlay's update,
  `StopRetries` and `ReconnectNow` the button, `GraceEnds` the overlay's timer.
* `TerminalScreen`: sizes are columns, a box's width divided by a cell's. `fitted`
  and `told` are `_lastFitW` and `_lastCols`; `due` is a pending call.
  `FitAndResize` is `fitAndResize` with all of its early returns.
* `PageLayout`: `tree` is a function on paths, so that promoting a sibling is a
  renaming of paths. `SetSession`, `SplitPane`, `ClosePane` are `tree.js`; the
  actions are their callers in tabs, drops, the picker, the compact view, each
  with the drawing that the store's notification causes. `RemoveSession` and
  `RemoveAnswered` are the two halves of closing a tab.
* `PageSessions`: `boot` is where `bootApp` is, each loop's round an action
  (`RestoreTmux`, `FillTmux`, `AttachNext`), since each awaits. `web` and `alive`
  are the server's; an attach answers with the web session there is or makes one.
  A request is answered, refused or rejected. Refused, the loop goes on with the
  next session (`AttachRefused`); rejected, it is over: `workspace.js:166` keeps
  silent, `boot.js:178` creates a new session instead (`AttachRejected`,
  `ListRejected`, `CreateSession`), and the server may have attached all the
  same (`MayAttach`). `owed` holds the sessions booting still has to show or has
  shown; a failed request takes out of it those it costs.
* `LayoutPersist`: `Serialize`, `Resolve`, `Spare`, `Fill` are the functions of
  `persist.js`; `Resolve` tries the saved id, then the tmux name. Several
  devices write `remote`.
* `RailPanel`: a drawing is a record in `lists`; the code's is the closure of
  `renderSessionPanel` with the list element it made.
* `PageSettings`: one setting that is applied when a terminal is made and one
  that is applied on change stand for all. `PageKeymap`: a combination is a model
  value and comes in two spellings, those of `ACTIONS` and of `comboFromEvent`.
* `ViewerTree`: rows carry how many answers they wait for, as a folder may be
  opened again before the first, and an answer whether the tree it was asked
  for is still the one on the screen (`here`). `ViewerPane`: a view is its kind; commits are
  numbers, so that a gap can be seen.
* `AgentPage`: `dots` is what is drawn, `status` what is known; `PaintAll` clears
  `pendingPaint`; a session that is idle may have an entry or none, and a change
  of that alone asks for a frame as well (`Notified`). `AgentLink`: the socket that brings the messages.
* `QuickOpen`: `body.of` is the input the rows were drawn for.

`MCPage` is the disjoint union of these state machines over shared variables: a
behaviour chooses its part in the first state and keeps to it. The parts meet in
code that is modelled on both sides (closing a tab is in three of them) and not
by composition: their product would be out of TLC's reach, and no property here
needs it.

## 3. The runs

| Run | Configuration | Result |
|---|---|---|
| `queue_store` | `MCQueueStore.cfg` | passes, 220,524 states |
| `queue_misread` | `MCQueueMisread.cfg` | violates `NoSilentLoss` |
| `prompt_queue` | `MCPromptQueue.cfg` | passes, 590,697 states |
| `prompt_queue_progress` | `MCDrainsEnd.cfg` | passes, 459,245 states |
| `cli_order` | `MCAllInOrder.cfg` | violates `AllInOrder` |
| `blocked_order` | `MCBlockedInOrder.cfg` | violates `BlockedInOrder` |
| `waiting_gate` | `MCWaitingGate.cfg` | passes, 55,440 states |
| `gate_pane` | `MCGateCoversPane.cfg` | violates `GateCoversPane` |
| `pty_output` | `MCPtyOutput.cfg` | passes, 303,081 states |
| `pty_stall` | `MCPtyStall.cfg` | violates `ShortQueueResumes` |
| `page` | `MCPage.cfg` | passes, 1,398,184 states |
| `pane_dots` | `MCPaneDots.cfg` | violates `NewPanePainted` |

Deadlock checking is off everywhere: each model stops when its bounds are
reached (no more submissions, deliveries, chunks or reports), and the page when
its link is over.

### Bounds, and why they are enough

* `queue_store`: two clients, as a lost update or a torn read needs two; a
  queue of one place and two submissions, so that `add` finds it full, and
  `mark_blocked` finds it refilled.
* `prompt_queue`: three prompts, the second of them dangerous, two deliveries,
  one place in the queue, one failure that loses something (`MaxLost`; how many
  prompts it takes with it is left open), one of each kind of drain. Two
  drains in two processes with a third prompt behind them is the smallest case
  in which order, doubling and loss can all go wrong. The run leaves targets
  out (`Sessions = {}`): with a command-line run and a target the space is out
  of reach; targets and scoping are in `prompt_queue_progress`, which in turn has
  no command-line run.
* `waiting_gate`: an agent with hooks and one without in one session that a
  terminal shows, two reports. The properties speak of one session; what a
  second one adds is the difference between target and pane, which is
  `gate_pane`'s subject.
* `pty_output`: two viewers, `High = 2` (so a queue of four), `Low = 1`,
  four frames of scrollback, five chunks. The scrollback fills a queue, so the
  end mark has to wait; two viewers can pause for each other; five chunks fill
  a queue, overflow it and go on.

* `page`, part by part. Sockets: two sessions, two sockets or attempts at one
  time, so that one session can have two (an old and a new one) or two one each;
  the delay grows once. Screen: two connections, a box with no width and one
  that holds one or two columns. Panes: up to three, two sessions, windows for
  two and for three panes, a coarse pointer: three panes are the smallest tree
  in which closing promotes a split. Tabs: two web ids, two tmux sessions, two
  tabs in the list: an id that is used for another session after a restart, and
  one session restored while another is missing, or both missing and the request
  for the first rejected. Rail: two sessions, one of
  tmux, two drawings. Layout saving: a tmux and a plain session, two panes, one
  save: the server's copy is then never newer than a local one that exists, which
  only the theorem covers. Settings: two terminals. Shortcuts: three actions, four combinations,
  one reserved; the slip that the run is tried with breaks the mouse mode, and
  shadowed shortcuts are warned of because conflicts are looked for in the same
  spelling as matches. Viewer: two folders in one another beside a file in each, seven
  rows and three answers, so that a folder is opened, closed and opened again
  before its first answer; pages of one commit, three commits; history grows and is not rewritten. Statuses: one
  agent, two tabs, two panes; more agents only add the choice of the one whose
  directory matches, which `pane_dots` has. Link: two attempts. Palette: one
  session, six inputs of four kinds. `Users` and `Tmux` are symmetric: no
  definition orders them, and no liveness is checked here.
* `pane_dots`: the part of the statuses alone with a directory.

### Fairness, and why the code justifies it

* `QueueStore`: a client inside a call goes on (`WF` of its steps). Nothing is
  assumed about the order in which `flock` serves its waiters.
* `PromptQueue`: timers fire, threads run on, `asyncio.Lock` wakes its first
  waiter. Calls have timeouts (two seconds for tmux). Nothing is assumed about
  users, hooks, or crashes.
* `WaitingGate`: time passes, and an expired entry is read before it is renewed
  for ever: `SF` of `ReadState` while an entry is old. The heartbeat of
  `/ws-agent` reads the table every few seconds, and times to live are minutes.
  Without a connected page and without a drain nobody sweeps, but then nobody is
  held up either. `MaxReports` bounds how often an agent says itself that it
  waits: one that says so for ever does wait for ever.
* `PtyOutput`: callbacks, timers and tasks run; a browser takes what it is sent
  and its renderer catches up; a lost connection is noticed, by the heartbeat's
  timeout at the latest (`WF(~worker /\ Leave)`). A viewer that is connected is
  not assumed to leave, which is what makes `pty_stall` a real behaviour.

### What the violations show

1. `cli_order`. `fsh queue run` calls `drain_once` in its own process. The order
   `queue_store.py:8` promises holds among the drains of the server
   (`ServerInOrder`) and not beyond.
2. `blocked_order`. `mark_blocked` inserts behind the last blocked item without
   looking at which was submitted first, contrary to its docstring.
3. `gate_pane`. An item without a target is typed into the pane voice input
   goes to; the gate looked at the session that stopped.
4. `pty_stall`. Only `_on_data` resumes the reader, and only when it is called
   with a short queue; once the reader is paused it is not called any more. The
   viewer is connected, has nothing to show, and the terminal stands still for
   all viewers until it leaves.
5. `queue_misread`. A queue file that cannot be read for a moment counts as
   empty, and the next `add` writes that down.
6. `pane_dots`. `panes.js` draws the panes anew when the window is resized,
   without telling anyone; a window that leaves the compact view has panes
   without dots until a status, a tab or the layout changes.

### What else was seen while modelling

Definitions in the modules state what comments promise and the code does not
keep; no run is listed for them, as each part has one subject:
`UnavailableMarked` (`PageKeymap`: a reserved combination the user records is
spelled `mod+w`, the table at `keymap.js:28` has `Mod+W`, and it is not marked),
`IconMostUrgent` (`AgentPage`: `status.js` sets the icon from one event, which
may hide a session that waits), `SettingsInForce` (`PageSettings`: a new tab
ignores the cursor and scrollback settings), `TypingFollowsBorder`
(`PageLayout`: stepping through the compact view, drops, splits and closing move
the active pane without the active session), `SizeTold` (`TerminalScreen`: a
font changed by the settings is not followed by a new size, as the box is the
same), `StopHasWayBack` (`TerminalSockets`: another session's event removes the
overlay of the active one and with it the button).

Not stated as definitions, but in the models' behaviours or in the code beside
them:

* Connections: stopping and reconnecting while a connection is being made leaves
  two sockets, of which closing the tab closes one. With encryption, a size that
  is sent before the handshake's answer is taken for it and the server closes.
* Closing a tab: what was active is remembered across the request, so a late
  answer takes the focus; when the request fails, the list is not saved and the
  active id is that of a tab that is gone; the interval of local selection is
  never cleared.
* Boot: each tab that is restored saves the list, which for a while holds only
  the tabs so far; the active tab is saved and not used; closing the first
  restored tab during restoration lets it fail as a whole, and the web sessions
  are added a second time; a tab just closed may be attached again; a request
  answered after boot found the same session makes a second tab. One rejected
  request to attach leaves the sessions behind it without a tab: silently when
  tabs were restored (`workspace.js:143`, `:166`), and with a new session nobody
  asked for when they were not (`boot.js:169`, `:178`). `GET /api/sessions` ends
  every web session of tmux when tmux cannot be listed (`routes/pty.py:77`).
* Layout: nothing is saved on the ways of booting that do not restore; the
  server's copy is compared before the await and applied after it, over what the
  user did in between; the picker's new session goes where the active pane is
  when the server answers.
* Rail: changing from sessions to settings leaves the poll of the sessions
  running, against `rail.js:133-135` (`OnePoller` allows one).
* Settings: every change sends all values, so a page with older ones undoes
  another device's change; a value set while loading is overwritten; a recording
  of a shortcut survives closing its screen.
* Viewer: a late answer replaces what the pane shows; a folder opened twice has
  its entries twice; a commit is listed twice when others are added between two
  pages.
* `/ws-agent` gives up for good after fifteen losses in a row.
* Submitting twice by the keyboard posts an annotation or a prompt twice
  (`panels/viewer/diff.js`, `queue.js`).

## 4. The proofs

Every theorem holds for any number of actors, items, panes, sessions and
messages: of the constants only the named assumptions of the modules are used.
A bound of a run (`MaxAdds`, `MaxSent`, `Chunks`, `MaxSockets`, `MaxTabs` ...) is
a constant as any other, so the theorems hold for every value of it.

| Module | Theorems |
|---|---|
| `QueueOps_proofs` | lemmas about the list operators of `queue_store.py` |
| `QueueStore_proofs` | `TypeCorrect`, `Exclusion`, `NoLostUpdate`, `Refinement` |
| `PromptQueue_proofs` | `TypeCorrect`, `NothingDroppedOrDoubled`, `NeverSendsDangerous`, `BlockedWaitsForUser`, `ServerKeepsOrder`, `QueueBounded`, `PromiseKept` |
| `PtyOutput_proofs` | `TypeCorrect`, `PausesHaveOwners`, `EndMarkArrives`, `OutputInOrder` |
| `WaitingGate_proofs` | `TypeCorrect`, `GateCovers`, `OnlyWorkStartsToWait`, `DetectionMeetsGate` |
| `PageTerminals_proofs` | `LostIsRetried`, `BackoffIsKept`, `FlagIsHonest`, `SizeIsTold`, `TabsKnowTmux`, `BootLeavesNone`, `LayoutIsRestored` |
| `PageViews_proofs` | `DotsAreCurrent`, `SessionsShownOnce`, `ScreenShowsTree`, `PanesStayPut`, `LogLeavesOutNone`, `RowsNested` |
| `PageControls_proofs` | `PaletteRowsMatch`, `SettingsStayHonest`, `OneBlockAsks`, `ListIsCurrent`, `PageIsTyped` |

### What is assumed, and why the code justifies it

* `QueueStoreAssumption`, `QueueOps`: `NoTarget` is no session, `Nobody` no
  client, `NoResult` no operation or answer: stand-ins of the models. `MaxItems`
  is positive, as `MAX_ITEMS` is.
* `PromptQueueAssumption`: the three kinds of drains are different tasks; finitely
  many command-line runs, as processes are (`Capacity` counts those in flight).
* `PtyOutputAssumption`: the marks are in order (the code has 50 and 200), the
  high one is not the first frame, and there is a place for a viewer and room
  for a frame of scrollback. `WaitingGateAssumption`: every terminal shows a tmux
  session.
* `PageAssumption`: stand-ins (no session, no tab, an empty pane, a pane that is
  shut, an empty field) are none of what they stand in for, and an empty field is
  an input; bounds are numbers; pane numbers are positive, as 0 stands for no
  pane, and there is one to begin with; tmux sessions have finitely many names
  (`_CLIENT_SESSION_RE` allows 64 characters), and web ids, sessions and files
  are finitely many, as numbers of them are counted; a page of the log has
  commits (`LOG_PAGE`), and so has a repository whose log is shown; a box that is
  not empty has room for a column, since the fit addon never gives a terminal
  fewer than two; folders are closed upwards, and the root and the folder the
  viewer starts in are folders; statuses are among the five of
  `agent/status.js`.

TLC evaluates all of them in every run.

### The queue's list

`QueueOps_proofs` states what the list operators do for any list: they keep
lists lists of items, keep identities distinct, and change the set of
identities by exactly the item concerned, and leave the others in their order.
They are written with `RemoveAt`, `InsertAt` and `SelectInSeq` of the community
modules, for which there are no theorems; the module proves what it needs from
their definitions.

### QueueStore

`LockExcludes` is inductive with types alone: only the owner of the lock leaves
the locked steps, and only a free lock is taken. `ReadIsCurrent` is not: that
`file` does not change between one client's read and its replacement needs that
no other client is at its own replacement, which is `LockExcludes`; that `tmp`
is this client's list at `replace` needs the same for `OpenTmp` and `Dump`. The
refinement maps `pc` to the phase of the service's call: a call has taken effect
when it is at `unlock`. `Read` of an operation that writes nothing and `Replace`
are the steps at which it takes effect; there the service computes from the
file, the store from `snap`, and `ReadIsCurrent` says they are the same list.
A failure or a death at any step is the service's `Abort`, before the effect or
after it. All other steps stutter.

### PromptQueue

`IInv == TypeOK /\ Control /\ Accounted`. `Accounted` says where every submitted
prompt is; that a step keeps it needs `Control`: a drain holds an item from its
pop to its settlement and at no other step, and the server's drain inside the
lock is the head of its queue. The accounts are kept apart as `Books` (sets of
identities), `HeldOnce` and `SentOnce`, since most steps touch one of them.

* `NoDangerousSent` adds that what is at `send` passed the check (`Screened`).
* `Capacity` counts. Putting back and popping only move an item, so all that can
  go wrong is a submission, which looks at the list alone: it finds room there
  while as many are in flight as drains can hold at a time (`FlightBound`). In
  the server that is the one at the head of the lock's queue.
* `ServerInOrder` is the deepest here. It is not inductive even with the lock:
  that the next item the server sends was submitted after those it sent to that
  target must be known of every item while it is still in the file. `OInv` says
  it of the *fresh* items, those never put back as blocked: they are in the file
  in the order of submission (`FreshSorted`) and were submitted after everything
  of their target that is in the file without being fresh, in flight, or
  delivered (`FreshOverQueue`, `FreshOverHeld`, `FreshOverSent`). `HeldLast`
  carries that over to the item the server holds, and needs the lock: between
  its pop and its delivery no other drain of the server delivers. That the order
  says nothing of command-line runs and of items that were blocked is all that
  can be had, as `cli_order` and `blocked_order` show.
* `BlockedStays` is a property of single steps: `mark_blocked` and `pop_next`
  move a blocked item but do not drop it, only its user does.
* `PromiseKept` is the refinement of `PromptLife`. Where a prompt is, is a
  function of the state because `Accounted` keeps queue, hands, deleted, lost and
  delivered ones apart (`PlacesApart`); without it `PlaceOf` would depend on the
  order of its questions. A step of the queue is then one of four kinds, each a
  lemma: users (`UsersLive`), a pop (`PopLives`), what a drain does with what it
  holds (`SendLives`, `MarkLives`), and a loss. That the server's restart loses
  at most one, though it ends all of its drains, needs `Control`: only the head
  of the lock's queue holds an item (`RestartFlight`). That what is typed is not
  refused needs `Screened`. `BlockedLess`, `BlockedMore` and `BlockedFreed` say
  which items are blocked after each operation on the list.

### PtyOutput

* `PausesAreOwned` needs `Owned`: while the session lives, its descriptor is read
  exactly while nobody has asked for a pause, and each connection remembers
  what it asked for; and `Phases`: only an open connection asks, and the
  subscribers of a living session are the open connections. The clean-up of a
  viewer that left would otherwise withdraw too little. `Counted` is about the
  number of viewers that are not out.
* `EndMarkKept` needs how far from the end of the queue the mark may be: fewer
  than `High` places while the viewer has not paused the terminal (`MarkedNear`),
  for then the next frame can take it no further than `High`, and the terminal
  is paused and not read. The frame that was read before has been flushed by
  then, which is `Quiet`. A queue has room for twice the high mark.
* `InOrder` needs `Flow`: the scrollback's frames continue one another up to what
  was flushed (`Chain`), what waits in a queue lies behind what was sent
  (`Sound`), without a gap unless the queue overflowed (`Gapless`), and what is
  flushed next continues it (`CaughtUp`), which a viewer that subscribes while
  output goes on gets from the scrollback's copy.

### WaitingGate

Types need that a missing entry holds nothing (`Proper`). `GateCoversTarget` is
inductive with them: what the gate was asked about is kept in the job.
`OnlyWorkWaits` and `DetectionReachesGate` are properties of single steps, each
proved as what one pass over the table does to every entry (`WaitStep`,
`DetectionStep`); the bridge changes all entries bound to a session or none, and
a sweep removes what the report then does not find.

### The page

A step of the page is a step of the part it is about (`PartSteps` and its like
in the other modules); the theorems are about that part's module.

* Connections: `WillReconnect` with `SessionFine`: the stability timer belongs
  to a connection that was opened, and a timer the page remembers is one that
  runs. Without it a close that follows a retry might find a timer that is none.
* Size: what is remembered of the terminal is of the current connection and the
  current font (`Remembered`), and the handshake is over where bytes can be
  sent (`ReadyInTime`).
* Palette, settings and rail: `PaletteInv` (the field is empty while the palette
  is closed), `SettingsInv`, and `RailInv` with `OneBlock`: the only block that
  polls is the one whose clean-up the panel holds (it may be one the panel no
  longer shows). Shadowed shortcuts are warned
  of whatever the overrides are (`ShadowedShares`).
* Tabs: `NamesInv`. An answer on its way names the session its web session is
  attached to (`AnswersName`); an id that is used again is one nobody refers to.
* Booting: `OwedInv`. While booting works on its list, what is owed, that is
  listed and neither refused nor behind a rejected request, has a tab or is in
  the list (`Promised`), which has everything the server listed
  (`WantedAll`). A tab that comes meanwhile must not take another's name away:
  an answer that adds a tab without looking for one finds, if a tab with its id
  is there already, that this tab has the name it brings (`AnswersAgree`), for
  which `NamesInv` is needed before and after the step.
* The log: one page is asked for at a time for what is shown (`OneAsk`), and it
  starts where the log ends or before (`NextFits`): commits that come meanwhile
  only move it back.
* Dots: `DotsCurrent` is inductive; a turn of the window, the only step that
  makes dots without painting them, is the lemma `TurnKeepsDots`.
* Panes: `LayoutInv`. `ShownOnce` needs `GoodTree`: paths are closed under
  prefixes, both children of a split are there (`TreeShape`), and no pane and no
  session occurs twice. The operators on trees are each shown to keep it:
  putting a session somewhere, splitting a leaf, and promoting a sibling, which
  renames the paths below it (`Source`, `Moved`); the lemmas are about prefixes
  of paths, and that promoting is one to one on what is left. `ScreenFollowsTree`
  adds that what is shown is what would be drawn, unless a drawing is due.
  `PanesKeepPlace` compares the panes of the two trees from left to right
  (`Kept`): splitting puts the new pane beside the old one, promoting keeps the
  order as the paths differ at the same place as before.

* The tree of files: `TreeInv`. `TreeNested` says of every row that a row of its
  folder is above it with nothing between them that lies elsewhere. It is
  inductive as it stands, for any list of rows (`Nested`). Rows that an answer
  brings go right behind the row of their folder, so the only blocks they come
  into are those that folder lies in, and they lie there too (`InsertedNested`).
  What closing takes away is the longest run of rows below the folder
  (`BlockEndIs`); a row behind it whose own folder was in it would have been
  below it as well, with nothing in between, and so part of the run
  (`CollapsedNested`).
* Saving: `PersistInv`. `LayoutRestored` compares the panes with the copy they
  are read from. `Resolve` gives a session at most one pane as copies hold every
  session once (`SavedUnshared`), and `Fill` puts what is left over into empty
  panes: the one of rank r gets the session of rank r among those in no pane. A
  rank is the number of places up to one (`RankIs`), so it is one to one, as a
  later place has a larger set before it, and leaves no number out (`RankOnto`),
  by the theorems on the sizes of finite sets. Hence no session is used twice,
  and a pane stays empty only when none is left.
* Types: `Known /\ Rests`. The invariants above contain the types of what they
  are about; `Rests` is what is left of each part's `TypeOK`, as a second
  invariant beside them. It is not obvious where the code counts: that no more
  answers are awaited than asked for, that a log shows no more commits than
  there are when pages overlap (`AnswerBounds`), that a list of tabs stays within
  its bound while answers of several ways of booting come in.

### What only TLC checks

* Liveness (`LockReleased`, `DrainsEnd`, `WaitingEnds`, `ReplayEnds`) and with it
  the fairness it rests on, which the prover does not deal with. All other
  properties of the passing runs are theorems.
* The properties that are violated: a violation is a behaviour.
* That the queue steps of `PromptQueue` are those of `QueueService`: both use the
  operators of `QueueOps`; the one calls them in one step, the other between a
  call and its return, and no property here spans the two.

None of the modules declares a recursive operator.

## 5. What is not modelled

`PROJECT.json` lists every component with the reason. In the modelled ones:

* texts, their length limits and their display;
* `fsh queue` commands other than `run` go through the same operations as the
  web's;
* a failure to open the lock file ends a call before it does anything;
* `ack` of `agent_status.py` is called from nowhere;
* in the terminal: input, resize, creation, the encryption of frames, the bytes
  of a chunk, and the limit on all connections together;
* the gate is read and the keys are sent a few milliseconds later; a status that
  changes in between is not seen by anyone;
* in the page: renaming a tab, the direction and ratio of a split, contents of
  files and diffs with their annotations, gestures, scrolling, toasts, badges,
  and everything of one request and one answer (ports, snippets, usage, queue
  panel, push, voice);
* a request to close a tab that is rejected (nothing is saved then), and links
  that name a tmux session (`boot.js:128`);
* in the viewer's tree two equal requests that are awaited at one time are one;
* `accounted for` in `Accounted` has a place for what a death or an exception
  loses (`lost`): it bounds that loss and finds any other;
* requests of one page are taken to arrive in the order in which they were sent
  (`PageSettings`); ids of web sessions and panes are used again once nothing
  refers to them, which keeps the models finite and is harder than the code's
  random ones.

Hazards that were seen and are in no list because nothing can be said about
them yet: the command-line run has no waiting gate at all, since the status
table is the server's (`queue_runner.py:91`); a drain that is pending drops the
stop of another session (`:163`); the detector drops a change within its guard
(`agent_prompt_detect.py:145`) and is fed by every viewer (`routes/pty.py:319`);
an error status does not expire (`agent_status.py:104`); at end of file a session
stays in the registry (`pty_manager.py:458`); preview subscribers share a hash
across an await (`preview.py:112`); workspace snapshots may reach a page in the
wrong order (`routes/system.py:200`); server and command line rewrite the list of
devices (`auth.py:230`).

## 6. Plan

Built: 1. the queue store with its proof; 2. the queue at work; 3. status and
gate; 4. terminal output; 5. the web page; 6. the proofs of section 4, which
state every safety property of the passing runs. To come, in this order:

7. `PtySessions`: creation and destruction, descriptors that are used again,
   input with its buffer and writer callback (end of file does not remove the
   writer, `pty_manager.py:456`), session registry, attach lock, reaping,
   rename. Properties: a descriptor's callbacks belong to the session that has
   it, one terminal per tmux session, no entry outlives its session in every
   store. It would give `PageSessions` its server.
8. `Preview`: subscribers, the shared hash, the awaited captures. Abstract
   specification: every subscriber ends with the latest screen.
9. `Workspace`: saves, a crash in the middle of a write, the order of snapshots
   at the pages; composed with `PageSettings` and `LayoutPersist`.
10. Authentication state: files shared by server and command line; output
   watcher; tunnel watchdog.
