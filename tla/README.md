# chillos, specified

TLA+ specifications of [chillos](../src/README.md), a small Linux user space
written in Go: a process 1, a service manager, a device daemon, a display
server with its clients, a console, a Lisp, and the build tool that packs them.
The modules are translated from the Go source; TLC checks them on small
configurations and TLAPS proves the theorems in the `*_proofs` modules.

## The system

```
 kernel ──signals──> init (pid 1) ──starts──> service startup (manager)
                        ▲  reaps orphans          │ one goroutine per service
 service shutdown ──────┘                         ▼
                                udevd · display server · network · debugger
                                  │            │
              uevents ─> pool ─> module loader │<── connect (unix socket, JSON)
                                               │<── shm segments (pixels)
                                             clients: console, welcome, ...
```

| component | state it keeps | operations | what is hard | what makes it correct |
|---|---|---|---|---|
| process 1 `cmd/init` | manager's process, context, signal channel, reboot command | start, wait, reap, react to signals, reboot | two reapers, merging and dropped signals | reboots only after the manager's end, does what was asked, reaps every orphan |
| initramfs stage `cmd/init/initramfs.go` | mounts, accumulated errors | mount root and overlays, exec the real init | errors that are kept to a stage's end, a root device that comes late | the real init runs only on a complete root |
| service manager `cmd/service` | `State` and `Process` of each service, two wait groups | stages, dependency wait, launch, monitor, relaunch, interrupt | unsynchronised reads, conditions, timeouts, retry loops | dependencies first, stages in order, nothing left running on return |
| worker pool `pkg/pool` | bounded queue, wait group, stop channel | start, submit, wait, shutdown | shutdown against late submitters, full queue | each job runs once, wait covers all of them |
| device daemon `service/udevd` | netlink socket, pool | walk, receive, submit, load the module | events out of order or dropped, a walk over devices that go, an end in the middle | every device's module gets loaded |
| module loader `pkg/kernel/module`, `cmd/module` | kernel's modules, `loaded` map | load recursively, insert | shared and cyclic dependencies, partial failure | dependencies first; success means inserted |
| connection `pkg/connect` | socket, JSON decoder | send, receive, reply, listen | several messages in one read, replies out of turn | each message is received once, in order |
| display server `service/display` | surfaces, focus, modifier keys, workspace, listener | handle clients, tile, raise, draw, key bindings, accept | clients that die, order of created/resize, two goroutines, restarts with the socket's file left | a window per live surface, focus on one of them, who connects is seen |
| client backend `pkg/graphics/backend/display` | shm image, connection | init, poll, update | resize against damage, segment gone | draws into the segment the server shows |
| DRM backend `pkg/graphics/backend/drmkms` | two frame buffers, a mutex | init, draw, flip, listen | a flip that is refused, a listener shared by goroutines | what is on the screen is a whole frame |
| event sources `pkg/event`, `pkg/kernel/poll`, `input` | descriptors and their listeners | add, poll, read | add while polling | no source is lost |
| widgets `pkg/graphics/widget`, `layout` | dirty flags, bounds | layout, draw | dirty flags against bounds | what changed is drawn |
| console `apps/console` | grid, cursor, escape state | read, parse, scroll, resize | sequences split between reads, cursor at the edges | cursor on the grid |
| Lisp `pkg/lipi`, `cmd/lipi` | scopes, slices of arrays | read, evaluate, print, prompt | scoping, macros, lists that share an array | names mean what a Lisp without memory says |
| build tool `tools/ignite`, `pkg/ensure` | recipes, time stamps | sort, build, script | cycles, stale targets | dependencies are built first, only what changed is built |
| small commands `cmd/sysctl`, `tools/debug`, `tools/genkeycodes` | none | one system call or one text transformation | – | – |

## What is here

| module | models | runs | theorems |
|---|---|---|---|
| `StagedBoot` | the promise of the boot: services settle stage by stage | | |
| `ServiceManager` | `cmd/service`: startup, its stages, the goroutines of services, the monitors | `service_manager`, `oneshot_exit_status` | `ServiceManager_proofs` |
| `InitProcess` | `cmd/init/main.go`: signals, two reapers, the reboot | `init_request_lost` | in `Boot_proofs` |
| `Boot` | `cmd/init/initramfs.go`, then `InitProcess` in the real root | `boot` | `Boot_proofs` |
| `TaskPool` | the promise of the pool: each task runs once, a shutdown owes nothing | | |
| `Pool` | `pkg/pool`: channel, wait group, workers, shutdown | `pool` | `Pool_proofs` |
| `ModuleLoad` | `pkg/kernel/module`: recursive loads by several loaders, which may be killed | in `udevd` | in `Udevd_proofs` |
| `Udevd` | `service/udevd`: the socket and the walk, over `Pool` and `ModuleLoad` | `udevd` | `Udevd_proofs` |
| `Desktop` | `service/display`: windows, focus, bindings, tiling, images in shared memory | `desktop_remove` | |
| `DisplayClients` | `Desktop` with its clients (`pkg/graphics/backend/display`) over `pkg/connect` | `display_clients` | `DisplayClients_proofs` |
| `Frames` | the loop of `app.Run`, dirty flags, the card's two buffers | in `display_server` | in `DisplayServer_proofs` |
| `DisplayServer` | the server's process: its role, its goroutines, the listener, crashes; over `Frames` | `display_server` | `DisplayServer_proofs` |
| `Console` | `apps/console`: escape sequences, the grid, the cursor, redrawing | `console` | `Terminal_proofs` |
| `ExternalSort` | `tools/ignite/external.go`: the order in which components are built | in `ignite` | in `Ignite_proofs` |
| `Ignite` | `tools/ignite` and `pkg/ensure`: the targets, stale ones, over `ExternalSort` | `ignite` | `Ignite_proofs` |
| `Reader` | `pkg/lipi`'s values and its reader, the prompt's test for a complete line | in `lipi` | in `Terminal_proofs` |
| `Processes` | `pkg/lipi`'s printer, the processes that compute and their checks | in `lipi` | |
| `Prompt` | `cmd/lipi`'s loop, whatever the evaluator does | in `lipi` | `Terminal_proofs` |
| `Lisp` | the promise of the Lisp: values without memory | in `lipi` | |
| `Lipi` | `pkg/lipi`, `cmd/lipi`: scopes, slices of arrays, forms, macros, the prompt | `lipi` | |

An `MC...` module gives the constants that a `.cfg` cannot write down. A
definition whose comment begins with "Mutant of" is a wrong version of the
definition it is named after, one for each property: with it the property must
fail.

### ServiceManager

`state`, `proc` and `deps` are fields of `Service` and the locals of
`waitForDepends`; `pc` is where the goroutine that works for a service stands;
`stageWaitGroup` and `waitGroup` are the counters of the two wait groups. A step
is one access to what goroutines share. `TriggerService`, `StageDone` and
`ManagerReturn` are `startup` and `triggerStage`; `BeginWait`, `Observe` and
`Timeout` are `waitForDepends`, which reads one `State` at a time; `SkipStart`,
`BeginLaunch`, `Launched` and `LaunchFailed` are `Start`; the others are
`runService` and `monitorDaemonService`. Go calls the unsynchronised reads of
`State` a data race; the field is one aligned word, so a read returns a value
that some write stored, as in the model. That a `WaitGroup` is raised while
somebody waits on it at zero is misuse that the Go documentation forbids; here
every `Add` on the package's group happens inside a stage, before the final
`Wait`, which `NoOrphanOnReturn` rests on.

The run `service_manager` takes six services in two stages: a conditional oneshot
whose condition comes and goes, a daemon that is not relaunched and one that is,
a oneshot that restarts, a dependency that does not exist, one on a later stage,
and a stage that does not exist. Two stages show the barrier, and each kind of
service meets each kind of dependency. It checks that a service is launched only
after its unconditional dependencies were (`DependsLaunched`), that stages do not
overlap (`StageBarrier`), that nothing is left running when startup returns
(`NoOrphanOnReturn`), that the manager implements `StagedBoot`, and liveness under
fairness of every goroutine and of the ends of oneshots: the boot completes
unless a service that restarts never launches (`BootStallsOnlyOnFailingRestart`),
and a daemon that restarts is launched again (`RestartRelaunches`). Daemons need
not end and conditions need not change. `oneshot_exit_status` finds that a
oneshot that exits with an error becomes `Finished`: `Process.Wait` returns no error for an exit status.

### Boot and InitProcess

`Boot` is process 1 from `/init` in the initramfs on. `Calls` is the list of what
`ensureRealRootfs` calls, each with what it gives and what it needs; `have` is
what there is so far. A call without what it needs fails, and up to two others
fail for no reason; `errors` keeps the errors of `safeCall` to the end of the
stage, where `ensureStage` ends process 1. The images of `MCBoot` have and lack what an
image may have or lack, the kernel's argument may be missing, and the root device
may come at any moment, while the code looks for it once. `StagesComplete` says that nothing is built on the remains of
a stage that failed. After the exec the steps are those of `InitProcess`.

There `phase` is the line `main` stands at; `pending` and `channel` are the way
of a signal through the Go runtime, where a second one of a kind merges with the
first and one that finds the channel of four full is dropped. `ReapAll` is the
loop over `Wait4`, `WaitManager` the goroutine that waits for the manager. The
run `boot` has a channel of three, one more orphan than it holds and two
requests, which is what it takes to fill the channel and to drop a request;
`init_request_lost` has the channel of four. Fairness: the
goroutines and the signal delivery run, and a manager that was sent SIGINT ends
(its own module says when). `init_request_lost` shows the dropped request.
Ctrl-Alt-Del is a SIGINT like any other.

### Pool and TaskPool

A step is one operation on the channel, the wait group or the stop channel; a
job goes from "added" (counted) over "queued", "taken" and "did" to "done".
Four jobs, two workers and a channel of one block a submitter while both workers
are busy. Fairness is weak for workers and for `Shutdown`, strong for a blocked
send, since a Go channel serves its senders in turn; nobody need submit or shut
down. `Shutdown` goes from "called" over `wg.Wait()` to "closed". The wait group
(of Go 1.24, as `go.mod` says) lets the goroutine that waits go with the last
`Done` (`Release`), and that goroutine looks at the counter once more when it runs
(`Return`): a `Submit` between the last `Done` and either of them makes the wait
group panic, which nobody recovers, so that the process ends ("panic", after
which nothing is `Alive`). `ShutdownOwesNothing` says which jobs a shutdown has
waited for, also where it panics: those submitted before it was called. A later
one may be lost, may block its submitter for ever, or is the cause of the panic;
`ShutdownReturns` says that `Shutdown` returns but for that panic, and that only a
late `Submit` brings it about. udevd, whose workers these are, never calls
`Shutdown`. `Pool` implements `TaskPool`.

### ModuleLoad and Udevd

Each loader has the stack of `Load`'s recursion; `Descend` is a recursive call,
`Insert` the system call, `Fail` an error that unwinds the stack, `Kill` the end of
the process in the middle of it. The map `loaded`, which `Load` looks modules up
in, is never written and therefore absent. The consequence is
`NoSharedDependency`: of two drivers that need the same module at most one gets
into the kernel, since the second load of what they share is refused. Modules
that need each other make `Load` call itself without end; the stack is then
unbounded, so that the runs have none and the theorems, which allow for them, say
what is not broken by it.

`Udevd` composes the loaders with the pool (`P == INSTANCE Pool`, whose jobs are
the events) and the socket. A loader is an event: `<<device, "plug">>`,
`<<device, "unplug">>` - the daemon does not look at the action and loads the
driver of what went - or the event that the walk of a run asks for. Each event
has its own goroutine, which is `Submit`, so that events reach the pool in any
order. The kernel drops an event when the socket is full (here it holds one) or
nobody has bound it. `End` is a crash, or the panic of the walk at a directory that
went away; the service manager starts the daemon again (`Start`, two runs).
`missed` is a history: devices of which an event was dropped, whose load was cut,
or that the walk never came to. `StayingIsDriven` names all the ways in which a
device that stays goes without its driver, and nothing else may be one: not the
order of events, not the window between the socket and the walk, not a restart.
One device that is there from the start and one that comes and goes, whose
drivers share a module, meet each of them; two workers interleave in every way.
Fairness: the daemon is started again, its loop, goroutines and workers go on, and
the blocked senders of the channel are served in turn.

### Desktop and DisplayClients

The server handles one event after the other, so that an action of `Desktop` is
the whole handling of one: `Create` is the request of a client with the tiling
it causes, `Type` a key with the bindings, `Frame` the `SetBounds` that every
turn of the loop begins with. `Slot` keeps of a rectangle which other rectangles
of `Tile` have its size, since a window gets a new image exactly when its size
changes. Names of images are random in the code and fresh here. `segments` are
the images that exist, `mapped` those the server has mapped. A panic ends the
server (`app.Run` recovers only to exit).

`DisplayClients` gives each client its side: `Ask`, `Reply`, `Poll`, `Quit`. Every
`Receive` makes a new JSON decoder, which reads what has come, up to its buffer,
and is dropped with all of it but the first message; the next `Receive` may then
begin in the middle of one. The buffer is counted in messages (two in the run).
A connection's capacity is not modelled: a client that never reads would block
the server. A client may end at any moment; one that ends before the server has
read its `Create` ("left") is given a window all the same. `Damage` is left out because `Tile` reports a change in every frame,
so that everything is drawn anyway.

The run `display_clients` has two clients, two messages in a buffer, one refusal of
shared memory, and the keys alt, s and q, each of which may be held and repeat.
Two windows are what it takes for sizes to change when one comes or goes. It
checks `FocusOnWindow` and `OneImageEach` of the desktop; `DrawsWhatIsShown`, that
a client draws into the image that is shown unless it lost the message that named
it; `ReplyNamesImage`, that what a client takes for the reply to `Create` names an
image, although a `Resize` may come before `Created`; and with a fair server and
fair clients that every window gets an image of its size (`FitsAgain`), that who
asks is served (`AskedIsServed`) and that clients catch up (`CatchesUp`).
`desktop_remove` shows that no image that was destroyed is ever removed: the
command passed to `shmctl` does not exist.

Two more that the model has and no property excludes: Alt+S without a window
divides by zero and ends the server, and Alt held until it repeats is no longer
taken to be down.

### Frames and DisplayServer

`Frames` is the loop of `app.Run`: `Fill` draws the background, `Paint` the dirty
windows, `Flip` shows the buffer and copies it to the other one, `FlipFails` is the
card's refusal, `Events` what a poll brings. A frame in two steps is the least that
lets half a frame be seen. `content` is what each buffer shows of each window, and
`ShownIsWhole` says that the buffer on the screen is never one that is being drawn
into. The first frame is the exception: setup displays the very buffer that is
drawn into first. The workspace's dirty mark is set by every `Tile` and taken back
by nothing, so that the loop draws and flips even when nothing changed; the
branch of `Fill` that would rest is for a desktop without windows that was drawn.

`DisplayServer` puts a process around it, and lets it end at any step that the
code lets it end at (`Ends`): a failed setup, a panic, two goroutines in one map.
`Start` is the package initialisation of `app_linux.go`, which takes the backend
from the existence of the socket's file; the file outlives the process, so that a
server that is started again is a client of itself (`Connect`), waiting for an
answer that it would have to give: `ClientOnlyAfterCrash` says that this is the
only way to get there. `adding` follows `Listener.Add` of the two goroutines line by
line: epoll, the slice read, slice and map written; the DRM backend holds a mutex
around it, the client backend does not. `SourcesKept` is what the mutex is for.
`connect.Listen` may fail to bind (`BindFails`); main takes the error for success, and
the server goes on without a socket.

A window has an image of its own, `misfits` are those that should have another one and
were refused it: `Events` and `Fill` give windows new images (`Renewed`), with nothing
in them, as `Surface.SetBounds` does. `drawn` is how much a client has drawn, `image`
how much of it the image of its window shows, and `sight` where the client stands:
"shown" while it draws into that image; "told" once a `Resize` with another one is on
its way, "again" if there are more; "missed" or "lost" when an earlier one, or the
last, was dropped by `Receive`; "blank" when the last one it read has the size of
the image that it knew, so that it draws nothing anew. A client that is not "shown"
draws into an image that no window has. How the messages come to be dropped
is the matter of `DisplayClients`, which has the stream itself; here any may be.

`SeenInTheEnd` follows a program from its connection to the screen: its window is there
with what it drew last. The exceptions, each of which the code meets: its
window was closed, or it ended with the server; the server is the client that waits
for itself; shared memory was refused for its window, of which it hears nothing,
so that it waits for ever ("refused"); it lost the message that names its last image,
or follows one whose predecessor it lost and has not drawn since. Without any of
the last three the property fails. Clients that end by themselves are in
`DisplayClients` only. Two clients (one of them the console that the desktop
starts), one drawing each, which must outlive every new image, two refusals of the
card in a behaviour, refusals of shared memory and crashes and restarts as TLC
likes. Fairness: the service manager restarts the server, the steps of either
goroutine go on, and a client reads; nobody need type, start a program or draw.

### Console

`screen` is the grid with its cursor, `back` the beginning of an unfinished
sequence, `shown` what was last drawn. `Run` is the loop of `Update` over the bytes
of an event: `Turn` is one turn of it, which puts a byte, skips a sequence up to
its final byte, or keeps one that has none, and `Loop` its state after each turn.
Every turn but the last goes on by a byte, so that as many as there are bytes do.
`Step` is the reference, a
console that takes one byte at a time. A byte is one of seven classes and a cell
is inked or blank; three sizes of at most two by two let the window shrink in
both directions, and three bytes in an event cut every sequence everywhere. An
ESC at the end of an event is lost, a cursor that a smaller window left outside
stays there (a backspace then panics), and text that comes with the beginning of
a sequence waits for its end to be drawn: each is the stated exception of
a property. `processEscape` is given the sequence without its final byte and
so never finds `J` or `H`; sequences change nothing.

### Ignite

`ExternalSort` is the depth-first search of `external.go`: `stack` has an entry for
each call of `visit` that has not returned, with the number of dependencies it
took up, `Marked` is `tempMark`, `Follow` the recursive call or the error, and `Leave`
the end of a call. `SortsRight` compares the outcome with a definition that says
nothing of a search: what the kernel image needs is in every set that is closed
under dependencies, and there is no cycle when numbers can be given that fall
along them; 850 sets of three components in the run. In `Ignite` a run of the
tool is `Start`, the search, `Sorted`, and a `Check` of each target, which is
`ensure.Target`;
`Build` and `BuildFails` are what it calls. A file has a modification time, which
the code sees, and a version, which only the properties do. A build may share
its tick of the clock with the one before; an edit, made by people, comes later
than what was there, and so does the next run. One edit and one failure per
behaviour meet every step of up to three runs. `NothingStale` names the cases in
which the time stamps mislead: a failed build that left its target, a source
edited during the build, a package that no longer parses.

### Reader, Lisp and Lipi

`Reader` has the values and the reader, which goes over tokens by their position:
a place is a position with what is read there, a form or the rest of a list, and
`Reading` gives for each what is read and the position behind it. `Processes` has
the printer and what `CheckArgs` says of argument kinds. `Prompt` is the loop of
`cmd/lipi`, `GoOn`, `Misread` and `Take`, in which the evaluation of a form may end
the process or not. `Lisp` is the promise: `Meaning` evaluates a form with an
environment and global names, both values; there is no memory in which two lists
could meet. `Lipi` is the interpreter: scopes with their parents, lists as slices
of arrays that `append` extends in place while there is room, `QuasiQuote` that
turns a template into calls of `cons` and `concat`. Each of its steps is one of
`Prompt`, with what becomes of the memory: `Enter` is a `Take` with an evaluation.
`ImplementsLisp` maps a session to one of `Lisp`: `Tree`
forgets the memory. Its one exception is the flag `shared`: `concat` appends to its
first argument, so that two lists extended from the same one may share its array,
and the second overwrites the first - in data, and in programs, which are lists.
Without the exception the property fails.

A session is four of sixteen lines and pieces of lines. Among them are a list
whose array has room and two extensions of it, a closure under names that shadow
others, a macro with both kinds of unquote, rest arguments, a text that is
evaluated with a hole in it, and pieces of brackets and quotes that make lines
end everywhere; four lines are what it takes to define, extend twice and look.

`AsksOnlyForMore` says that the prompt waits for another line only if more tokens
can make a form of what was typed. It does so seldom: `isBalanced` looks a closing
bracket up among the opening ones and so stops at the first, which sends
unfinished lines with a closed bracket in them to the reader, whose error is
shown. What the model keeps of the code's other habits: a quote at the end of the
input ends the process (the reader looks at a token that is not there), an error
about an argument that is nil panics, `let` binds the first of its names and
panics at a third, `*` and `/` start from zero, `do` with a single form returns
nil, and the prelude's `not` returns names that are not bound.

## What is proved

Each `*_proofs` module proves, for every value of the constants that the `ASSUME`s
allow, that an inductive invariant `IInv` holds, and what follows from it.

- `ServiceManager_proofs`: `IInv` is `TypeOK` and, per service, that its goroutines
  are where `inStage` and `monitored` say (`Owned`), that the counters are the
  cardinalities of those sets (`Counters`), what `proc` says of `state`
  (`ProcessKnown`), that a dependency that was crossed off was launched
  (`DependsSeen`), and that later stages wait (`StagesInOrder`). None of the
  properties is inductive without the counters: a stage ends when a number is
  zero, which says something of services only with them. `Refinement` maps each
  step to one of `StagedBoot` or a stutter.
- `Pool_proofs`: the queue and the workers hold exactly the jobs that are queued and
  taken (`QueueExact`, `WorkExact`), and the wait group counts those that are
  pending (`Counted`). `Refinement` of `TaskPool` rests on it.
- `Boot_proofs`: of process 1, which phases need the manager gone, and that signals
  under way were sent; of the initramfs, `StagesComplete` by following `step` and `errors` through the list of
  calls, whatever the image has in it; and that what happens after the exec are
  behaviours of `InitProcess`, whose theorems therefore hold of the whole boot.
- `Udevd_proofs`: of the loaders, an inserted module owns its dependencies, each of
  which has one parent (`Owns`), and the frames of a stack own those before their
  `next` (`StacksOK`). It holds for cyclic dependencies, and for loaders that are
  killed, too. Of the daemon, each step is a step of `ModuleLoad` or a stutter,
  so that what is proved of the loaders holds in it; and a load has a worker,
  because what is in the pool was received and what a worker has taken is nobody
  else's.
- `DisplayClients_proofs`: windows are surfaces, each once, whose images have names
  of their own (`WindowsOnSurfaces`), and exactly those are mapped
  (`MapsWhatIsMade`). The names matter: a resize detaches an image, which must not
  be another window's. On it rests `QInv`: nobody is sent anything before it is
  served (`Waits`), and on each connection either the last `Resize` names the image
  that is shown, or there is none and the client has that image or is about to be
  told in its reply (`Current`). Both lemmas about a connection, `Sending` and
  `Reading`, are about sequences of any length and any buffer.
- `DisplayServer_proofs`: the buffer that is drawn into is not the one on the
  screen, and before it is shown it holds the windows (`Apart`, `Drawn`); each step
  of the server is one of `Frames`; a file is there only while a server was
  (`FileIsLeft`); whoever adds a source holds the mutex and has read the slice
  since the last write (`OneAdds`).

- `Ignite_proofs`: of the search, what is on the stack or was visited is needed
  (`StackNeeded`); numbers that fall along the dependencies fall along the stack
  (`GoesDown`), so that when a call meets its own component there are none; what a
  call took up was visited, but for the last one, which is the call above it
  (`Taken`); and the result is what was visited, each component once and after its
  dependencies (`Resulted`). At the end the result is closed, so that whatever is
  needed is in it, and the positions in it are such numbers. Of the builds, what
  this run did not come to yet is older than its clock (`TimeInv`); a target that is
  not excused was made of what its dependencies are, or one became newer
  (`MadeInv`); what was checked in this run is no older than its dependencies
  (`DoneInv`), and after a quiet run nothing is (`QuietInv`).
- `Terminal_proofs`: of the console, after any number of turns, what the loop did to the screen so
  far is what the reference did with the bytes up to where the loop stands, or both
  panicked (`Keeps`); the sequence that is kept is the same in both (`Begun`). A
  cursor is never left of the grid or above it, which a backspace needs (`Screen`).
  `Turn` and `Steps` are recursive functions: that they exist and unfold is proved
  by induction over sets of numbers (`Induct`, `StepsUnfold`, `LoopUnfold`). Of the prompt, what waits for more was
  found unbalanced (`PInv`) and so has no closing bracket; then no list in it ends
  and the reader comes to the end of the tokens without an error (`OpenStays`).
  That the reader's recursion ends, and so `Reading` unfolds, is an induction over
  what is `Left` to read from a place. It holds for every evaluator, so that it
  holds of `Lipi`, each step of which is one of `Prompt`.

The `TypeOK` of `ServiceManager`, `InitProcess`, `Pool` and `ModuleLoad` are parts of
these invariants and proved with them. Assumed are only the `ASSUME`s of the
modules: sets that are finite or disjoint, bounds that are numbers, names that
differ, and of the build tool that `main` goes through its targets in the order of
their dependencies, as its list does.

Only model-checked: everything under fairness, which is out of the prover's reach,
and `ImplementsLisp`: the evaluator and the promise are recursive operators on
trees, which the prover cannot unfold. Every safety invariant of a run that passes
is a theorem.

## What is not modelled

Drawing, styles, layout boxes and the status bar (data that no property tells
apart; whether what changed is drawn is in `Frames` and `Console`), the cursor and
mouse buttons, which move a position, the welcome window, which is one text, and
the small commands. Of the modelled components:

- service manager: `Service.Stop`, which nothing calls; process 1: the environment
  and the console of the manager's output; module loader: `module unload`, which is
  one system call, the alias cache, ELF parsing;
- display server: the bindings Alt+Enter and Alt+R, which start programs; the
  server's reading of `Damage`, which it drops; a connection whose reader never
  reads, which blocks the server's `Send` and with it everybody;
- DRM: the ioctls of `pkg/kernel/drm` are one answer of the card; `pkg/event/key` is
  a table of constants;
- console: keys, each of which writes a byte, and the terminal's system calls;
- build tool: downloads, the environment, the emulator;
- Lisp: maps and keywords, the processes that are system calls (`exec`, `read`,
  `write`), and scripts, of which only the first form is read.

Never: wording, logs, colours, the directories and credentials of a service's
process.

## Plan

In this order; the first part of each line is the abstract promise.

1. `StagedBoot` ⟸ `ServiceManager`: the boot; proofs. *Done.*
2. `InitProcess`: shutdown, reaping and reboot; proofs. *Done.*
3. `TaskPool` ⟸ `Pool`: the worker pool, its shutdown; proofs. *Done.*
4. `ModuleLoad`: recursive loads by several udevd workers; proofs. *Done.*
5. `Desktop`: windows, focus, bindings and images; proofs. *Done.*
6. `DisplayClients` over `Desktop`: the message stream and its decoder, the images.
   Proofs. *Done.*
7. `Console`: escape sequences over cuts, the cursor; proofs. *Done.*
8. `ExternalSort` and `Ignite`: the sort against a reference, stale targets; proofs.
   *Done.*
9. `Udevd`, which composes `Pool` and `ModuleLoad` with the socket; proofs. *Done.*
10. `Boot`, which ends in `InitProcess`; proofs. *Done.*
11. `Frames` and `DisplayServer`: the selection of the backend, the listener, the
    two buffers, restarts; proofs. *Done.*
12. `Lisp` ⟸ `Lipi`: scopes, special forms, shared arrays; `Prompt`, with
    proofs. *Done.*
