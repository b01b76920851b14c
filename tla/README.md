# KeyboardAZ: TLA+ models, checks and proofs

KeyboardAZ is an RP2040 macro keyboard (22 main keys, 4 thumb keys) with a Windows
companion application in Go. This directory holds TLA+ models of the parts whose
correctness depends on the order in which things happen, TLC configurations that
check them on small instances, and TLAPS proofs of what holds for every instance.

Run a check with `tlc -config <run>.cfg <module>`, and the proofs with `tlapm <module>.tla`
for each proof module of section 4. `PROJECT.json` maps every definition to the lines it
models and lists the runs, the mutants that show each property can fail, the hazards
and the theorems.

## 1. The system

```
 firmware (src/src, src/include)          companion application (src/go-app)
 keys -> debounce -> thumb arbitration ->  serial.Reader / hidv3 source
         -> v2 lines over CDC, v3 over HID      -> connection.Runtime -> App.handleMessage
                                                 -> appcore / textinput -> handler -> SendInput
```

| Part | State it keeps | Operations | Talks to |
|---|---|---|---|
| `connection.Manager` | state, attempts, next attempt, recovering | BeginOpen, BeginHandshake, MarkReady, MarkLost, BeginAttempt, MarkAttemptFailed, MarkDetached | called by Controller under its own mutex |
| `connection.Controller` | live session, pending handshake events, identity | ConnectExplicit, RecoverOnce, StartRecovery, StartRecoveryIfCurrent, TakeRuntimeBatch, Close | opens transports, calls Manager |
| `connection.Runtime` | one-slot wake channel, stop, event channel | loop goroutine, ConnectExplicit, StartRecovery, Disconnect, Close | pumps Controller's session to the application |
| `CompositeSession` | CDC and HID transport as one session | forward errors, drain diagnostics, Close | a transport to Controller |
| GUI (`main.go`) | window state, history | start-up recovery, Connect, Disconnect, destroy | Runtime, handler |
| Firmware main loop | debounce, thumb runtimes, arming, rate limit, sequence number | sample, press, release, repeat, host commands | CDC line and HID report to the host |
| `handler` | three queues, two workers | HandleAction, scheduleMacro, Close | keyboard back end |
| `layoutedit`, `textinput` | edited configuration, undo/redo, compiled index, file | edit, undo, redo, validate, save | GUI |
| `appcore`, semantic dispatch | language, capture, connection state | SetConnection, dispatch, capture | GUI, handler |
| `serial.Reader`, `hidv3` | bounded channels, last error | readLoop, Close | Controller |
| `telemetry` | counters, last sequence number per stream | ObserveTransportMessageOn | reader, manager |
| `device`, `workspace`, `workspacemigrate` | identity file, directories | load, save, select, migrate | start-up, connect |
| `hilcapture`, `latencyreport`, `tools` | capture files | record, compare | developers |

The hard part is the connection subsystem: three kinds of goroutines (the loop, one per
click on Connect, the window), two mutexes that are never held together across a
transport call, a lossy one-slot wake channel, transports that fail at any moment, and a
shutdown that joins a loop which may be blocked on a channel nobody reads any more.
The firmware is sequential but time-dependent (a press is a tap, a hold, a repeat or a
modifier, depending on what else is pressed and when). The handler has three bounded
queues, two of which block their producers, and the goroutines that feed it are joined
before it is closed. Below the connection, two readers and three forwarding goroutines
share channels that drop or block. The editor and the start-up are sequential: their
hazards are long histories of legal edits, partial failures and crashes between writes.

What makes each part correct:

* connection: a session is owned by exactly one goroutine or by the controller and closed
  once; the events the application sees form an orderly stream whatever happens below;
  no change of session goes unnoticed; a lost device is found again; Close returns.
* firmware: every stroke that was physically made is sent once with the modifier the
  thumbs selected; nothing held across a reset is sent; a tap and a modifier use of one
  thumb press exclude each other.
* input path: what is typed comes in the order of the device's events, no stroke is
  dropped, no key stays down unless Windows refused its release, a captured event is not
  typed, and closing the window
  never hangs.
* editor: undo and redo move over one timeline of drafts; the keys type what the window
  shows; a draft is marked as unsaved exactly when it differs from what the window took for
  stored (the file, once it has saved); the test that runs a command is armed for the selected
  key only (its text may still be edited after the warning).
* files: a crash at any point leaves the old or the new content, or tells of the damage;
  what the user saved is what the next start types with.
* transport: across wraps and announced restarts the counters differ from the losses and
  restarts there were only by what the numbers cannot tell, and by no more than a bound for
  each such case; diagnostics never stall the device; a capture that reports success is complete.

## 2. Modules

| Module | Models | Uses |
|---|---|---|
| `ConnManager` | `connection.Manager`: one operator per method | - |
| `Connection` | Controller, Runtime, the window and the device, at the grain of one critical section, channel operation or transport call per step | extends `ConnManager`, refines `EventStream` |
| `EventStream` | abstract: the stream the Runtime promises | - |
| `MCConnection` | TLC instance and symmetry | extends `Connection` |
| `ConnectionProofs` | theorems: types, wake-ups, ownership of transports, handshake events, refinement of `EventStream` | extends `Connection`, `TLAPS` |
| `Firmware` | the loop of `MacroPad.ino` with `input_debounce.h` and `input_semantics.h`, one handler per step | - |
| `MCFirmware` | TLC instances: which inputs are touched | extends `Firmware` |
| `FirmwareProofs` | theorems: types and the five safety properties | extends `Firmware`, `TLAPS` |
| `Keyboard` | `keyboard_windows.go`: the key events of an action, and what one SendInput does | - |
| `Typist` | abstract: one typist, what the handler promises those who hand it actions | - |
| `ActionHandler` | `handler/actions.go`: two workers, three channels, Close | extends `Keyboard`, refines `Typist` |
| `InputPath` | message processor (`main.go`), `appcore/state.go`, `semantic_dispatch.go`, capture and test of the window, its closing | extends `ActionHandler` |
| `MCInputPath` | TLC instance: the actions | extends `InputPath` |
| `InputPathProofs` | theorems: types, order, keys down, refusals, captures, refinement of `Typist` | extends `InputPath`, `TLAPS` |
| `MacroProofs` | theorems: the keys of a macro and their order, by induction on its nesting | extends `InputPathProofs` |
| `LayoutTimeline` | abstract: one timeline of drafts with a cursor | - |
| `LayoutSession` | `layoutedit.Session`: draft, baseline, two bounded stacks | refines `LayoutTimeline` |
| `ActionSyntax` | `action/action.go`: the values of a key and their form in the window | - |
| `ActionFile` | `action/action.go`: validity and the form in a file, by recursion on the steps of a macro | extends `ActionSyntax` |
| `ActionFileProofs` | theorems: what is written, read and read again, by induction on the nesting | extends `ActionFile`, `TLAPS` |
| `LayoutModel` | `textinput`: layouts, validation, mutations, the compiled index | extends `ActionFile` |
| `Configurator` | the window's side of the editor | extends `LayoutModel`, `LayoutSession` |
| `MCConfigurator` | TLC instance: layouts, imports, typed actions | extends `Configurator` |
| `ConfiguratorProofs` | theorems: the session's refinement; mutations, types, what is shown, saved, read back and warned of | extends `Configurator`, `ActionFileProofs` |
| `LegacyKeymap` | `config/keymap.go`: reading, writing, lookup | extends `ActionFile` |
| `Startup` | workspace, migration, loads and saves of `run`, crashes | extends `LegacyKeymap` |
| `MCStartup` | TLC instance: what the old workspace may hold | extends `Startup` |
| `StartupProofs` | theorems: types, saved layouts, keymaps read back, files kept | extends `Startup`, `ActionFileProofs` |
| `Telemetry` | `telemetry/health.go`: gaps, duplicates, epochs of a stream | - |
| `HidReader` | the device's two streams, the operating system's buffer, `hidv3` | extends `Telemetry` |
| `CompositeSession` | `composite_session.go` over `serial/reader.go` and the HID reader | extends `HidReader` |
| `HilCapture` | `tools/hid-capture` with `hilcapture` over the HID reader | extends `HidReader` |
| `Transport` | the two programs that read the HID stream | extends `CompositeSession`, `HilCapture` |
| `MCTransport` | TLC instance | extends `Transport` |
| `TransportProofs` | theorems: types, telemetry, the capture | extends `Transport`, `TLAPS` |

### Connection

`pc[a]` is the point goroutine `a` has reached. The labels follow the code:

* inside `openAndHandshake` / `installSession` / `MarkReady` (shared by ConnectExplicit and
  RecoverOnce): `open, handshake, probe, failed, install, ready, closeOld`;
* `Runtime.loop`: `top` (TakeRuntimeBatch), `replay` (publishPending), `pump` and `publish`
  and `recheck` (pumpSession), `lost, closeLost, markLost` (StartRecoveryIfCurrent),
  `check` (the read of the manager), `wait, attempt, select, backoff` (waitAndRecover and
  RecoverOnce), `park` (the final select), `done`;
* a click: `idle, begin, beginOpen`, then the shared labels, then `signal`;
* the window: `start, markLost, idle, detach, markDetached, closeOld, signal, stop, join,
  exited`.

`fresh[a]`, `old[a]` and `before[a]` are the local variables that carry a session or a
snapshot over a point where no mutex is held. Events are pairs of a session and a
number; what the device has sent and nobody has read is left open, so a read may find an
event or not. The history variables `onAir` and `played` record what was published.

Abstracted: text, telemetry, the identity and the list of candidates (the choice among
them is "found" or "not found"), wall-clock time (`due` says whether `nextAttempt` has
passed), and the fill level of the event channel (a publish may be delayed for ever
unless the application consumes). A closed session whose name nothing refers to is
reused, so a few names stand for any number of reconnections; `Release` forgets its
history, and `EventStream!Forget` is the same step of the abstract stream.

Why the parts left out do not matter here: the error channel of Runtime drops when full
and is read for display only; `CompositeSession` behaves like one transport, fails when
either half fails and is closed as one (what it does inside is in module
`CompositeSession`); `WriteCommand` changes no state of the host. The handshake and the
order of the two opens are in `Connection`, the readers they start in `CompositeSession`.

### Firmware

A set of inputs stands for an array of booleans: `raw`, `stable` and `previous` are the
three levels of `DebouncedInput`, `down`, `consumed` and `repeating` the flags of
`ThumbRuntime`. `phase` is the place in `loop()`:

| phase | step | code |
|---|---|---|
| `idle` | `Sample` | `sampleInputs`, `updateInputArming`; unarmed goes to `commit` |
| `press` | `handleThumbPress` per edge, then `PressesDone` | `processInputEdges`, first loop |
| `roll` | `RollTap`, then `RollsDone` | `finalizeRawReleasedThumbTaps`, only with a main edge |
| `main` | `handleMainPress` per edge, then `MainsDone` | `decideMainStroke`, `consumePressedThumbs`, `sendStroke` |
| `release` | `ReleaseThumb` per edge, then `handleBackspaceRepeat` | `handleThumbRelease` |
| `commit` | `commitInputEdges` | `commitInputEdges` |

Host commands (`Reset`, `SetLanguage`) come between passes, as `processHostCommands` does.
A contact may be open or closed at any sample, so every bounce is a behaviour.

Time. Ages of contacts are counted in scan periods, since the debounce thresholds and the
roll lead are a few of them and compete with one another. The thresholds in milliseconds
only matter as "passed or not": `guardOver`, `long`, `repeatDue` and `windowOver` become
true at some moment while the code would be waiting. So a hold may pass 300 ms before or
after anything else happens, which is more than the hardware can do and never less.

Abstracted: `pressOrder` is read only to find the thumb pressed first, so the order itself
is kept, as a relation between the thumbs that are down; the error lines, the status line
and the ready beacon; sequence numbers and the failure of a HID send, which change no
decision of the loop; how command lines are assembled from bytes.

History variables, which no step reads: `sent` is the event of the last step, `outcome`
what each press of a thumb was used for, `stale` the inputs held since before arming,
`firm` the thumbs whose contact has not opened at any sample since their press.

### Input path

A select is one step that takes any ready case; a goroutine that is blocked is one whose
step is not enabled. `inputPc` and `backPc` are the places of the two workers, `processor`
that of the message processor, `window` that of the window's goroutine (which also tests
an action and closes everything: `stopped`, then the wait for the processor, then the
handler). `frames` is the recursion of `scheduleMacro`. An injection is one `SendInput`
with a batch of key events, of which Windows may insert only the first few (`Partial`);
the batch of a name nobody knows is empty, and a text is one batch of two events per unit.
`held` is what Windows then sees down, and `refused` the keys whose latest key-up was not
among the events inserted. The other histories are sequences or sets of pairs of a number
and an action: `accepted` and `struck`, the real-time actions as they were accepted and as
the input worker began them; `scheduled`, `queued` and `stepped`, the steps `scheduleMacro`
came to, those it passed on and those the input worker began; `dropped`, what was refused.
`arms` counts the captures armed and `captured` holds the events they took.

Abstracted: an event carries the action the layout gives it; the texts, names and the
operational counters; what the window shows. Details worth knowing, which no property is
about: the key tables are the constant `Resolves`, and a name outside them (the preset
"escape" among them on Windows) or an unknown modifier of a combo is skipped without an
error; a command of a macro is started by the background worker while the key steps
before it still wait in the macro queue; `cancelConfiguratorCapture` has no caller,
although `docs/MODULARITY_AND_CONFIGURABILITY_AUDIT_2026-08-26.md:396` lets Escape cancel
a capture, and an armed capture stays armed when the window leaves the configurator.

### Editor

`Mutate` is the one way a draft changes: validate, push, forget the undone drafts.
`Configurator` gives it the result of one of the mutations of `LayoutModel`. `running` is
the compiled index the resolver answers from, replaced as soon as a draft changes.
`warned` remembers for which key the warning about a command was shown.

The window begins with the layout `run` typed with, as its draft and its baseline. That layout
need not be in the file (`FileAfterStart`): the save of the start may have failed
(`main.go:237-242`), and when before that the load failed, the window shows the default layout
while the file is damaged, missing or unreadable; it carries no mark of unsaved changes, only
the message of the start. `Startup` has these failures, and `Configurator` begins with what they
leave. `written` remembers that the window has saved since. `DirtyMeansUnsaved` says what the
mark then means: before the first save it compares with the layout the window began with,
after it with the file.

A string is a sequence of tokens, as far as the parsers look at it. A profile's bindings
are maps within maps, and `maps` keeps which of them exist: clearing a binding that is not
there may still create an empty map, and so an entry of the history without a visible
change. A name without Latin letters or digits gives an empty id, and the operation an
error. `ReadsBackAsWritten` excludes keys whose name reads as another shortcut ("cmd:x",
"text:x", or a name with "+"): nothing keeps the user from typing one, and the file then
holds another action, or none that can be read. A combo is the string its keys are joined to,
so that one with a "+" in the name of a key, which the file turns into another combo, is not
told from that one. Validity and the forms of an action in a
file recur over the steps of a macro; in `ActionFile` they are functions on the actions and
the JSON of at most `MaxNesting` levels, over strings of `Tokens`, and the proofs take any
number of levels and any tokens. A macro of an import may nest;
`docs/UI_CONFIGURATOR_V2_2.md:133` forbids nested macros, but neither validation nor
the import refuses one. Left out: export, the analysis and its statistics, the search of
presets, the copying of a mode, and clicks that end in an error message.

### Files

`phase` is the step of `run`, in its order. A layout is one action in its written form, so
that what is read back may differ from what was saved; a keymap file is a set of entries,
each of a reference to a layer, a list of buttons by index or by name, and the JSON of an
action. "0" and "00" are one layer, and the reference that is read last replaces the whole of
it (`LastRefs`); of two entries about the same buttons the last one wins (`KeymapsOf`); both in
any order. A layer without entries is left out, also as one that replaces another. The
program writes the names of a combo in the order of the indices; the model leaves the order
open, since reading forgets it. A start writes what it read again, in the short form, and a
key named like another shortcut does not survive that: of `{"type":"key","key":"cmd:x"}` it
makes the string `"cmd:x"`, which the next start reads as a command, or, if nothing follows
the prefix, cannot read. `SavedLayoutComesBack` and `KeymapReadsBack` exclude such keys
(`IsPlain`), and the run has some in its files. A
layout and an identity are renamed into place, a keymap is written in place, so that
`WriteKeymap` and `WriteMigrated` may leave `Bad`. `Ends` is the end of the program or a
crash, at any step. `saved` remembers what the user saved in each root: when the new
workspace cannot be resolved, the old one is used and hides what was saved in the other.
Left out: both roots failing at once, two programs at once, which device a scan finds, and
a stale identity written last by concurrent connects (a failure to save one is only
logged).

### Transport

A message carries the number the firmware gave it; `index` and `boot`, which nothing
reads but the history `heard`, say which messages really were lost. `Hear` keeps, without the
code's own tests, what two messages in a row tell: how many were lost between two of one boot,
and that the device restarted between two of different boots. The two streams have
counters of their own. The operating system keeps `WireCap` reports and drops the oldest
(external), while a line of the CDC stream waits for the host. `open[s]` is FALSE once the
reader of a stream has been told to stop; `portOpen` is the port under the reader's lock.
`Transport` has a variable `program`, since the application and the capture tool are two
executables; a behaviour is of one of them.

Reductions. A device that comes back is another one for the handles that are open, so it
boots only once the session is closed. The checks of `ObserveSendInput` (an unknown number,
a second time, a sample already written) are left out: `TracesAreSamples` says that they
cannot fail, and is proved. `CloseHandle` is assumed to end a pending `ReadFile`, and a write
of a command to return; `Reader.Close` changes the handle under a lock that the read loop does
not take (`source_windows.go:285-299`), a data race of values that are not modelled. `Reopen`
waits until both read loops of the last session have ended. `Close` does not join them, so that in the
program an old loop could observe its last message after the new one its first; such a late
observation is left out.

The HID stream carries no ready, so a restart of the device that the same telemetry
observes there is counted as about 2^32 lost messages; and when messages of a whole cycle of
numbers were lost in a row, the numbers do not tell. These two are all `GapsAreLosses` excludes
(`heard[s].untold`). A restart is announced when the first message heard of the new boot is a ready near the
beginning (`Announces`), whatever the last number was. Of the announced ones the code does not
see all, and sees some that were none (`health.go:151`):

* `hidden`: the ready is not below the last number (ready 1 after ready 1, as in a boot loop). The
  code counts no epoch, but a duplicate, or up to `StartupRange - 1` gaps that were none.
* `mistaken`: after a wrap, a ready of the same boot has a small number. The code counts an epoch
  that was none and forgets the messages lost just before it (`swallowed`).

`GapsAreLosses` accounts for both: the epochs are the restarts less the hidden ones and with the
mistaken ones, the duplicates are at most the hidden ones, and the gaps are the losses less the
swallowed ones, with at most `StartupRange` invented for each hidden restart.
`docs/PARETO_IMPLEMENTATION_PROGRESS_2026-08-26.md:19` gives every stream epochs of its own and does not
say how well they are told.

## 3. Runs

| Run | Checks | Instance |
|---|---|---|
| `conn_safety` | `TypeOK`, `NoLostWakeup`, `OneOwner`, `PendingIsPrefix`, refinement of `EventStream` | 3 sessions, 1 connector, 2 events per session, Degraded after 1 failure |
| `conn_recovery` | `LostSessionRecovered` | 2 sessions, no connector, Degraded after 2 failures |
| `conn_catchup` | `LoopCatchesUp`, `CloseReturns` | 1 session, 1 connector, 1 event |
| `conn_parked` | violates `RecoveryNeverParked` | 3 sessions, 1 connector |
| `conn_ready` | violates `HealthySessionIsReady` | 3 sessions, 1 connector |
| `fw_safety` | `TypeOK`, `OneOutcome`, `NoStuckThumb`, `NoLateModifier`, `NoStaleInput`, `FirmThumbModifies`, `ReleasedKeyboardArms` | RareLanguage, NumberBackspace and one main key; roll lead 1, press 1, release 2 scan periods; 1 event per second |
| `fw_false_shift` | violates `NoFalseModifier` | ShiftSpace and one main key; roll lead 1, press 2, release 3; 2 events |
| `fw_bounce` | violates `HeldThumbStaysDown` | as `fw_false_shift` |
| `input_path` | `TypeOK`, `InOrder`, refinement of `Typist` (`OneTypist`), `NoStuckKey`, `OnlyBackgroundDrops`, `CaptureIsOneShot`, `MacroInOrder`, `BacklogIsWorkedOff`, `WindowCloses` | queues of 1, macros nested one deep, 2 events or tests, 1 capture |
| `configurator` | `TypeOK`, `TypesWhatIsShown`, `DirtyMeansUnsaved`, `WarnedOfThisKey`, `ImportWarns`, `ReadsBackAsWritten`, refinement of `LayoutTimeline` (`OneTimeline`) | 2 languages, 1 key, 1 thumb, history of 1, 2 edits |
| `startup` | `TypeOK`, `SavedLayoutComesBack`, `KeymapReadsBack`, `FilesAreKept` | 2 roots, 3 starts, 2 failed steps, any crashes |
| `transport` | `TypeOK`, `GapsAreLosses`, `CaptureIsComplete`, `ControlKeepsFlowing`, `CloseReturns` | numbers 1..3, the last used being 1, a startup range of 2, channels and buffers of 1, 3 messages per stream or 4 reports of a capture, 1 restart, 1 fault, captures of 2 |

Bounds. Three names are what one connector, the loop and the controller can hold at
once (one being opened by each and one installed), so no interleaving is cut by running
out of names. Two events per session are enough for a handshake event and a live one, in
either order of failure. Two connectors at once are out of TLC's reach for a complete
search; the theorems below cover any number. `conn_catchup` has one name so that its
liveness graph stays small: the loop then waits for the name, but installs, detaches,
wake-ups and the race of a click with recovery all occur.

The thresholds of the firmware runs keep the relations of the real ones (500, 2500 and
4500 us): the lead is no longer than a press, a press is shorter than a release, and in
`fw_false_shift` and `fw_bounce` both strictly. RareLanguage and NumberBackspace are the
two thumbs with behaviour of their own (the language switch, which is not counted by the
rate limit, and repeat); two mode thumbs are what press order needs. One event per second
makes the limit bite at every second event. ShiftSpace is in the two violation runs; the
theorems cover all four thumbs together, any number of main keys and any thresholds.

`input_path`: with queues of one every producer blocks or drops at the second request, and
one event is enough to be overtaken by, captured before or queued behind the other; the
macro holds a command, a combo and a macro that itself holds one too deep. `configurator`:
with a history of one the second edit pushes out the first; imports hold a good layout,
one with a nested command, and one that cannot be read; typed actions include the names
that read as something else, and macros nest two deep (`MaxNesting`), one level more than
the window can type. `startup`: three starts are one that damages, one that reads
the damage or falls back, and one that reads what that one wrote; it stops when the starts
are used up, so deadlock is not checked. `transport`: the numbers start two before the
wrap and the restart begins again at 1, so that wrap, loss, epoch, a hidden restart with its
duplicate and a ready mistaken for a restart, with a loss it swallows, all occur; gaps a hidden
restart invents need a startup range of three and a fourth message, and are covered by the theorem only. Four reports
are a whole cycle and one more, so that a capture sees a number again; a channel of
one is full at once. It stops when the messages are used up or the tool has ended, so
deadlock is not checked either; that nothing hangs is `CloseReturns`.

Fairness (`FairSpec` in `Firmware`): `loop()` runs for ever, and the startup guard passes.
The guard is compared with the clock once a pass, so it is enabled only between passes,
again and again; strong fairness says no more than that the clock goes on. Contacts and
host commands are not fair: the liveness property holds when all keys stay released and
the host stops resetting.

Fairness (`Fairness` in `Connection`): weak fairness of each goroutine and of time, since
Go's scheduler runs every runnable goroutine; a publish is fair only while the
application consumes; `LoopStops` is strongly fair because `select` picks among ready
cases at random, so a closed `stop` channel is not passed over for ever; and the device,
if asked again and again, is found, opened and answers (`SelectCandidate`, `Open`,
`Probe` strongly fair). The last is an assumption about the world: without a device
nothing recovers.

Fairness (`Fairness` in `InputPath`, `FairSpec` in `Transport`): weak fairness of each
goroutine of the program, because Go runs what can run; in `Transport` also of the write of
a command, which the driver ends. Nothing is assumed of the device, of the user or of the
capture tool: no event has to come, and the window need not be closed.

### What the violated properties show

* `RecoveryNeverParked`. The loop looks at the manager once. If a click on Connect has
  put it in Opening, the loop parks on the wake channel. When that click fails,
  `ConnectExplicit` puts Reconnecting back and returns the error without `signalWake`:
  the device is due for recovery and nobody will probe for it. `manager.go:153` says that
  recovery never gives up permanently.
* `HealthySessionIsReady`. `ConnectExplicit` decides how to undo itself from a snapshot
  taken before the probe. If recovery has installed a session in between, the failing
  click calls `MarkLost`: the controller owns an open session, the manager says
  Reconnecting and the window shows no connection. `controller.go:172` says that a
  failed switch leaves a healthy session untouched.
* `NoFalseModifier`. A thumb's contact opens 2 ms (the release filter minus the press
  filter) before the next main key closes. Both edges appear in one pass.
  `finalizeRawReleasedThumbTaps` skips thumbs whose filtered level has dropped
  (`MacroPad.ino:461`), the main press comes before the late releases, and the stroke
  carries the modifier of a released thumb; the tap is lost, because the thumb is
  consumed. One scan earlier or later the tap and an unmodified stroke are sent. The
  comment at `MacroPad.ino:453` promises the latter. The code compiled natively with the
  same timing behaves as the model does. `NoLateModifier` is what does hold: this pass is
  the only exception.
* `HeldThumbStaysDown`. A contact of a held thumb opens for the roll lead (0.5 ms) just
  when a main press settles. The thumb is finalized as a tap although its filtered level
  never drops; when the contact closes again there is no press edge, so for the rest of
  the hold it modifies nothing. The comment at `MacroPad.ino:509` says a transient bounce
  does not become an early tap. `OneOutcome` and `FirmThumbModifies` say what remains: the
  press still has one outcome, and a thumb without a bounce always modifies.

## 4. Proofs

### Connection

`ConnectionProofs` proves, for every set of sessions and connectors, every
`DegradedAfter` and `MaxEvents` (assumptions `DegradedAssumption`,
`ConnectionAssumption`):

* `TypeCorrect`: `Spec => []TypeOK`. `TypeOK` is inductive because it also says where a
  goroutine must have a session in hand (`Opening => fresh`, `Serving => loopSession`).
  The proof handles the manager's four variables through `ManagerStep`, the disjunction
  of its methods, and the rest action by action.
* `WakeupNeverLost`: `Spec => []NoLostWakeup`. The invariant is inductive relative to the
  types. `Undisturbed` covers every step that leaves the session, the token and the
  signals due as they are; the other steps either make the loop look again, put the
  loop on the owned session, or create a signal that is due.
* `OneOwnerAlways`: `Spec => []OneOwner`. `OneOwner` alone is not inductive: a goroutine
  could overwrite a session it already holds, or one not yet closed by it could be
  unused. `Ownership` adds that a session somebody holds is live, and that `fresh` and
  `old` are filled only at the labels where the code has such a local variable.
* `PendingPrefixAlways` (`Spec => []PendingIsPrefix`) and `StreamImplemented`
  (`Spec => StreamSpec`), both from the inductive invariant `StreamInv`. It says where the
  events of each session are: none was published of a session the loop has not taken
  (`Unplayed`); the controller holds all handshake events of a session the loop has not
  taken and none of one that it has (`PendingInv`); of the loop's session, what was read
  is what was published plus the batch (`LoopInv`); and the batch is the next stretch of
  that session (`BatchInv`). It needs `Ownership`: a session that a goroutine is opening
  must not be the one the loop or the controller has. With it each `publishMessage` is
  `EventStream!Publish(loopSession)`, closing and forgetting a session is
  `EventStream!Forget`, and every other step is a stutter.

### Firmware

`FirmwareProofs` proves for every set of main keys, every choice of touched inputs and
all thresholds with `Roll <= Release` and `Press <= Release` (`FirmwareAssumption`) the types and the five
safety properties of `fw_safety`. `FirmwareInv` is the inductive invariant; beside the
types it has four parts:

* `Position`: what each phase has left to do and which thumbs can be down in it. In `main`
  no thumb that is down has been open for the roll lead while its filtered level is
  closed (`RawReleased = {}`), because `roll` has handled them all. `NoStuckThumb` is the
  part for `idle`; `NoLateModifier` follows from the part for `main`.
* `Contacts`: an edge agrees with the raw level of the same sample, so neither a roll tap
  nor a release ever takes down a thumb whose contact has been closed throughout
  (`firm \subseteq down \cap raw`); and nothing is stale once armed. The latter gives
  `NoStaleInput`.
* `Ordered`: the press order is irreflexive and transitive, so among the modes that are down
  there is a first one (`FirstModeSelected`). With `Contacts` it gives `FirmThumbModifies`.
* `Remembered`: the flags of a thumb that is down tell what it was used for, and a thumb with
  a press edge was used for nothing yet. It gives `OneOutcome`, which is not inductive
  by itself: without it a thumb could be pressed while the last press is remembered.

`SentByStep` says which event each step sends; the three properties of events rest on it.

### Input path

`InputPathProofs` proves, for every set of actions and events, every capacity and nesting of
macros, and whatever part of a batch Windows inserts, the types, the safety properties
of `input_path` about the order, the keys, the refusals and the captures, and that the handler is one
typist (`OneTypist`). Assumed of the
constants (`HandlerAssumption`, `InputPathAssumption`): the queues hold at least one
request, an action has one of the five types, a combo names a key, the steps of a macro are
actions, and an event carries an action or none. The inductive invariant is `PathInv`:

* `OrderInv`: the histories are sequences, and the two halves of `InOrder`. These are
  inductive together with the types because they are equations: what was accepted is what
  was begun, followed by what is queued; what was passed on is what was begun, followed by
  the step in hand and the queue. An overtaking step changes one equation only.
* `KeysInv`: the injections still to make release what they press, each in its own batch or a
  later one (`Released`), and every key that is down and was not refused comes up in one of
  them. `ActionReleases` derives the first from the form of a key, text and combo. It gives
  `NoStuckKey`, which is not inductive: it does not say that the key-up is still to come.
* `ClosingInv`: the processor has ended before the handler is closed, hence
  `OnlyBackgroundDrops`.
* `CapturesInv`: whatever is in a queue, in hand or in a history was let pass (`HandlerPassed`),
  and as many captures were armed as events were captured, one more while one is armed. It
  gives `CaptureIsOneShot`.

`TypistImplemented` (`Spec => OneTypist`) relates the code to `Typist`: `strokes` is the queue of
real-time actions; `steps` the queue of macro steps with the step in hand in front, so that to take
a step changes nothing yet; `typing` the action being executed; `passed` holds while a stroke is typed
with a step in hand; `down` the keys that are down and whose key-up was not refused. Each step of either
worker, and each call of `HandleAction`, is one step of the typist or none (`InputStepTypes`, `BackStepTypes`,
`CallTypes`). It rests on `KeysInv` twice: an action begins when no injection is left to make, so nothing is
down (`NothingDown`); and while one is executed what is down is among its keys (`DownIsMine`). What the
equations of `InOrder` do not say, and the typist does: which of the two goes first when both wait,
that a step is passed by one stroke at most, and that no action begins under the keys of another.

`MacroProofs` proves `MacroInOrder`, from the same assumptions and `PathInv`: what of a macro reached the queue
is what `Leaves` makes of it, cut off where it is being worked on. Two things are missing in
`MacroInOrder` itself, and `MacroInv` adds them:

* `WorkInv`: what was scheduled of the request in hand, followed by what its stack of frames
  still has to do (`Todo`), spells the whole macro (`Spelled`). A frame that is opened or
  ended leaves this sum as it is, and a step moves from one side of it to the other. What was
  passed on is the part of it that are keys (`Keys`).
* `NumbersInv`: a number names one request, so the entries of the history that have its number
  are all of that macro; none waits twice, and none that is on its way was begun before.

`Leaves` is defined by recursion on the depth, and the theorem of induction in the library
has an operator as its parameter. The proof takes the set of the depths for which a lemma
holds and derives from the well-foundedness of the naturals that it is all of them
(`NatSetInduction`); the facts about `FlattenSeq` are proved in the same way.

### Editor

`SessionIsOneTimeline` (`SessionSpec => OneTimeline`): for every
history limit and whatever the session accepts as a draft, the two stacks are one
timeline with a cursor. The invariant `SessionInv` says of some set of layouts that all drafts
are in it, and that the two stacks *together* never exceed the limit: without this an undo
could push a draft out of the full redo stack, and the timeline would lose one the user can
still ask for. `HistoryInv` leaves the set open, because the layouts that are valid are no
set; each step widens it by the new draft (`LayoutsOfStep`). Each mutation is an
`Edit` or a stutter, undo and redo move the cursor (`MutateIsEdit`, `UndoMovesCursor`,
`RedoMovesCursor`), a revert and a save follow from the empty stacks.

`ConfiguratorProofs` proves for every set of languages, modes, buttons, thumbs, imports, names
and typed actions, and any nesting of macros:

* `WindowIsOneTimeline` (`Spec => OneTimeline`): every click is a step of the session or leaves
  it, so the refinement carries over to the window.
* `MutationsKeepLayoutsValid`: what `SetBinding`, `SetThumbTap`, `ActivateProfile`,
  `RenameProfile`, `DuplicateProfile` and `DeleteProfile` make of a valid layout is valid or an
  error, so the validation in `mutate` never refuses what they made.
* `BindingIsExact`, `ThumbTapIsExact`: an assignment changes the answer for one key, or one tap, of one profile
  and nothing else, so no stroke of another profile changes unseen. `TypesTheSame`: the compiled layout answers
  as the active profile does, and a copy of it, a new name and the deletion of another profile leave every
  stroke as it was. All rest on what `Rebind` and `WithProfile` make of a map (`RebindIs`, `WithProfileIs`).
* The types, `TypesWhatIsShown`, `DirtyMeansUnsaved` (with any of the files a start may leave) and
  `WarnedOfThisKey`, from the inductive
  invariant `ConfiguratorInv`: the history, a clipboard that is empty or valid, and a
  selection whose profile exists in the draft. The selection is what the others lean on:
  an undo, an import or a deletion may remove the selected profile, and `LoadSelection` then
  moves to the active one, which exists because drafts are valid. These theorems assume
  `SessionValidates`, that what the session accepts is a valid layout; in the code, and in the
  run, it calls `ValidateLayout`. `ImportWarns` is inductive by itself and needs no assumption.
* `ReadsBackAsWritten`, from `PlainReadsBack` below.

`ActionFileProofs` proves what the conversion of an action to JSON and back does, for all tokens,
strings and levels of macros: what is written is JSON (`WrittenIsJSON`); what is read, of any
JSON, is valid or an error (`ReadIsValid`); a plain action is read back as it was
(`PlainReadsBack`); and what is read of a written one is plain or an error
(`RereadIsPlain`), so that one start brings every file to a form that stays. The proofs go by
induction on the level, with sets of numbers as in `MacroProofs`. A recursive function hides a choice
(`CHOOSE`), so for each of the functions it is proved first that one with its equation exists
(`WritesExists`, `ReadsExists`, `TowerExists`) and then that any two agree
(`MarshalAgrees`, `UnmarshalAgrees`). Assumed are the marks among the tokens (`TokensAssumption`), and
that the error is no action (`NestingAssumption`), as it is in Go.

### Files

`StartupProofs` proves the four properties of `startup` for every number of starts and failed
steps, any content of the old workspace, any layouts the user saves and any number of
buttons. `StartupInv` is the inductive invariant: which workspace a phase is in (`PhaseInv`); which
layouts a file can hold (`LayoutsInv`, whose part for the new workspace is that of `TypeOK`); a
layout about to be saved at the start is the one in the file (`LoadedInv`), so that the save
at the start cannot replace the user's; what the user saved is in the file (`SavedInv`); and a
keymap saved without an error is the one in memory, with entries that parse
(`KeymapsInv`). `KeymapReadsBack` then rests on `WrittenKeymap`: of a written keymap `ParseKeymap` has
one result, the keymap itself, although entries are read in any order, because every layer is
written under one reference and no two written entries are about the same buttons
(`NameRefsAre`, `EntryOfIs`). `FilesAreKept` follows step
by step (`LayoutStep`).

What an action is after it was written and read is proved (`ActionFileProofs`), not assumed. What is
assumed of the constants says what the program can be given: the user saves valid layouts, and
a file that parses holds JSON (`LayoutsAssumption`, `KeymapsAssumption`); a file that is missing or
damaged is told from one that is not; and no device is called as the damaged file is
(`IdentitiesAssumption`). TLC evaluates them for the values of the run.

### Transport

`TransportProofs` proves for every range of numbers, all capacities, any number of messages,
restarts and faults and captures of any length the types, `GapsAreLosses` and
`CaptureIsComplete`, and `TracesAreSamples`, which justifies that the checks of
`ObserveSendInput` are left out of the model. `TransportInv` consists of the types and of two parts:

* `NumbersInv`, for each stream: what the firmware numbers, what is on its way and what was
  heard last are three places of one count, so the distance of two numbers is the distance of
  the messages unless a whole cycle lies between them (`Count`, `OnTheWay`, `Follows`); and
  the counters are what `GapsAreLosses` says (`Accounts`). The proof splits a step by what is
  heard: another message of the boot, taken for a restart or not, and the first one of a new
  boot, below the last number or not. In the last case the distance of the numbers is at most
  `StartupRange`, which bounds what a hidden restart can add.
* `CaptureInv`: the samples taken, those in the channel and the one in the reader's hand are all
  that were observed (`Pipeline`); a sample has one number, and a trace that is queued is of
  a sample that types and was not timed (`Traces`); the tool reports success only
  after the limit was reached, all was written and every sample that types was seen sent
  (`Finish`).

Before each proof the invariants were checked by TLC on the instances of the runs.

### Only model-checked

* The liveness properties (`LostSessionRecovered`, `LoopCatchesUp`, `ReleasedKeyboardArms`,
  `BacklogIsWorkedOff`, `WindowCloses`, `ControlKeepsFlowing` and `CloseReturns`): they rest on
  fairness, which is outside the reach of the prover.
* The four violations, which are counterexamples.

## 5. Plan

Done: every part of section 2 is modelled and checked, and every safety property of the runs
that pass is proved for all values of the constants. Left for later:

* The discovery of devices and the choice by identity, which are a free choice now.

## 6. Not modelled

* Latency reports and developer tools (`latencyreport`, `tools/latency`, `tools/devloop`): batch
  arithmetic and scripts without state that outlives a call.
* The tray (`tray_windows.go`): calls of the window system.
* The views of the window, the list of ports, the history it shows and the snapshots behind
  them: display only, refreshed by a ticker every second; no decision is taken from them.
* The line formats of the first and second protocol and the layout of a report: pure
  conversions; the models let the host accept or reject any message instead.
* Discovery of devices and of the HID interface: a free choice of "found" or "not found".
* Percentiles of waiting times and the error counters of `telemetry`: they feed no decision.
* Commands of a macro after they are started, and what Windows does with the keys.
