# Formal models of neopatch

neopatch is a set of DLLs, one per game, that load into the Windows process of
a Touhou game and replace parts of its environment: the Direct3D device runs
on Direct3D 9Ex, frames are paced, windows, input, screenshots, logging and
crash reports are neopatch's own, and a few of the game's own settings are held
at fixed values.  Nearly all of the logic is in `neopatch_core`; the per-game
crates hold tables of addresses, byte patches and the choice of what to install.

This directory holds TLA+ models of that logic, configurations that check them
with TLC on small instances, and proofs of their properties for all values of
the constants, checked with TLAPS.  Contents of this file:

1. Inventory: the parts of the system and what makes each correct
2. The modules and how they correspond to the code
3. The runs: what each shows, its bounds, why they are enough
4. Fairness and deadlock
5. What is proved, and how
6. Where code and documentation disagree
7. What is not modelled
8. Plan

## 1. Inventory

All code of a game runs on one render thread, except where the table of hard
behaviours says otherwise: overlays and capture tools (foreign code in the same
process) create devices and patch vtables on any thread, DirectInput objects may
be created on any thread, faults and the console's Ctrl-C arrive on their own,
and several games may run as separate processes with one log directory.

| Part (file) | State | Operations | Interacts with |
|---|---|---|---|
| D3D8 translation (`d3d8.rs`) | wrappers with a game-facing count, a D3D9 object and a backpointer; per device the shadowed index binding and the list of state blocks; the token sequence | Create*, AddRef, Release, getters, GetBackBuffer (adopt), SetIndices, Reset, state blocks | calls the D3D9 entry points that `d3d9.rs` hooks |
| Creation and reset ladder (`d3d9.rs`) | the session's policy, the format of the live back buffer; per call the request, an adapter snapshot and the attempts | CreateDevice, Reset, format and rate selection | `session.rs` on success, `pacer.rs` for paced sessions |
| Device session (`session.rs`) | the game's `IDirect3D9Ex` and device: one mirror (address) and one pin (reference) each; the render thread's id | record, unpin, the gates every hook asks | every D3D hook |
| Vtable hooks (`vtable.rs`) | the captured original of each slot; a pool of originals for slots in several vtables | intercept, intercept_indexed, capture | the slots, shared with the defining DLLs and with other tools |
| Frame pacer (`pacer.rs`) | policy, period, deadline | wait, apply_policy | driven by `hook_present` |
| Replay probe (`replay.rs`) | the latched replay mode | classify held keys, report a change once | changes the pacer's policy |
| Frameskip pin (`cfg_pin.rs`) | the cfg's description, the pinned value | hooks of ReadFile and WriteFile | the game's cfg file, also written by custom.exe |
| Cfg overrides and frame loops (`patches.rs`, `state.rs` of th06, th07, th08, th095) | the player's settings as they were found, the keys observed | override at load, restore at save, draw behind calc, observe the input | the game's memory, the ladder, the pacer |
| Import hooks (`iat.rs`) | registry of installed slots, audit latch | install, audit | other tools that patch imports |
| Code patches (`patches.rs`, `game_addr.rs`) | the patch sites | verify, write, read back | the game's image |
| Window (`window.rs`) | main window, the windows already styled and titled | creation, window procedure, centring, quit | console, screenshots |
| Screenshots (`screenshot.rs`) | a pending capture | request, copy at the next Present, atomic write | `hook_present`, file system |
| Log sessions (`log.rs`) | session directory, log file | choose a root, claim a directory, retention | other processes that log to the same root |
| Crash handling (`crash.rs`) | reentrancy latch, dump sequence | vectored and unhandled handlers | log, any faulting thread |
| Process exit (`exit_hooks.rs`, `console.rs`, `process.rs`) | quit flag | hooks of ExitProcess and message boxes, Ctrl-C | log, timer, window |
| Input (`input.rs`, `dinput8.rs`) | pooled originals | GetDeviceState, POV to axes | vtable hooks |
| Timer resolution (`timer_period.rs`) | one request at the start | suppress the game's own | exit |
| Configuration (`config.rs`), codepage hooks (`ansi.rs`) | constant after start | parse; convert per call | everything |
| Memory access (`protect.rs`, `untrusted.rs`, `modules.rs`, `thread.rs`) | count of open write windows | guarded reads, write windows | all hooks |
| Shims (`d3dx9.rs`, `gdi_caps.rs`) | none | forwarding | |
| Startup dialogs (`dialog_dismiss.rs` of th10 and later) | the button to answer with, whether the dialog is to be hidden | answer in the player's place | the game's dialog, the window policy |
| Per-game crates | tables | attach in `DllMain`, byte patches | everything |

What is hard about them, and what makes them correct:

- **D3D8.**  COM objects may be released in any order, in any number, also after
  their death; two layers of counts (the game's on wrappers, the wrappers' on
  D3D9 objects) must agree.  D3D9 calls may re-enter the wrapper.  *Correct* when
  counts match on both layers, nothing dangles or leaks, dead wrappers stay dead
  and the shadowed binding is D3D9's.
- **Ladder.**  Any attempt may fail, for good or transiently; the struct being
  rewritten belongs to the game.  *Correct* when the game sees one call that
  failed without a trace or was granted up to the documented substitutions.
- **Session.**  Foreign threads and allocators act between the steps of `record`;
  creation may be refused after the old pin is gone.  *Correct* when a recorded
  address always means the game's object and references balance.
- **Vtable slots.**  Other writers come and go between visits, threads visit at
  once.  *Correct* when calls arrive, pass our hook once, and no tool is cut off.
- **Pacer.**  Work and sleeps of any length, changes of rate.  *Correct* without
  drift, overtaking, or unbounded catching up.
- **Frameskip pin.**  Partial installation, failing identity queries, torn
  writes, crashes.  *Correct* when the file never shows that it is there.
- **Attachment.**  Another program may write the game's code, any write or hook
  may fail, and tools bind the same imports before and after.  *Correct* when
  the patches are all in or none is, calls arrive, and the timer resolution
  stays what it was pinned to.
- **Window.**  Windows come past the hook, handles are recycled, creations fail
  halfway.  *Correct* when the policy is in force once the game has its device,
  and what is on screen is what the game put there.
- **Screenshots.**  The capture is taken a frame after it was asked for, and each
  step of writing it may fail or be the last.  *Correct* when it shows the
  context it was asked for in, and no file is torn.
- **Log retention.**  Several games name, claim, list and prune directories of one
  root at once.  *Correct* when none takes what another has just claimed, and
  when the newest sessions survive.
- **Logging, faults and exits.**  A thread may fault in the middle of a line or of
  a report; Ctrl-C and the exit hooks come on top.  *Correct* when nobody waits
  for good, nothing logged about a fault is lost, and a swallowed Ctrl-C is one
  that was passed on.
- **Old games' settings.**  What is forced in memory must not get into the file,
  also after a change of options in the game.
- **Startup dialogs.**  The game remembers its last start in places that differ
  from game to game.  *Correct* when the game starts as the file says, window and
  device included, and never waits behind a hidden dialog.
- **Pad.**  Interfaces and devices are created in any order, vtables are shared,
  visits may be refused.  *Correct* when the hat steers on every joystick that
  the game got through an interface it asked for.

`PROJECT.json` lists each hazard at the line where it bites, with the properties
that cover it.

## 2. The modules

| Module | Models | Kind |
|---|---|---|
| `D3D8Wrappers` | `d3d8.rs`: lifetimes, binding, state blocks | detailed |
| `IndexChannel` | what Direct3D 8 promises about indexed draws | abstract, implemented by `D3D8Wrappers` |
| `FixLadder` | `d3d9.rs`: CreateDevice and Reset | detailed |
| `DeviceCall` | one creation or reset as the game sees it | abstract, implemented by `FixLadder` |
| `DeviceSession` | `session.rs`, with the hooks that record | detailed |
| `Window`, `Screenshot` | `window.rs`; `screenshot.rs` | detailed, composed by `Frame` |
| `Frame` | the hooks of `d3d9.rs` in which those two meet | composition |
| `HookSlots` | `vtable.rs` and the write window of `protect.rs`, with the other writers of a slot | detailed |
| `PadInput` | `input.rs`, `dinput8.rs` | detailed |
| `Pacer` | `pacer.rs`, `replay.rs`, the part of `hook_present` that drives them | detailed |
| `CfgPin` | `cfg_pin.rs` | detailed |
| `VanillaCfg` | a game and its cfg file without neopatch | abstract, implemented by `CfgPin` |
| `OldGame`, `Th06`, `Th07`, `Th08`, `Th095` | the crates of the oldest games, in common and each | detailed, composed by `OldGames` |
| `StartupDialog` | `config.rs` and the `dialog_dismiss.rs` of th10 and later | detailed |
| `Attach` | `install_hooks`, `patches.rs`, `iat.rs`, `timer_period.rs` | detailed |
| `LogSession` | `log.rs`: roots, claims, retention | detailed |
| `ProcessState`, `ProcessLife` | `crash.rs`, `console.rs`, `exit_hooks.rs`, the event layer of `log.rs`: what they keep and promise; what they do | detailed, with fairness |
| `MCD3D8Wrappers`, `MCFixLadder`, `MCFrame` | model values, inputs and symmetry for TLC | |
| `MCProcessLife` | `ProcessLife` with a bound on what comes from outside in all | for TLC |
| `MCHookSlots`, `MCSettings` | several families of behaviours in one state space | composition, for TLC and for proofs |
| `*_proof` | theorems and proofs | |

Each detailed module also defines faulty variants of some of its operators
(`WakeEarly`, `DoomedNewest`, ...), commented with the slip in the code that they
stand for.  Nothing in a specification uses them; substituted for the operator
they stand beside, each makes one of the checked properties fail, which shows
that the property depends on that piece of the code.  `PROJECT.json` names the
pairs, and maps every definition to its lines.

**D3D8Wrappers.**  `refs` is the game-facing count (`WrapperState`, 0 when Dead),
`inner` and `dev` the fields of `Resource8`; `ref9` counts the references that
wrappers and state-block nodes own on D3D9 objects, `held` the ones the game
still has to release.  `bound9` and `bb9` are D3D9's own state; `shadow`, `blk`
and `seq` are `Device8.indices`, the `SbNode`s and `SB_SEQ`.  One action per
method.  `Release` includes the whole cascade: the wrapper's own D3D9 reference,
the owner's count, the owner's death with its state blocks, and the interface's.
`ApplyStateBlock` and `CaptureStateBlock` are two steps each, with creations and
deletions possible between, since D3D9 may re-enter (the code copies the node out
before, or looks it up again after, for that reason).  D3D9 may hand a freed
address out again.

**FixLadder.**  A call is `Enter`, then one step per attempt that comes back
(`Succeeds`, `NullOnSuccess`, `Fails`); `tried` is the history.  `pp` is the
game's struct, overwritten before every attempt as in `materialize`.  The adapter
is sampled in `Enter` (`AdapterSnapshot::capture`), for the formats the ladder may
come to ask for.  `PassReset` is the early return of `hook_reset` when the
device's parent cannot be queried.

**DeviceSession.**  `record` is three steps, `Pin`, `Publish`, `Unpin`, because
hooks on other threads read the mirror in between; `hook_create_device` is
`BeginCreateDevice` (with `device_creating`), then `DeviceCreated` or
`CreationFails`.  Addresses are memory: `owner` says whose object lies there, an
object dies with its last reference, and its address may then become a foreign
object's.  `held` and `ours` are the creator's and neopatch's references.

**Window, Screenshot, Frame.**  A window is its style bits, band, place and size;
`CreateHooked` is `hook_create_window_ex_a` with `prep_main_window`, and
`CreateUnhooked` the same call past our hook.  `main`, `styled` and `titled` are the
three statics that remember a handle.  `popups` is history: a frame of ours may make
a window a popup as well, and only one that the game made so is left its frame and
place (`InForce`).  `Restyle` and `Restore` bracket the creation
of a device, which in `Frame` is two steps (`AsksForDevice`, then
`GetsDevice` or `CreationFailed`), with the game and the system acting between.
A save of a screenshot is one step per file operation; `tmp` and `dest` are what
is on disk and survive `Restart`.  `job.own` is history: whether the frame shown
is of the context that asked for it.

**HookSlots.**  A visit opens the write window and reads the slot (`Read`), decides
(`Decide` with the single original of `intercept`; `Look`, `Claim`, `Take`, `Store`
with the pool of `intercept_indexed`), writes (`Write`) and puts the protection
back (`Close`); anything may happen between.  `Call(v)` follows a call through
tools and hooks, each forwarding to what it displaced.  A tool hooks a slot once
(it has room for one original) and puts back what it displaced, whatever is there
by then; a DLL may re-point its own entry.

**PadInput** is the client of the pooled vtables: the exported
`DirectInput8Create`, the hook of `CreateDevice` in the vtable of an interface,
the hook of `GetDeviceState` in that of a device.  To it a visit is one step
(`Visit`) that succeeds or leaves the slot alone.  `Convert` is `convert_pov`, in
the driver's hundredths of a degree.

**Pacer.**  The clock ticks by itself; `Present` is one run of `hook_present`,
which either lets the frame through (`Unpaced`, `Resync`, `Behind`) or goes to
sleep (`Ahead`) until `Wake`, at or after the target: how the timer and the spin
share the wait does not matter.  The history variables remember the last resync
(`anchor`), the frames since, and the run of frames that did not sleep.

**CfgPin.**  A life of the process is `Install`, `HookRead` or `ReadFails`,
`Validate`, changes of options, `HookWrite`, `End`; it may end anywhere and start
again.  What the system answers when asked for a handle's file is chosen in each
hook (`Identity`), also for other files of the same size and magic
(`HookReadOther`).  The image keeps three aspects: whether it is a current, an
outdated or an otherwise rejected one, its frameskip, the rest.

**OldGame and the four crates.**  Each crate has its own copy of this code, and a
module of its own that says which parts it has: th06 and th07 restructure their
frame loop, th06 also reconciles the format the game keeps of its device, th08
only observes the input, th095 overrides settings alone.  `pinned` is
`PINNED_CFG`, `observed` is `OBSERVED_INPUT`; `player`, `toggled` and `polled` are
history.  The thresholds of the auto-focus counter are scaled down with their
order kept.

**StartupDialog.**  A start is: the file is parsed (`Parse`, with the recursive
function `ReadLines` over lines that may be out of place or unreadable), the window policy derived, the game's dialog
answered by the crate's hook (one action per game), and the game's own reading of
what the dialog left (`StartGame`, external).  `memory` holds what the games keep
of their last start, and begins as anything.

**Attach.**  The steps of `DllMain` in the order of the code: the check of all
patch sites, a write and a verification for each, the timer request, the imports
one by one.  `code` is shared with another writer; `slot`, `original` and `tool`
are what a call of an import walks through (`Reaches`), and `tracked` is the
registry of the audit.  `BeginFrame` and `EndFrame` are the game's own timer calls.

**LogSession.**  `init` of each process, one step per access to the file system;
the file system (`disk`) outlives processes, which may be killed between any two
steps and launched again with a process id or a second that was used before.
Listing is one step, and each removal is one that may fail.  The code sorts the
names of directories as text, so among sessions of one second a process id stands
for its rank in that order ("10" comes before "9").

**ProcessLife.**  A thread is a stack of activations: a line being logged, a
handler on top of the line that faulted, a line of the handler's report.  The
writer mutex (`writer`), the per-thread guard against logging in a line
(`inEvent`) and the latch (`inFilter`) are the code's.  `cache` is what was
written but not committed; `FlushReport` and the exits commit it.  The system runs
the console handler on a thread of its own for each event; the handler reads its
flag (`CtrlFirst`), posts (`CtrlPost`) and sets the flag (`CtrlPosted`) in three
steps, between which the handler of another event may do the same.

**Composition.**  `D3D8Wrappers`, `FixLadder` and `CfgPin` are composed with their
abstract counterparts by `INSTANCE ... WITH`; the mapping is the interesting part:
in `FixLadder` the game's parameters are the request as long as a call is in
flight; in `CfgPin` the game's copy is the real one with a forced 0 replaced by
the pin; in `D3D8Wrappers` a pair consists of D3D9's buffer and the wrapper's base
index, which are in different places.  `Pacer` models `pacer.rs` and `replay.rs`
together, because a mode change must reach both in one frame; `Frame` puts the
window and the screenshots into the calls that drive both; `OldGames` launches one
of four crates on the same file.  The other detailed modules share no variables:
a successful `FixLadder` call is the `DeviceCreated` or `ResetSucceeds` of
`DeviceSession` and the `GetsDevice` of `Frame`, and its `Reset` that of
`D3D8Wrappers`; the policy that `StartupDialog` derives is the one `Window` takes as a constant.

## 3. The runs

| Run | Bounds | Distinct states | Shows |
|---|---|---|---|
| `attach` | two patch sites, four imports, one tool each, two requests | 763 000 | patches are all in or none is, calls arrive, the resolution holds |
| `d3d8_refs` | one device with its embedded back buffer, two more wrappers, three D3D9 objects, counts to 3 | 935 000 | counts agree on both layers, nothing leaks or revives |
| `d3d8_blocks` | one index buffer, two base indices, two state blocks, token space of 3, sequence to 4 | 1 890 000 | the shadow is the binding through re-entrant deletion and reset; tokens are fresh; implements `IndexChannel` |
| `device_session` | two interface and three device addresses, two threads | 44 000 | recorded addresses mean the game's objects; references balance |
| `fix_ladder` | seven rates, nine requests, four adapters, twenty sessions | 93 000 | only real modes are asked for; implements `DeviceCall` |
| `frame` | two windows, eight policies, one device, one file | 1 945 000 | the policy is in force, the screen is the game's, captures belong, files are whole |
| `hook_slots` | two plain and two pooled vtables, a pool of two, two tools, a thread beside the render thread; two pads | 2 181 000 | calls arrive, pass our hook once, no tool is cut off on plain vtables, the hat steers |
| `hook_slots_race` | one pooled vtable, two threads, two tools | | a disagreement, section 6 |
| `log_sessions` | two process ids, two seconds, four launches, one root, two sessions to keep | 331 000 | claims and the newest sessions survive, the budget holds |
| `pacer` | 15 ticks a second, rates 3, 0 and 2, threshold 5, 28 ticks | 113 000 | no drift, no overtaking, bounded catching up |
| `process_life` | two game threads, two console threads, two faults and two console events, three of these together | 319 000 | the latch is released, logs are durable, a swallowed Ctrl-C was posted, every handler returns |
| `settings` | frameskips to 3; three lines of `neopatch.ini`; every game | 705 000 | `CfgPin` implements `VanillaCfg`; the oldest games' file and device; the dialogs |

Why the bounds are enough to be interesting:

- *attach*: the imports are one of each sort: the two timer calls, one whose hook
  forwards, one that call sites reach past the import table.  Two sites are what
  a half-patched image needs.  The tool of an import may bind it before or after
  us, and forward to what it found or past it.
- *d3d8_refs*: three objects let the back buffer change twice while the game holds
  the old one; two further wrappers are a texture and its level, or two children
  whose releases interleave with their device's.
- *d3d8_blocks*: tokens are multiples of 2 modulo 3, so within four draws the
  sequence passes 0 (which must be skipped), wraps, and meets a live token.  The
  real space is 2^32 with another factor; the code uses nothing of it but modular
  arithmetic.  Two blocks are what a collision needs.
- *fix_ladder*: the requests contain a magic rate, rates that the adapter has
  and has not, formats that are upgraded, replaced for scanout, left
  alone or left to the runtime; the adapters one that reports nothing, ones that
  list a magic or a 59.94 Hz rate, and ones whose desktop rate cannot be read.
  Settings cover every pick, `Fixed(1)` included.  A ladder has at most four
  attempts, each with every outcome.
- *device_session*: a third device address lets an old device, its replacement
  and an overlay's device exist at once, with one of them recycled.
- *frame*: with two handles one is recycled while the other is remembered, and a
  child can get the handle of a dead main window.  A second file would be a
  second, independent copy of the first.
- *hook_slots*: two tools are what it takes to build a loop out of slots given
  back in the wrong order; a pool of two with two threads can be exhausted by a
  race on one vtable.  A behaviour is about the plain vtables, the pooled ones
  or the pads: the families share nothing but the tools.  The hat takes the
  values on both sides of every boundary of `convert_pov`, and what a driver
  reports for a hat at rest.
- *log_sessions*: with two seconds and two ids, sessions share a second, names
  repeat, and the clock goes back; keeping two of up to four is where retention
  starts, and where two retentions overlap.
- *pacer*: periods of 5 (odd, so that half of it rounds) and 7 ticks; 28 ticks
  hold a resync, a run of caught-up frames after a hitch just under the threshold,
  and a change of rate and back.
- *process_life*: the second fault may hit the report of the first, on its own
  thread or on another.  The handler of the second Ctrl-C may come while that of the
  first is at any of its steps, on another thread; a fault may then hit a line of
  either handler or the game.  Two faults come together with one console event:
  two overlapping handlers and two faults at once are left out (`MaxTrouble`).
  The second console thread is used only beside the first.
- *settings*: a behaviour is about the pin, the dialogs, or the oldest games'
  display settings or input, which no game combines in one file (`MCSettings`).
  Frameskip 3 is the first value the loader rejects, 1 and 2 are two distinct
  pins.  Three lines are a header, a setting, and one that overrides, spoils or
  misplaces it.

Bounds that stand for machine limits: `MaxRefs` for a 32-bit count (the code
refuses nothing there, and no game comes near), `MaxSeq` for the 32-bit sequence,
`Horizon` for the performance counter, `MaxRequests` for the system's count of
timer requests.  `MaxLaunches`, `MaxLines`, `MaxFaults`, `MaxCtrl` and, for the
last two together, `MaxTrouble` bound what comes from outside.

## 4. Fairness and deadlock

Only `ProcessLife` assumes fairness: each thread that can take a step of its own
(log, report, handle, end) takes one eventually, as the system schedules every
runnable thread; no fault, call or console event is ever forced to come.  Weak
fairness is enough for the writer mutex, too: with a bounded number of lines it is
free and stays free in the end.  `MCProcessLife` restricts only what comes from
outside, so that its fairness is the same.  Under it, `HandlersReturn` says that
wherever a fault comes, every activation ends or the process does, provided that no
frame of the game handles a fault inside neopatch's own lines and reports: that
would leave the guard, the latch or the mutex held (section 7).  Without the
guard of `log.rs` against a line within a line, a fault in a line would wait for
the mutex its own thread holds.

Everywhere else a game may stop calling at any point, so nothing must happen
eventually.  The boundedness that a liveness property would otherwise stand for is
stated as such: at most four attempts (the shape of the rounds in `FixLadder`), a
bounded run of frames that do not sleep (`CatchUpBounded`), a game that can start
as soon as its dialog is answered or hidden (`NeverWaits`), a call that comes to
its end however long the chain of tools is (`CallsArrive`, `ImportsArrive`).

TLC checks for deadlock except where the system may really stop: `attach` (a game
that is left untouched, aborted, or has nothing more to bind), `pacer` (the clock
ends at `Horizon`, possibly inside a sleep) and `process_life` (the process has
ended).  In the `d3d8` runs absence of deadlock says that the game can always
release something or a call into D3D9 can return, however many objects are used up.

## 5. What is proved

Eight modules of proofs, 63 theorems, about 10000 obligations, no leaf taken on
trust.  The assumptions are the named `ASSUME`s of the component modules: the
constants are sets and numbers of the expected kind, names are distinct; device,
resource and thread sets are finite; the audit's registry holds two installs at
least; the factor of the token sequence has an inverse modulo the width of a token,
as every odd factor has modulo 2^32.  No theorem depends on the bounds of section 3.

Every safety invariant and every action property that a passing run checks is a
theorem, the two refinements and the one of the pin included.

- **`D3D8Wrappers_proof`.**  The inductive invariant joins the two count
  equations with facts that neither contains: a live resource has a device and an
  object, a device's embedded wrapper always points back to it (`Attached`), and
  state blocks have live devices.  From these, a live child has a live owner
  (`CountedOwners`).  `RefsAccounted` alone is not inductive: `Release`
  takes a reference from an owner, and that there was one follows only from the
  child's being counted.  Cardinalities of the sets of live children are handled
  by lemmas on adding and removing one element.  Theorems: `TypeCorrect`,
  `ReferencesCounted`, `NoLeak`, `WrappersKeepTheirObject`, `NoResurrection`,
  `ShadowIsTheBinding` (with the snapshots in state blocks, and the copy that a
  call in flight carries, as the strengthening), `ImplementsIndexChannel`:
  every method is a step of `IndexChannel` or leaves the pairs, the blocks and the
  call in flight alone, under the mapping that ends `D3D8Wrappers`.  `Returned` (no copy is
  held between calls) is the invariant that this needs besides `TypeOK`.
  `MintedTokensAreFresh` rests on arithmetic: a factor with an inverse maps the
  elements of the sequence below the wrap to different tokens (`Invertible`).
- **`FixLadder_proof`.**  The invariant relates the attempt in flight to the
  history: which attempts of this round and the last one came back, with which
  modifications and answers, and that `pp` is what `Materialize` makes of the
  request.  Theorems: `TypeCorrect`, `RequestRestored`, `StopsWhenAnswered`,
  `RefusedAtOwnRate`, `ModesCanExist`, `EscalationIsEarned`, `FormatRecorded`, and
  `ImplementsDeviceCall`: every step is a step of `DeviceCall` or a stutter, under
  the mapping of section 2.
- **`DeviceSession_proof`**, also about `Frame`.  The invariant of the session adds
  to the count equation that an object exists exactly while someone has a
  reference, and what `new` and `prev` are at each step of `record`.  Theorems:
  `TypeCorrect`, `PinsBalance`, `PinsKeepAlive`, `OwnDeviceMatches`,
  `RecordedIsKept`, `AddressesStay`.
  For the windows, `MappedAsFound` needs to be known inside a creation as well
  (`OnScreen`: what is missing from the screen is the one window that was hidden
  for it), and `PolicyInForce` needs that a window remembered as styled still keeps
  to the policy unless the policy is not answerable for it (`exempt`), and that a top-level
  window which is not remembered has not been suffixed, and is a popup only if the
  game made it one (`WinInv`).  The frame styles are sets of
  bits, and the plan's arithmetic on them is done once (`FrameBits` and the lemmas
  after it).  For the screenshots: what is stashed belongs to a context that exists,
  and a file is moved when it is whole (`ShotInv`).  Theorems:
  `WindowsMappedAsFound`, `PolicyIsInForce`, `CapturesBelong`, `ScreenshotsAreWhole`.
- **`MCHookSlots_proof`**, about `HookSlots` and `PadInput`.  That a call through a
  vtable comes to its end needs a measure: in every reachable state there is a
  ranking of the functions in which each forwards to one of a lower rank, bounded
  by the number of links, and each step that links a function extends it.  That it
  passes our hook once needs a set of *quiet* functions, which never lead to a
  hook, and that the slot of a vtable that was never hooked holds one of them
  (`ChainsHold` states both).  `Call` is a recursive function: that it unfolds, and
  what holds along a walk, is shown by the least number at which it would fail,
  from the well-foundedness of the natural numbers.  `OverlapsAreWarned` says who
  has the window of a page open; the threads are a finite set for it
  (`ThreadAssumption`).  Theorems: `ChainsHold`, `CallsAlwaysArrive`,
  `HooksRunOnce`, `OverlapsAreWarned`, `PlainStayChained`, and `RunsAreBehaviours`
  (what the run explores are behaviours of `HookSlots`).  For the pad: a device that
  is due has its vtable hooked, because the interface it came from was asked for
  and was not refused, and `Convert` agrees with the sectors of the compass for
  every natural number (`DeviceIsSteered`).
- **`Pacer_proof`.**  The invariant says where the deadline is (a whole number of
  periods after the last resync), between which places the last frame returned,
  and how a run of frames that did not sleep relates to the time it took.
  Products of variables are kept in lemmas of their own.  Theorems: `TypeCorrect`,
  `NoDrift`, `NoOvertaking`, `ImmediateConvergence`, `BoundedCatchUp`,
  `PolicyFollowsMode`, `NoStaleDeadline` (the frame on which a new mode is seen
  never sleeps).
- **`MCSettings_proof`**, in three parts.  The pin is armed only beside a copy that
  holds 0, and only with both hooks: `TypeCorrect`, `ArmedBesideZero`,
  `ImplementsVanilla`.  The oldest games: what the four crates have in common is
  shown to be one and the same step (`CratesShare`), and the invariant (`OldInv`)
  says at each phase which fields of the game's copy are the player's, which are
  forced, and that the pin holds the player's: `PlayersCfgIsWritten`,
  `DevicesFollowConfig`, `FramesAreFresh`, `ReplayKeysAreHeld`.  The dialogs: what
  the parser knows after each line is what the last readable line says, for files of
  any length, by induction along `ReadLines`; and once the hook has answered, what
  the game remembers of its last start is overwritten where it matters
  (`Configured`, `Answered`, `Started`): `DialogNeverWaits`,
  `GamesStartAsConfigured`.
- **`LogSession_proof`**, for any number of processes, roots and sessions to keep,
  and about `ProcessLife`.
  That the newest sessions survive does not follow from one retention's list being
  right when it was made: the list grows stale while other games write.  The
  invariant says of every name on such a list that enough newer ones were written
  at the time, and `ever`, which only grows, keeps that true; the budget needs
  besides that what a retention has yet to remove, together with what was written
  since it listed, covers the surplus.  Counting is done by lemmas on the
  cardinality of the newer names.  Theorems: `TypeCorrect`, `ClaimsSurvive`,
  `NewestAreKept`, `BudgetIsKept`.
  For `ProcessLife` the invariant goes through the stacks of activations: what each
  may rely on at its step (`Fine`), that an exception is dealt with in one place
  only (`OneBody`), and that while the latch is held some activation has it to give
  back, or the process is past its last chance (`Latched`).  A step changes the top of one stack, and
  `StackStep` shows once what such a change has to satisfy.  Theorems:
  `LatchIsReleased`, `ReportsReachDisk`, `CtrlCIsPassedOn`.
- **`Attach_proof`**, for any number of patch sites.  `AttachInv` has three parts: the
  sites written are those before the one `install_all` has come to; an import's
  slot, our original and the tool's hook never form a circle (`Chain`: a tool that
  forwards to us implies that our original is the real function, since a tool
  binds once); and unless the log has warned, both timer stubs are on record or
  none is (`BothOrNone`), so that the game gives up no more requests than it makes
  until a tool leads `timeEndPeriod` past our stub, from where it does not come
  back (`Past`).  Theorems: `PatchesAreWhole`, `CallsAreServed`,
  `ResolutionIsHeld`.

Proved and not run: properties that follow the model more closely, such as
`FailureRestores`, `OwnRateTried`, `UpgradeIsLastResort`, `ActiveIsLive`,
`MirrorsAreKept` and `ConvergesAtOnce`.

Only model-checked: `HandlersReturn`, since liveness under fairness is out of the
prover's reach, as is `ENABLED`.  The library's induction theorems take an operator
as a parameter and cannot be used either; where the length of a walk or of a file
is the point, its recursive function is shown to unfold by a least counterexample
instead, with a set in place of the operator.  No module has a `RECURSIVE` operator.

## 6. Where code and documentation disagree

`hook_slots_race` ends in a counterexample: `claim` finds an entry that another
thread published since `intercept_indexed` looked, and installs over a tool
without the revisit check.

Others showed while modelling and have no run of their own:

- A refused replacement leaves the old device recorded without a pin for good, not
  only for the window that `session.rs` describes: `BeginCreateDevice` drops the
  pin, `CreationFails` records nothing.
- A Reset that passes through because the parent query failed does not update the
  recorded back buffer format (`PassReset` in `FixLadder`).
- `log.rs:83` says that "`sessions_to_keep` bounds the log root unconditionally".
  Concurrent launches and failed removals go past it; `BudgetHolds` states the
  bound that does hold.
- `patches.rs` of the oldest games restores "only where the game still holds what
  we forced, so anything it changed since then is preserved" (th06, line 331).  A
  change of the display mode in the game is overwritten again by the re-assertion
  at the creation of the device that the change calls for, before it comes to be
  written: `WritesPlayersCfg` therefore leaves the mode open where it was changed.
- `protect.rs:7` says that vtable patches run "still on that one startup thread";
  `vtable.rs` keeps its pool because other threads create such objects as well,
  and `protect.rs` itself warns of overlapping windows.  `OverlapIsWarned` is about
  what happens then.
- For a request with rate 0 or 1 the rollback (`d3d9.rs`, around line 632) may
  repeat exactly the parameters that were just refused.  It costs an attempt and
  nothing else.

## 7. What is not modelled

Inside the modelled parts:

- *D3D8, ladder*: the translation of D3D8 present parameters, formats, caps,
  shaders and declarations; device tunables and logging.  Of D3D9 only what the
  wrappers depend on is modelled, as an environment that may succeed or fail.
- *Vtable hooks*: `capture` of a slot, which writes nothing; slots whose protection
  cannot be changed.
- *Pacer*: the choice of waitable timer and the conversions of ticks; the layouts
  that say where a game keeps its keys.
- *Window*: a second render window at the same time.  After a handle was recycled,
  `MAIN_HWND` may name a child window, and the memory of what was styled and titled
  may be about an earlier window; `PolicyInForce` holds all the same.
- *Screenshots*: the encoders and pixel formats; two processes that write the same
  file.
- *Frameskip pin*: two assumptions of the code are taken over, that a game reads its
  cfg once per process and does not change the frameskip in memory itself.  Other
  files that the game *writes* with a cfg's exact size and magic are left out.
- *Oldest games*: the speed factors that th06 writes before calc, the viewport, fog
  and texture batch of the draw blocks, the sleep of an inactive window; colour
  depth "auto" counts as 32-bit once the game has resolved it.
- *Dialogs*: what a game does with the flags and tables of its own is external.  A
  modeless dialog of another tool, or a message that cannot be posted, leaves the
  game waiting for the player, and is excused.  Only the display section's mode
  and resolution are read; the other settings are parsed the same way.
- *Attach*: an import is hooked once, so the answers for one that is already ours
  are left out; th06 started as `custom.exe`, and games without the DLL that a
  crate loads in passing.
- *Log*: the format of lines and the rendering of the log.
- *Faults and exits*: a fault inside neopatch's own reporting is taken not to be
  swallowed by a frame of the game above it; a minidump is one step; the conversion
  of message box texts and of the last error are left out; another program may
  displace the unhandled filter; the console's close event ends the process
  without a flush.

Other parts, with reasons, are listed in `PROJECT.json`.  Machine code (the byte
patches and trampolines of the per-game crates), library loading and the
conversion of text (`ansi.rs`) stay outside: there is no sequence of states to
check.

## 8. Plan

Done: every part with state of its own that outlives a call.  What would add most
next:

1. The D3D8 present-parameter translation, composed with `FixLadder`, so that a
   D3D8 game's Reset is checked end to end.
2. `FixLadder` and `Frame` composed: the window that a creation is retried on is
   restyled once for all attempts.
3. Proofs: that the variants of the crates implement one abstract old game, as the
   pin implements `VanillaCfg`; and what each of the modules promises to the next
   where they are composed only by prose (section 2, Composition).
