# IMSAI TTY gateway: TLA+ models, checks and proofs

This directory holds a formal model of the gateway in `src/gateway-go/`: a Go program that bridges
a Telnet/TCP terminal to the console WebSocket (`/tty`) of an IMSAI 8080esp, with a full-screen
control TUI behind a hotkey. The program has no tests of its own. The modules are written from the
Go code; `PROJECT.json` maps every definition to the lines it stands for, lists the runs, the
mutants each property is known to reject, the hazards of the code, and the theorems.

## 1. Inventory

| Component | Source | State | Operations | Model |
|---|---|---|---|---|
| Client session | `bridge.go` 42-63, 158-339, `tui.go` 287-326 | `ws tui outBuf hkMatch tuiM`, two pumps, `reasonCh` | pumps, `handleInput`, `enterTUI`, `tuiFeed`, `exitTUI`, `runBridge` | `BridgeSession`, abstract `ConsoleLink` |
| Gateway | `bridge.go` 16-38, 84-156, 341-505 | `sessions`, per client: loop position, `attempt`, `announcedInit`, `reason`, `/tty`, `/cpa` | `serve`, `handleClient`, `openCPA`, `probeCPA`, `machineState`, `closeCPA` | `Gateway` |
| Control TUI | `tui.go` 164-283, 328-1014 | `tuiModel`: pane, lists, selections, overlay, message | `tuiKey` and the handlers it calls | `ControlTUI` |
| Device REST client | `device.go` | none | `getDisks` ... `deleteLibraryImage` | the request steps of `ControlTUI` |
| Telnet/EOL input | `terminal.go` | parser state, options, window size, `lastCR` | `Initial`, `Process`, `Size` | `TerminalInput`, driven by `InputPath` |
| Key decoder | `tui.go` 65-162 | `esc`, `param` | `decode` | `KeyDecoder`, driven by `InputPath` |
| Front-panel link | `cpa.go`, `bridge.go` 65-80 | `cpa`, `cpaStatus` | dial, poll, actuate, drain | `Gateway` (life time), `ControlTUI` (messages) |
| Output filter | `outwrap.go` | column, escape parser | `process` | `OutputFilter`, driven by `OutputPath` |
| CP/M directory reader | `cpmdir.go`, `tui.go` 730-815 | the listing of an image, the user shown | `listCPMByUser`, `doPreview`, `previewSetUser` | `CpmDirectory`, driven by `Preview` |
| Configuration | `config.go` | `cfg` while it is built | `loadConfigFile`, `buildConfig`, `parseHotkey`, `parseResize` | `Configuration` |
| System info, start-up, logging | `sys.go`, `main.go` | none | formatting | not modelled |

How they interact. `serve` starts one `handleClient` goroutine per terminal. It dials `/tty`, greets
the terminal, opens `/cpa` once, and calls `runBridge`, which starts two pump goroutines and waits
for both. `pumpTCPToWS` passes each read through `TerminalInput.Process` and `handleInput`; the
latter forwards bytes to `/tty`, matches the hotkey, or, while `s.tui` is set, feeds the control
TUI, whose HTTP requests run in the same goroutine. `pumpWSToTCP` writes console output to the
terminal or, while `s.tui` is set, appends it to `s.outBuf`. The pumps share the terminal socket,
`s.ws`, and the fields guarded by `s.mu`; sessions share `g.sessions`, guarded by `g.mu`.

What is hard. The handover of the screen between a pump and the TUI; the teardown of a bridge in
whatever step the other pump is; the hotkey matched over reads, TUI sessions and reconnects; the
loop of `handleClient` with an exit behind every write; requests whose answers are lost; lists that
are stale when they are used; and a TCP stream that is cut anywhere. The full list, 40 entries each
at its line, is `hazards` in `PROJECT.json`, with the properties that would show it going wrong, or
the reason why none does.

What makes each component correct:

* session: output and keystrokes arrive in order and at most once; output is lost only through the
  buffer's cap or with the client, keystrokes only with `/tty` or behind the key that closes the TUI;
  the TUI owns the screen it draws on; a bridge that has to end does end;
* gateway: slots, sockets and retries are counted right on every path; `/cpa` is dialled once per
  session; the session of a terminal that is gone ends;
* control TUI: selections stay within lists that change; what is confirmed is what is done; messages
  are true; there is always a way out;
* input: the console and the TUI receive what was typed, however TCP cuts it; negotiation does not loop;
* output: a terminal wider than the console shows what the console would; the filter never believes
  in a column the cursor is not in;
* preview: the listing is what CP/M stored, extent by extent, behind the skew of the floppy;
* configuration: the gateway starts with the settings meant, or says why not; an accepted hotkey
  opens the TUI.

## 2. Modules

    ConsoleLink           what a session promises (abstract)
      ^ refined by
    BridgeSession         one session, three goroutines
      BridgeProofs          types, order of output and keys, no nil model, refinement of ConsoleLink;
                            screens, cause of an end, what can happen to output and keystrokes
    Gateway               several handleClient goroutines (runBridge is one step)
      GatewayProofs         types, slots, sockets, retries, the single /cpa
    ControlTUI            tuiKey, its handlers, the device behind the REST API
      ControlTUIProofs      types, selections, what is confirmed, Escape, the truth of status and drive list
    TerminalInput         terminal.go as functions
    KeyDecoder            keyDecoder as functions
    InputPath             a terminal, reads cut anywhere, both of the above
      InputPathProofs       types, console bytes, keys, negotiation, window size, for all cuts
    OutputFilter          outProc as functions
    OutputPath            a device, a wide terminal and a real console, reconnects
      OutputProofs          types, column, margin, equality with the console
    Sorting               a finite set of numbers in order, for ControlTUI and CpmDirectory
    CpmDirectory          cpmdir.go as functions
    Preview               CP/M and its BIOS writing an image, doPreview reading it
      CpmProofs             types, the skew is undone, the listing is what is stored, the first screen
    Configuration         buildConfig over flags, environment and file; the hotkey pressed
      ConfigProofs          started as configured, which hotkeys open the TUI
    LibraryProofs         lemmas about sequences, sorting, folds and sums, for four of the above
    MC*                   each run's instance

**BridgeSession.** `main`, `wp` and `tp` are the control points of `handleClient`/`runBridge`,
`pumpWSToTCP` and `pumpTCPToWS`. One action is one step between two points where another goroutine
can act: a critical section of `s.mu`, a socket call, a channel operation. `s.mu` is held over more
than one step only by `exitTUI`, which writes to the socket under the lock, so the lock is the
operator `MuFree`. `conn.Write` blocks while the client does not read (`stalled`) and fails after a
reset. Console output is numbered in chunks (one chunk is one WebSocket message), keystrokes are
positions in `typed`; `fate` records what became of each. `sendToWS` is one keystroke per step, the
throttled default; without throttling the same happens to several keystrokes at once. A write to a
`/tty` that the device has dropped may succeed, as TCP allows, and is then lost. Whether `q` or Esc
closes the TUI or only a pane is free here; `ControlTUI` decides it.

**ConsoleLink.** Two sequences that only grow: the output shown, ordered within each `/tty`
connection, and the keystrokes delivered, strictly increasing. `BridgeSession` refines it with
`conn <- epoch` and the other variables by name.

**Gateway.** One control point per client. `RunBridge` returns any cause that the state of the
sockets allows. A terminal that has closed its socket answers the next write with a reset, so the
write after that fails. The end of `handleClient` is three steps - slot, terminal, deferred
`closeCPA` - because another terminal may be admitted in between. When the goroutine has returned,
its variables are reset and another terminal may take the place.

**ControlTUI.** `pc` is `key` while a key may come, or the request in progress. Every request has
three outcomes: it works, it is refused, or it fails (a lost answer included: the device may have
carried it out). Between any two steps another user of the device may change it. The four scroll
positions and indices that are set anew when their pane is entered share the variable `view`.
Messages are kept by what they claim: mounted, ejected, deleted, not found, or anything else. Of
rendering, only what changes state is kept: pulling back a scroll position, and the page size.

**TerminalInput, KeyDecoder, InputPath.** The two parsers are functions of a state record and one
byte, folded over a read. `InputPath` adds a terminal that sends *tokens* (keys and Telnet
commands) and reads that end anywhere. What a token means, as console bytes (`Meant`) and as a key
(`KeyOf`), is stated apart from the code that recovers it.

**OutputFilter, OutputPath.** `process` is a function of the filter's record and one byte. Two
terminals, written from ECMA-48 and xterm and not from the code, receive the result: the user's,
wider than the console, gets what the filter sends; a console of `Cols` columns gets what the device
sends. Where the two cannot agree whatever the filter does (moving past the last column, or from the
margin), the auxiliary `strayed` says so until the cursor is next put at a position. A sequence the
filter does not know leaves the cursor in any column of `Columns`. `Reconnect` starts a new filter
on the same terminal, in the middle of a sequence if need be. Programs are assumed to send complete
sequences without control characters inside (`WellFormed`).

**CpmDirectory, Preview.** `Preview` has both sides: CP/M, which makes, extends and erases files of
several users entry by entry, its BIOS with the sector order of the drive, and the program that
downloads the image and reads the directory back. `snapshot` is what was stored at the download; the
reader's geometry and skew are its own. A name is a number, so sorting is by number.

**Configuration.** One action per source, in the order of the code, over all 20 settings. How a word
looks is given with it: a number's form and what it says (`Numerals`), all spellings of a word and its
lower and upper case (`Spellings`). The readers of each source are the code's: `Atoi` and `ParseFloat` in
the environment, `ParseBool` and `ParseInt` of any base for flags, TOML types in the file. Words come
trimmed and without leading zeros (`--cols 010` is 8, `IMSAI_GW_COLS=010` is 10). Environment, flags and file give
up to `MaxGiven` settings together; the file may be missing, unreadable, broken, or keep its settings
in a `[gateway]` table. A hotkey is a list of modifiers and a key. `PressHotkey` sends what a
terminal sends for it through `TerminalInput.Process` and looks for `HotkeyBytes` in the result, as
the matching of `handleInput` does (`Found`). `Agreed` are the keys that terminals send alike: any
key of a letter, sign or digit, with Ctrl only the letters and `@ [ \ ] ^ _`, with Shift only the
letters; for any other key `PressHotkey` may have either outcome and no property speaks of it.

## 3. Runs

| Run | Instance | Distinct states | Result |
|---|---|---|---|
| `bridge_safety` | hotkeys of two bytes and of one, 3 keys, 2 chunks, buffer of 1, 2 connections | 6,335,350 | 10 invariants and the refinement hold |
| `bridge_live` | hotkey of one byte, 2 keys, 1 chunk, 2 connections | 192,756 | 3 liveness properties hold |
| `gateway` | 2 terminals, 1 slot, 1 retry | 228,123 | 4 invariants, 1 action property, 1 liveness property hold |
| `tui` | 2 floppy drives and the hard disk, 2 images and `disk.map`, 1 change by others, 1 failure | 1,475,918 | 5 invariants and 1 action property hold |
| `input` | every pair of keys and Telnet commands, all 16 requests and offers about 4 options among them, 3 modes, 4 EOL settings, 4 forms of Enter, all cuts | 245,412 | 5 invariants hold |
| `output` | 15 bytes, output of 9, a console of 10 columns, 2 connections | 222,878 | 3 invariants and 1 action property hold |
| `preview` | both formats and another size, users 0 and 15, 5 directory entries | 113,010 | 2 invariants and 1 action property hold |
| `config` | 8 settings given, up to 3 at a time, in 3 sources | 1,837,387 | 2 invariants hold |
| `bridge_claim_buffer` | as `bridge_live`, without fairness | | `ReplayOfThisTUI` violated |
| `bridge_claim_gap` | as above | | `GapKeysKept` violated |
| `bridge_claim_teardown` | as `bridge_live`, client may stall for ever | | `TeardownAlwaysEnds` violated |
| `gateway_claim_cpa` | as `gateway` | | `OneCpaPerSlot` violated |

What the passing runs show.

* **Output** (`ShownInOrder`, `OutputAccounted`, `HeldBackOnlyByTUI`, `AtMostOneLeak`). Because
  `exitTUI` keeps the lock from clearing `s.tui` to the last replayed byte, a chunk cannot overtake
  the buffer; while the client is there only the buffer's cap drops a chunk; the TUI's screen can be overwritten by at
  most one chunk, the one the pump had already decided to write.
* **Keys** (`KeysInOrder`, `KeystrokesAccounted`, `ConsoleAsTyped`, `KeysAsTyped`). Broken partial
  hotkeys give back exactly what they held; on the first connection, while it lasts, a keystroke that
  was handled is with the device, the TUI, the hotkey or held, or it was read behind the key that closed
  the TUI, which drops it; over reconnects the order is kept; no Telnet byte
  leaks and each form of Enter is one EOL for every cut of the stream.
* **Ends** (`NoNilModel`, `ScreenRestored`, `StoppedIsNotACause`, `TeardownEnds`, `DropNoticed`,
  `GoneClientEnds`, `DisconnectEndsSession`, `NothingLeftOpen`, `SlotsCounted`,
  `RetriesAsConfigured`, `CpaOpenedOnce`). Whatever the other pump is doing when one ends, the TUI
  is left, the cause is the right one, and sockets and slot are given back.
* **TUI** (`SelectionsValid`, `ConfirmNamesSelection`, `TwoEscapesLeave`, `StatusTruthful`,
  `DisksCurrent`). No refresh that shortens a list leaves an index the code would use out of range;
  the image deleted is the image named and highlighted; no pane and no overlay
  ignores Escape, two of them close the TUI from anywhere, and no request in progress keeps the next key
  waiting for more than one other; a success message is true while it stands, lost answers included.
* **Negotiation** (`NegotiationSettles`, `SizeIsLastReported`). Of the sides the gateway supports (its
  own ECHO and SGA, the terminal's SGA and NAWS) the same is never said twice in a row, and the last
  word is what is on; of any other side (the terminal's ECHO, the gateway's NAWS, unknown options) it
  says no as often as it is asked, and nothing else. Sizes with zero rows are ignored, sizes that
  contain the byte 255 are not.
* **Screen** (`ColumnTracked`, `NothingPastMargin`, `AsOnConsole`). A column the filter knows is the
  cursor's, also when a reconnect cuts a sequence in two; nothing is printed past the margin by a
  filter that knows where it is; each character appears where a console of that width has it.
* **Preview** (`ListingAsStored`, `OpensOnFiles`). Every user's files are listed once, in order, with
  the records of all their extents, by following CP/M's own writes through the skew; the first
  screen shows files if there are any.
* **Start** (`StartsAsConfigured`, `HotkeyOpens`). What each word says is stated apart from the readers
  (`Says`, `Understood`): `YES` and `On` are yes in the environment and `t` is not, `--no-tui=t` is, 0x50
  is 80 for a flag and in the file and ignored in the environment. The value that wins is the only one validated; a
  start is refused for an unreadable flag or file or a wrong winning value, and for nothing else;
  the hotkeys that can never open the TUI are exactly those named in `Unreachable`.

What the violated runs show: four statements in comments or the README that the code does not keep.
Each is a finding in `PROJECT.json`, with the text quoted. In short: output buffered under a TUI
that a dropped link tears down is replayed by the exit of the TUI on the next connection; keystrokes in the gap before a drop is
noticed are lost; a client that does not read blocks the teardown; two `/cpa` can be open with one
slot. Two more findings come from properties that hold. `KeystrokesAccounted` needs `BehindQuit`: keys
typed ahead behind the q or Esc that closes the TUI are dropped, although `bridge.go:246-248` names only
three ends a key can have. And `CpaOpenedOnce` is the opposite of what the comment of `closeCPA` says
(`bridge.go:146-147`, "before reopening /tty so the next /tty is opened before a fresh /cpa"): a
reconnect keeps the `/cpa` it has. `AtMostOneLeak` is the part of "the TUI owns the screen" (`bridge.go:158-159`) that holds.

Met while modelling, and not given a run:

* with the TUI off, the banner sends the user to the Panel pane (`bridge.go:133`, 427-436);
* a 404 of a mount is reported as a missing image, and can mean "mounted elsewhere"
  (`tui.go:615-629`);
* a cursor key cut after its ESC is the Esc key (`tui.go:86-88`, 157);
* hotkeys such as Ctrl+J and Ctrl+@ are accepted (`imsai-gw.toml:55` recommends "a single
  Ctrl+<key>"), but `normalizeEOL` drops or rewrites their byte: Ctrl+@ opens the TUI only with `eol`
  `raw`, Ctrl+J not with `cr`, the default, and Ctrl+M not with `lf`; and where Ctrl+J or Ctrl+M does
  open it without `raw`, Enter does too, being the same bytes behind `normalizeEOL`;
* `Alt+P`, written like the documented forms, keeps its upper case, so that only Shift+Alt+P opens
  the TUI (`config.go:69-74`, 100);
* with `--no-crlf-out` the wrap sends a bare LF while the column is set to 1, so the rest of the
  line starts where the wrap happened (`outwrap.go:11-12`, 77-82). The run and the proofs of
  `OutputPath` have `CRLFOut = TRUE`, the default;
* `max_sessions` of 0 or less is accepted and turns every client away.

### Bounds

Every bound is a CONSTANT named in its module. Two connections reach every state of a reconnect: a
third differs from the second only in `epoch`. Three keys open and close a TUI with the two-byte
hotkey, break a partial match, and leave a byte behind; two chunks and a buffer of one reach the cap
and the order of two chunks on different paths. Two terminals and one slot give every race for a
slot; one retry reaches the limit. Two removable drives and two images make a duplicate mount
possible; `MaxOthers = 1` and `MaxFailures = 1` allow one interference and one lost answer, in
either order. Two tokens suffice for what the parsers carry from one to the next (`lastCR`, the
option sets, `sb`, `param`). Page Up and Down are checked with a page longer than every list.

Nine bytes print past a margin of ten only because sequences move the cursor there: `ESC [ 9 C` and a
character reach the last column, a further one wraps, and tabs, backspace and repositioning still
follow. Two connections suffice, as the second filter is new and the terminal is not. The floppy's
five directory entries lie on both sides of the first step of the skew (four entries per sector), and
four full extents before the first write bring that step within reach; a length of 129 records needs
two extents. Three settings given together let all three sources give the same one, or three settings
interact (TUI, hotkey and EOL setting).

`CHECK_DEADLOCK` is off for `InputPath` and `OutputPath`, where a bounded number of bytes is sent, for
`Preview`, whose disk fills up, and for `Configuration`, which ends with the process or the hotkey. `BridgeSession`
has the explicit step `Finished`.

### Fairness

`GoroutineFairness` is strong fairness of each goroutine of a session: the Go scheduler runs every
goroutine that can run, and a `conn.Write` that can return again and again does return, although the
client may stall in between; weak fairness would not give that. `ReadingSpec` adds that a client
which stopped reading reads again; `bridge_claim_teardown` shows that the code needs it. Nothing
obliges a client to type or close, or the device to speak, drop or accept a connection. The gateway
needs weak fairness of each `handleClient` only, and no assumption about the device.

### Mutants

Each property of each passing run has a mutant: an operator next to the one it replaces, marked
"Mutant", that changes the code as a plausible slip would (an unlock moved up, a deadline not
cleared, an error not looked at). TLC finds the property violated under the run's own configuration.

## 4. Proofs

TLAPS proves, for every value of the constants that satisfies the named assumptions of the modules
(`BridgeAssumption`, `GatewayAssumption`, `TUIAssumption`, `PathAssumption`, ...):

| Theorem | Module | Statement |
|---|---|---|
| `TypeCorrect` | `BridgeProofs` | `Spec => []TypeOK` |
| `OutputOrdered` | `BridgeProofs` | `Spec => []ShownInOrder` |
| `NothingHeldBack` | `BridgeProofs` | `Spec => []HeldBackOnlyByTUI` |
| `KeysOrdered` | `BridgeProofs` | `Spec => []KeysInOrder` |
| `ModelNeverNil` | `BridgeProofs` | `Spec => []NoNilModel` |
| `ImplementsLink` | `BridgeProofs` | `Spec => LinkSpec` |
| `OutputKeptThroughout` | `BridgeProofs` | `Spec => []OutputAccounted` |
| `KeysKeptThroughout` | `BridgeProofs` | `Spec => []KeystrokesAccounted` |
| `ConsoleScreenBack` | `BridgeProofs` | `Spec => []ScreenRestored` |
| `OneLeak` | `BridgeProofs` | `Spec => []AtMostOneLeak` |
| `DeadlineNoCause` | `BridgeProofs` | `Spec => []StoppedIsNotACause` |
| `TypeCorrect` | `GatewayProofs` | `Spec => []TypeOK` |
| `SlotsCorrect` | `GatewayProofs` | `Spec => []SlotsCounted` |
| `NothingLeft` | `GatewayProofs` | `Spec => []NothingLeftOpen` |
| `RetriesCorrect` | `GatewayProofs` | `Spec => []RetriesAsConfigured` |
| `CpaOnce` | `GatewayProofs` | `Spec => CpaOpenedOnce` |
| `TypeCorrect` | `ControlTUIProofs` | `Spec => []TypeOK` |
| `SelectionsInBounds` | `ControlTUIProofs` | `Spec => []SelectionsValid` |
| `ConfirmNames` | `ControlTUIProofs` | `Spec => []ConfirmNamesSelection` |
| `EscapesLeave` | `ControlTUIProofs` | `Spec => TwoEscapesLeave` |
| `StatusTrue` | `ControlTUIProofs` | `Spec => []StatusTruthful` |
| `DisksAreCurrent` | `ControlTUIProofs` | `Spec => []DisksCurrent` |
| `TypeCorrect` | `OutputProofs` | `Spec => []TypeOK` |
| `ColumnCorrect` | `OutputProofs` | `CRLFOut => (Spec => []ColumnTracked)` |
| `MarginKept` | `OutputProofs` | `CRLFOut => (Spec => NothingPastMargin)` |
| `ConsoleReproduced` | `OutputProofs` | `CRLFOut => (Spec => []AsOnConsole)` |
| `TypeCorrect` | `InputPathProofs` | `Spec => []TypeOK` |
| `AsTyped` | `InputPathProofs` | `Spec => []ConsoleAsTyped` |
| `KeysTyped` | `InputPathProofs` | `Spec => []KeysAsTyped` |
| `Settles` | `InputPathProofs` | `Spec => []NegotiationSettles` |
| `LastReported` | `InputPathProofs` | `Spec => []SizeIsLastReported` |
| `DirectoryInImage` | `CpmProofs` | the directory of a supported image is inside it |
| `SkewUndone` | `CpmProofs` | reading a sector finds the one the BIOS stored |
| `EntriesRead` | `CpmProofs` | the entries read are CP/M's, in order, then free ones |
| `TypeCorrect` | `CpmProofs` | `Spec => []TypeOK` |
| `ListingCorrect` | `CpmProofs` | `Spec => []ListingAsStored` |
| `OpensCorrect` | `CpmProofs` | `Spec => OpensOnFiles` |
| `StartedAsConfigured` | `ConfigProofs` | `Spec => []StartsAsConfigured` |
| `HotkeyReaches` | `ConfigProofs` | `Spec => []HotkeyOpens` |

**The session.** `TypeOK` is not inductive: that `taken` is a chunk while the pump holds it needs
`TypeInv`, which adds the relation between the pump's position and `taken`. `ControlInv` says which
goroutine can be where: the pumps run only inside `runBridge`, the channel holds one reason per pump
that has ended, the TUI's own states imply `s.tui`, and while the lock is held outside its usual
sections the buffer is empty and `s.tui` is off. It gives `NoNilModel`: `runBridge` has received two
reasons before it clears `s.tuiM`, so `tp = "done"`.

`ShownInOrder` is not inductive: whether a chunk may be shown depends on what is buffered or being
replayed. `OrderInv` places every chunk: those shown come before those buffered or pending, of the
same connection; all of these before the one in the pump's hands; and while the pump is about to
write, or a connection is used without the TUI, the buffer holds chunks of *earlier* connections
only. This last part is what the stale buffer of the finding `bridge_claim_buffer` needs, and it is
why the order survives it. `KeyInv` orders delivered keys before held keys before `pos`. The
refinement adds `FreshInv` (an unread chunk belongs to no connection) and maps `DialOK` to
`Connect`, `WsRead` to `Receive`, `WsWrite` and `ExitFlush` to `Show`, forwarding keys to `Deliver`,
and every other step to a stutter.

`ScreenInv` carries the three properties about screens and causes: the alternate screen is on only
while somebody is about to leave it (the TUI is open, `exitTUI` or the teardown is on its way); when
the pump has decided to write and the TUI has been opened since, nothing has leaked yet; and the
first reason in the channel, once there, is not the answer to the deadline. `OutputAccounted` needs
no strengthening of its own beyond `FreshInv`, but each step moves a chunk from one place to another
before it leaves the first, and `ExitLock` overwrites `pending`: `ControlInv` says it is empty then.
`KeystrokesAccounted` becomes inductive as `KeptInv`: before the first connection nothing has been
handled (`epoch = 0 => pos = 1`), so `DialOK` starts with nothing to account for, and a later
connection is not a first one; what is held of a hotkey is marked so (`HeldMarked`), hence none of it is
among the keys dropped, and those dropped form one run behind a key that closed the TUI, each marked when
the one before it is (`BehindKept`).

**The gateway.** What a session has open and how often it has retried follows from where its
goroutine is. `Session(c)` says so for one client, and a step of another client does not disturb it
(`OthersUntouched`); it is inductive because it ties `attempt` to `retries` everywhere before the end,
and `announced` to the control points on either side of the banner, which is what keeps `/cpa` from a
second dial. The slots are the one thing shared: `Slots` makes the counter the cardinality of
`Active`, which only `Admit` and `Release` change, by one client each.

**The control TUI.** None of the properties is inductive: an index is in bounds because of what the
pane is, and a request acts on what was selected when the key was pressed. `Placed` says which pane a
request belongs to, so that its answer cannot meet another pane's state, which messages wait for a
refresh, and that the overlay is up only while a key may come, in the library. `Chosen` says what was
selected when a handler was called: eject only a removable drive, mount only a `.dsk` in one - with
`TypeOK` this keeps the drives in `DriveStates` - and delete only the file the overlay names. Together
with `TypeOK` they are inductive (`InvStep`, one lemma per handler and request). Every list on the
screen is sorted, so the proofs first show that a finite set of numbers can be put in order:
the number of smaller elements is a bijection onto the places (`SortedExists`, `SortedIs`).
`StatusInv` adds to `StatusTruthful` that a message a request has just made false is about to be
replaced, in `after`, by one that is true; `DisksInv` adds to `DisksCurrent` that a change the TUI
makes is followed by the refresh before the next key. Both speak of a device nobody else uses and of
requests that do not fail, as the properties do.

**The input.** The five properties speak of all that was sent, and a read may end anywhere, so the
invariant has to say what holds in the middle of a token. `Place` does: the bytes read so far are `k`
tokens and `o` bytes of the next, and what was made of them `Fits` that place - the parser is in the
state of that byte (`Parser`), the console has what `k` tokens mean and what the next has yielded
(`ConsoleAt`), the size is the last of the `k` (`SizeAt`), the decoder holds the keys of `k` tokens and
the state of the byte (`KeysAt`), and what was said about each side of each option agrees with what is on
(`Talk`), which an answer to any request or offer keeps (`TalkAnswer`).
Four steps lead there. *Folds*: what `Process` and `decode` compute by folding over a read is, for one
byte more, one step more (`TelnetMore`, `EolMore`, `KeyMore`). *The two passes of `Process`*: the parser
neither reads nor writes `lastCR` and the EOL pass neither reads nor writes anything else, so they can
be taken byte by byte together (`FeedFrame`, `NormalizedEffect`, `ProcessMore`), and a read is `AfterByte`
repeated (`AfterMore`). *Tokens*: each byte of each token moves parser, console, size and decoder from one
place to the next (`TokenMoves`, `ConsoleNext`, `SizeNext`, `KeysNext`, `TalkNext`), joined in `FitsMore`.
*Reads*: a read of any length keeps `Fits` (`ChunkFits`), its end settles a lone ESC (`EndedIs`), and what
is sent later does not change what was read (`AtStill`, `FitsStill`). The tokens are those of `InputPath`;
their number, the reads and every combination of mode, EOL setting and form of Enter are free.

Induction over sequences is stated about sets: a set of numbers that holds 0 and with each number the
next one is all of `Nat` (`SetInduction`), from the library's `WFMin` about least elements; so are
`SeqInduction` and the existence of the functions that folds are made of (`FoldExists`,
`FlattenExists`). The library's induction theorems take an operator as a parameter, which the
installed provers do not instantiate.

**The output.** `Tracks` relates the filter's parser to the user's terminal (mode, parameters read so
far, column when it is not 0); `SameMode` relates it to the console, and, unless `strayed`,
`SamePlace` relates all three: same row, same place of the last character, same column. The margin is
the part that needs care: a console waits in its last column with the wrap still to come, while the
filter is one column further and will send the line break before the next character. `Agrees` joins
the three and is inductive.

**The preview.** Below is arithmetic over the two geometries: the sectors of the directory lie within
a track, `cpmTrans` is inverted sector by sector, and 32-byte entries tile a sector (`SkewUndone`,
`EntriesRead`), so that the entries read are the table CP/M wrote (`TableRead`). Above it,
`ListingAsStored` speaks of the moment of the download only; what makes it true is kept up by every
write before. `DiskInv` says it: `stored` is what the table records (`Recorded`: the files are the
names and users of live entries, and each has the sum of its extents' records), and an extent being
written belongs to a file and is still empty, which is what `WriteExtent` needs to add to a sum
and `EraseFile` to leave nothing behind. Each way in which CP/M changes the table has a lemma
(`RecordedExtent`, `RecordedSize`, `RecordedErased`, `RecordedMarked`), which rests on how a sum over a
set of entries changes with one of them (in `LibraryProofs`, since `SumFunctionOnSet` is a fold). `ViewInv` is the
listing itself: `ListingIs` and `UsersAre` say what the sorted sequences hold, `Previewed` joins both
sides, and a step by `previewSetUser` shows another user of the same download (`Stepped`).

**The configuration.** `Resolved` gives `cfg` between any two sources as the values read from those
so far. That these are the values meant is `ReadAsMeant`, over one lemma per source (`FlagIs`, `EnvIs`,
`FileIs`): a reader accepts the words that are understood there, and yields what they say. Folding a word
gives the one in lower (or upper) case that it is alike to (`LowerIs`, `UpperIs`), as no word has two
spellings' folds, an assumption about `Spellings`. `MeantIs` shows that what the property calls wrong is
what `Acceptable` refuses.

**The hotkey.** `Pressing` says that what is matched is the setting's hotkey while the process serves,
and with `Resolved`, which says that mode and EOL setting are legal ones then, it is inductive. The
substance is `Reaches`, about one press: the folds of `Process` over one byte, or over ESC and a
byte, are unfolded (`TelnetOne`, `TelnetTwo`, `EolOne`, `EolTwo`), what is left is a byte, nothing or
an Enter (`EmittedCases`), and whether the hotkey is in it is decided case by case (`OutcomeOne`,
`OutcomeTwo`). `CharIs` compares the byte that `parseHotkey` computes from the key's name with the one a
terminal computes from the modifiers that are held: they differ for an upper-case letter with Alt
alone, and for no other key of `Agreed`.

Only model-checked: the liveness properties, of `BridgeSession` (`TeardownEnds`, `DropNoticed`,
`GoneClientEnds`) and of `Gateway` (`DisconnectEndsSession`), as fairness and ENABLED are beyond the
prover. Every other property of a passing run is a theorem. The theorems of `OutputPath` about columns
assume `CRLFOut`, as its run does.

## 5. Not modelled

Rendering, log and banner wording, TCP keep-alive, the capture file (`--capture`), JSON and URLs, HTTP
timeouts and the one retry of a GET (part of a request's free outcome), the front panel's LED string,
the formatting of SYS (`sys.go`) and of the preview, start-up and log levels (`main.go`). TOML is not
parsed: a literal has a type and a word. Numbers with leading zeros, infinities and words too long for an
integer are left out of `Configuration`, a raw terminal that sends the byte 255 by itself in mode `auto`
of `InputPath`, and a hotkey pressed right after another key, of which `lastCR` may be left, of
`HotkeyOpens`. `KeysAsTyped` speaks of reads that do not end inside a cursor or page key. The run of
`Gateway` retries once; unlimited retries (`reconnect_max` 0) are in `GoneClientEnds` of `bridge_live`. The pacing of `sendToWS` is not modelled: no property depends
on time. Bytes are abstracted to keystrokes in `BridgeSession`; `InputPath` and `OutputPath` have the
bytes. CP/M's disk is its directory: no data blocks. The TUI's screen is not part of `OutputPath`; it
restores the cursor and what it held back.

## 6. Plan

Done, in this order: `BridgeSession` with `ConsoleLink` and its proofs, `Gateway`, `ControlTUI`,
`TerminalInput`/`KeyDecoder`/`InputPath`, `OutputFilter`/`OutputPath` with proofs,
`CpmDirectory`/`Preview` with proofs, `Configuration` with proofs, the proofs of `Gateway`, those of
every safety property of `BridgeSession`, of `ControlTUI` and of `InputPath`, and then those of
`Preview` and of the hotkey.

Left: the picker's cached library and the typed-ahead confirmation in `ControlTUI`, once the overlay is
modelled as drawn or not; and output with `--no-crlf-out`, where a property would have to say where
the rest of a wrapped line may go.
