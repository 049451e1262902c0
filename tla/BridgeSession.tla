----------------------------- MODULE BridgeSession -----------------------------
(***************************************************************************)
(* One client session of the gateway: type bridgeSession of                *)
(* gateway-go/bridge.go with the goroutines that share it.                 *)
(*                                                                         *)
(*   main   handleClient's goroutine: it dials /tty, calls runBridge, and  *)
(*          loops when the device dropped the link;                        *)
(*   wp     pumpWSToTCP: console output, device -> client;                 *)
(*   tp     pumpTCPToWS: keystrokes, client -> device, with handleInput,   *)
(*          the hotkey matcher and the entry to and exit from the TUI.     *)
(*                                                                         *)
(* The environment is the device (it sends output and may drop /tty at any *)
(* time) and the client (it types, stops reading, closes or resets).       *)
(*                                                                         *)
(* Console output is a stream of chunks numbered 1, 2, ...: chunk c stands *)
(* for one WebSocket message.  Keystrokes are positions 1, 2, ... of the   *)
(* stream `typed`.  s.mu is not a variable: it is held across two steps    *)
(* only by exitTUI (MuFree).                                               *)
(***************************************************************************)
EXTENDS Naturals, Sequences, FiniteSets, Functions

CONSTANTS
  Bytes,      \* the keystrokes the client can type
  Hotkeys,    \* the values of cfg.HotkeyBytes considered; <<>>: TUI disabled
  Quits,      \* the keystrokes that may close the TUI: 'q', 'Q' and Esc
  OutBufMax,  \* tuiOutBufMax, counted in chunks
  MaxKeys,    \* bound: keystrokes typed in the session
  MaxOut,     \* bound: chunks of console output sent by the device
  MaxConns    \* bound: /tty connections opened in the session

\* parseHotkey returns one byte, or two for an Alt combination; nil when the
\* TUI is off.
ASSUME BridgeAssumption ==
  /\ Hotkeys \subseteq {h \in Seq(Bytes) : Len(h) <= 2}
  /\ Quits \subseteq Bytes
  /\ OutBufMax \in Nat \ {0}
  /\ MaxKeys \in Nat /\ MaxOut \in Nat /\ MaxConns \in Nat

VARIABLES
  client,     \* the client's TCP side: "up", "eof" (it sent FIN) or "gone" (RST)
  stalled,    \* TRUE while the client does not read: conn.Write blocks
  typed,      \* everything the client has typed
  gapFrom,    \* auxiliary: Len(typed) when the device dropped the current /tty
  hk,         \* s.cfg.HotkeyBytes
  ws,         \* the current /tty socket: "open", "dropped" (by the device), "closed"
  epoch,      \* auxiliary: the number of /tty connections opened so far
  emitted,    \* chunks the device has sent
  taken,      \* last chunk read from /tty (chunks lost with a dead socket included)
  born,       \* auxiliary: born[c] = the connection chunk c was read from, 0 = not read
  tui,        \* s.tui
  tuiM,       \* s.tuiM # nil
  outBuf,     \* s.outBuf
  held,       \* positions of the hotkey prefix held back; s.hkMatch = Len(held)
  main,       \* control point of handleClient / runBridge
  reasonCh,   \* reasons the pumps of the current bridge have sent, in order
  wp,         \* control point of pumpWSToTCP; "done": not running
  tp,         \* control point of pumpTCPToWS; "done": not running
  nRead,      \* keystrokes read from TCP
  pos,        \* next keystroke to dispatch; pos..nRead is the rest of the chunk
  pending,    \* exitTUI's local copy of outBuf
  alt,        \* the client's terminal shows the alternate screen
  shown,      \* auxiliary: the chunks written to the client, in order
  leaked,     \* auxiliary: chunks written to the client since the TUI was opened
  trimmed,    \* auxiliary: chunks cut off outBuf by its cap
  fate,       \* auxiliary: what became of each keystroke
  delivered   \* auxiliary: the keystrokes that reached the device, in order

clientVars == <<client, stalled, typed, gapFrom, hk>>
wsVars     == <<ws, epoch, emitted>>
inVars     == <<taken, born>>
bufVars    == <<tui, tuiM, outBuf, trimmed>>
mainVars   == <<main, reasonCh>>
tpVars     == <<tp, nRead, pos, held, pending>>
screenVars == <<alt, shown, leaked>>
keyVars    == <<fate, delivered>>

vars == <<clientVars, wsVars, inVars, bufVars, mainVars, wp, tpVars, screenVars, keyVars>>

Chunks    == 1..MaxOut
Positions == 1..MaxKeys
Fates     == {"tcp", "held", "hotkey", "device", "tui", "lost", "discarded"}

\* Why a pump, or a dial, ended.  strings.HasPrefix(reason, "client") ends the
\* session, the others lead to a reconnect.
ClientReasons == {"client TCP write failed", "client closed connection", "client TCP read failed"}
Reasons       == ClientReasons \cup {"device WS closed", "device unreachable", "stopped"}

hkMatch == Len(held)

\* Mutant: exitTUI unlocks before it replays the buffer.
MuFree_UnlockEarly == tp # "exitRestore"

\* s.mu is held by exitTUI from its first assignment to its last write.
MuFree == tp \notin {"exitRestore", "exitFlush"}

\* Mutants: runBridge never sets the read deadline; it never clears it.
DeadlineSet_Never == FALSE
DeadlineSet_Kept  == main = "collect" \/ epoch > 1

\* The read deadline set by runBridge has passed and is not yet cleared.
DeadlineSet == main = "collect"

\* conn.Write returns (with an error when the client is gone); it blocks while
\* the client does not read.
WriteReturns == client = "gone" \/ ~stalled

Init ==
  /\ client = "up" /\ stalled = FALSE /\ typed = <<>> /\ gapFrom = MaxKeys
  /\ hk \in Hotkeys
  /\ ws = "closed" /\ epoch = 0 /\ emitted = 0 /\ taken = 0
  /\ born = [c \in Chunks |-> 0]
  /\ tui = FALSE /\ tuiM = FALSE /\ outBuf = <<>> /\ trimmed = {}
  /\ held = <<>>
  /\ main = "dial" /\ reasonCh = <<>>
  /\ wp = "done" /\ tp = "done"
  /\ nRead = 0 /\ pos = 1 /\ pending = <<>>
  /\ alt = FALSE /\ shown = <<>> /\ leaked = 0
  /\ fate = [i \in Positions |-> "tcp"] /\ delivered = <<>>

--------------------------------------------------------------------------------
(* The client and the device.                                              *)

ClientType ==
  /\ client = "up" /\ Len(typed) < MaxKeys
  /\ \E b \in Bytes : typed' = Append(typed, b)
  /\ UNCHANGED <<client, stalled, gapFrom, hk, wsVars, inVars, bufVars, mainVars, wp, tpVars,
                 screenVars, keyVars>>

ClientClose ==
  /\ \/ client = "up" /\ client' = "eof"
     \/ client \in {"up", "eof"} /\ client' = "gone"
  /\ UNCHANGED <<stalled, typed, gapFrom, hk, wsVars, inVars, bufVars, mainVars, wp, tpVars,
                 screenVars, keyVars>>

ClientStall ==
  /\ ~stalled /\ client # "gone"
  /\ stalled' = TRUE
  /\ UNCHANGED <<client, typed, gapFrom, hk, wsVars, inVars, bufVars, mainVars, wp, tpVars,
                 screenVars, keyVars>>

ClientResume ==
  /\ stalled
  /\ stalled' = FALSE
  /\ UNCHANGED <<client, typed, gapFrom, hk, wsVars, inVars, bufVars, mainVars, wp, tpVars,
                 screenVars, keyVars>>

DeviceOutput ==
  /\ ws = "open" /\ emitted < MaxOut
  /\ emitted' = emitted + 1
  /\ UNCHANGED <<clientVars, ws, epoch, inVars, bufVars, mainVars, wp, tpVars, screenVars, keyVars>>

DeviceDrop ==
  /\ ws = "open"
  /\ ws' = "dropped"
  /\ gapFrom' = Len(typed)
  /\ UNCHANGED <<client, stalled, typed, hk, epoch, emitted, inVars, bufVars, mainVars, wp, tpVars,
                 screenVars, keyVars>>

--------------------------------------------------------------------------------
(* handleClient and runBridge.                                             *)

\* The dial fails: reason = "device unreachable".
DialFail ==
  /\ main = "dial"
  /\ main' = "between" /\ reasonCh' = <<"device unreachable">>
  /\ UNCHANGED <<clientVars, wsVars, inVars, bufVars, wp, tpVars, screenVars, keyVars>>

\* The dial succeeds.  What was unread on the old socket is gone.
DialOK ==
  /\ main = "dial" /\ epoch < MaxConns
  /\ epoch' = epoch + 1
  /\ ws' = "open" /\ taken' = emitted /\ gapFrom' = MaxKeys
  /\ main' = "greet" /\ reasonCh' = <<>>
  /\ UNCHANGED <<client, stalled, typed, hk, emitted, born, bufVars, wp, tpVars, screenVars, keyVars>>

\* The greeting is written and runBridge starts both pumps.  On the first
\* connection a failed write ends the session; later the error of "[gateway]
\* reconnected." is ignored.
Greet ==
  /\ main = "greet" /\ WriteReturns
  /\ \/ /\ epoch = 1 /\ client = "gone"
        /\ main' = "over" /\ reasonCh' = <<"client TCP write failed">> /\ ws' = "closed"
        /\ UNCHANGED <<wp, tp>>
     \/ /\ epoch > 1 \/ client # "gone"
        /\ main' = "wait" /\ wp' = "read" /\ tp' = "read"
        /\ UNCHANGED <<ws, reasonCh>>
  /\ UNCHANGED <<clientVars, epoch, emitted, inVars, bufVars, nRead, pos, held, pending,
                 screenVars, keyVars>>

\* reason := <-reasonCh; ws.Close().
CollectFirst ==
  /\ main = "wait" /\ Len(reasonCh) >= 1
  /\ main' = "deadline" /\ ws' = "closed"
  /\ UNCHANGED <<clientVars, epoch, emitted, inVars, bufVars, reasonCh, wp, tpVars, screenVars, keyVars>>

\* SetReadDeadline(time.Now()).
SetDeadline ==
  /\ main = "deadline"
  /\ main' = "collect"
  /\ UNCHANGED <<clientVars, wsVars, inVars, bufVars, reasonCh, wp, tpVars, screenVars, keyVars>>

\* Mutant: the second receive is forgotten, the other pump still runs.
PumpsEnded_One == Len(reasonCh) >= 1

PumpsEnded == Len(reasonCh) = 2

\* Mutant: s.tui is read after it was cleared.
AfterTeardown_ReadLate == "between"

AfterTeardown == IF tui THEN "restore" ELSE "between"

\* <-reasonCh; the deadline is cleared and the TUI is torn down.
CollectSecond ==
  /\ main = "collect" /\ PumpsEnded
  /\ main' = AfterTeardown
  /\ tui' = FALSE /\ tuiM' = FALSE
  /\ UNCHANGED <<clientVars, wsVars, inVars, outBuf, trimmed, reasonCh, wp, tpVars, screenVars, keyVars>>

\* The write that leaves the alternate screen; its error is ignored.
RestoreScreen ==
  /\ main = "restore" /\ WriteReturns
  /\ main' = "between"
  /\ alt' = (alt /\ client = "gone")
  /\ UNCHANGED <<clientVars, wsVars, inVars, bufVars, reasonCh, wp, tpVars, shown, leaked, keyVars>>

\* Back in handleClient's loop: a client-side reason, a failed write of the
\* "console link lost" message, reconnect = false or too many attempts end the
\* session (the counting of attempts is module Gateway's).
EndSession ==
  /\ main = "between"
  /\ main' = "over"
  /\ UNCHANGED <<clientVars, wsVars, inVars, bufVars, reasonCh, wp, tpVars, screenVars, keyVars>>

\* Mutant: the error of that write is ignored.
LostLinkTold_Unchecked == WriteReturns

LostLinkTold == WriteReturns /\ client # "gone"

Retry ==
  /\ main = "between" /\ reasonCh[1] \notin ClientReasons
  /\ LostLinkTold
  /\ main' = "dial"
  /\ UNCHANGED <<clientVars, wsVars, inVars, bufVars, reasonCh, wp, tpVars, screenVars, keyVars>>

Main ==
  \/ DialFail \/ DialOK \/ Greet \/ CollectFirst \/ SetDeadline \/ CollectSecond
  \/ RestoreScreen \/ EndSession \/ Retry

--------------------------------------------------------------------------------
(* pumpWSToTCP.                                                            *)

WsPumpEnds(reason) ==
  /\ wp' = "done"
  /\ reasonCh' = Append(reasonCh, reason)
  /\ UNCHANGED main

\* ReadMessage returns data; frames already received are returned even after
\* the socket died.
WsRead ==
  /\ wp = "read" /\ taken < emitted
  /\ taken' = taken + 1
  /\ born' = [born EXCEPT ![taken + 1] = epoch]
  /\ wp' = "check"
  /\ UNCHANGED <<clientVars, wsVars, bufVars, mainVars, tpVars, screenVars, keyVars>>

\* Mutant: the pump tries again after an error.
WsReadError_Retried == wp = "read" /\ ws # "open" /\ UNCHANGED vars

WsReadError ==
  /\ wp = "read" /\ ws # "open"
  /\ WsPumpEnds("device WS closed")
  /\ UNCHANGED <<clientVars, wsVars, inVars, bufVars, tpVars, screenVars, keyVars>>

\* Mutant: the cap is off by one.
Capped_OffByOne(buf) == Len(buf) <= OutBufMax + 1
Capped(buf)          == Len(buf) <= OutBufMax

\* The critical section: buffer the chunk and cut the front off a full buffer,
\* or leave it with the decision to write the chunk.
WsBuffer ==
  /\ wp = "check" /\ MuFree /\ tui
  /\ LET full == Append(outBuf, taken)
     IN IF Capped(full)
          THEN outBuf' = full /\ UNCHANGED trimmed
          ELSE outBuf' = Tail(full) /\ trimmed' = trimmed \cup {Head(full)}
  /\ wp' = "read"
  /\ UNCHANGED <<clientVars, wsVars, inVars, tui, tuiM, mainVars, tpVars, screenVars, keyVars>>

\* Mutant: a reader that does not look at s.tui.
MayWrite_Always == MuFree

MayWrite == MuFree /\ ~tui

WsPass ==
  /\ wp = "check" /\ MayWrite
  /\ wp' = "write"
  /\ UNCHANGED <<clientVars, wsVars, inVars, bufVars, mainVars, tpVars, screenVars, keyVars>>

\* conn.Write(data), after s.mu was released.
WsWrite ==
  /\ wp = "write" /\ WriteReturns
  /\ \/ /\ client = "gone"
        /\ WsPumpEnds("client TCP write failed")
        /\ UNCHANGED <<shown, leaked>>
     \/ /\ client # "gone"
        /\ shown' = Append(shown, taken)
        /\ leaked' = IF tui THEN leaked + 1 ELSE leaked
        /\ wp' = "read"
        /\ UNCHANGED mainVars
  /\ UNCHANGED <<clientVars, wsVars, inVars, bufVars, tpVars, alt, keyVars>>

WsPump == WsRead \/ WsReadError \/ WsBuffer \/ WsPass \/ WsWrite

--------------------------------------------------------------------------------
(* pumpTCPToWS, handleInput, enterTUI, tuiFeed and exitTUI.                *)

Mark(S, f) == [i \in Positions |-> IF i \in S THEN f ELSE fate[i]]

\* handleInput's loop goes on at position p, or returns to conn.Read.
Continue(p) ==
  /\ pos' = p
  /\ tp' = IF p > nRead THEN "read" ELSE "scan"

\* The pump returns: the rest of its chunk is dropped.
TcpPumpEnds(reason) ==
  /\ tp' = "done"
  /\ pos' = nRead + 1
  /\ fate' = Mark(pos..nRead, "lost")
  /\ reasonCh' = Append(reasonCh, reason)
  /\ UNCHANGED main

\* conn.Read returns some of what the client typed; Process may also produce a
\* Telnet reply, written before the data is dispatched.
TcpRead ==
  /\ tp = "read" /\ ~DeadlineSet
  /\ \E n \in (nRead + 1)..Len(typed) : nRead' = n
  /\ tp' \in {"scan", "reply"}
  /\ UNCHANGED <<clientVars, wsVars, inVars, bufVars, mainVars, wp, pos, held, pending, screenVars, keyVars>>

TcpReadError ==
  /\ tp = "read"
  /\ \/ DeadlineSet /\ TcpPumpEnds("stopped")
     \/ ~DeadlineSet /\ client = "eof" /\ nRead = Len(typed) /\ TcpPumpEnds("client closed connection")
     \/ ~DeadlineSet /\ client = "gone" /\ TcpPumpEnds("client TCP read failed")
  /\ UNCHANGED <<clientVars, wsVars, inVars, bufVars, wp, nRead, held, pending, screenVars, delivered>>

TcpReply ==
  /\ tp = "reply" /\ WriteReturns
  /\ \/ client = "gone" /\ TcpPumpEnds("client TCP write failed")
     \/ client # "gone" /\ Continue(pos) /\ UNCHANGED <<mainVars, fate>>
  /\ UNCHANGED <<clientVars, wsVars, inVars, bufVars, wp, nRead, held, pending, screenVars, delivered>>

\* ws.WriteMessage succeeds: the keystrokes s arrive, or the kernel accepted
\* them for a connection the device has already dropped.
Sent(s) ==
  \/ ws = "open" /\ delivered' = delivered \o s /\ fate' = Mark(Range(s), "device")
  \/ ws = "dropped" /\ UNCHANGED delivered /\ fate' = Mark(Range(s), "lost")

\* ws.WriteMessage fails: handleInput and the pump return.
SendFails ==
  /\ ws # "open"
  /\ TcpPumpEnds("device WS closed")
  /\ UNCHANGED <<held, delivered>>

Scanning == tp = "scan" /\ ~tui

StartsHotkey == hk # <<>> /\ typed[pos] = hk[1]

\* A byte that neither starts nor continues the hotkey is forwarded.
ForwardByte ==
  /\ Scanning /\ hkMatch = 0 /\ ~StartsHotkey
  /\ \/ Sent(<<pos>>) /\ Continue(pos + 1) /\ UNCHANGED <<mainVars, held>>
     \/ SendFails
  /\ UNCHANGED <<clientVars, wsVars, inVars, bufVars, wp, nRead, pending, screenVars>>

\* A byte that starts or continues the hotkey is held; the last one opens the
\* TUI.
MatchByte ==
  /\ Scanning /\ hkMatch < Len(hk) /\ typed[pos] = hk[hkMatch + 1]
  /\ \/ /\ hkMatch + 1 < Len(hk)
        /\ held' = Append(held, pos)
        /\ fate' = Mark({pos}, "held")
        /\ Continue(pos + 1)
     \/ /\ hkMatch + 1 = Len(hk)
        /\ held' = <<>>
        /\ fate' = Mark(Range(held) \cup {pos}, "hotkey")
        /\ pos' = pos + 1 /\ tp' = "enter"
  /\ UNCHANGED <<clientVars, wsVars, inVars, bufVars, mainVars, wp, nRead, pending, screenVars, delivered>>

\* A broken partial match: the held prefix is forwarded as data and the byte is
\* examined again.  A failed write leaves hkMatch as it was.
\* Mutants: hkMatch is not reset; the prefix is dropped instead of sent.
ReleaseHeld_Kept    == Sent(held) /\ UNCHANGED held
ReleaseHeld_Dropped == held' = <<>> /\ UNCHANGED keyVars

ReleaseHeld == Sent(held) /\ held' = <<>>

BreakMatch ==
  /\ Scanning /\ hkMatch > 0 /\ typed[pos] # hk[hkMatch + 1]
  /\ \/ ReleaseHeld /\ UNCHANGED <<mainVars, tp, pos>>
     \/ SendFails
  /\ UNCHANGED <<clientVars, wsVars, inVars, bufVars, wp, nRead, pending, screenVars>>

\* enterTUI: s.tui = true under the lock ...
EnterLock ==
  /\ tp = "enter"
  /\ tui' = TRUE /\ leaked' = 0
  /\ tp' = "load"
  /\ UNCHANGED <<clientVars, wsVars, inVars, tuiM, outBuf, trimmed, mainVars, wp, nRead, pos, held,
                 pending, alt, shown, keyVars>>

\* ... then the model and GET /disks (bounded by the HTTP timeout) ...
EnterLoad ==
  /\ tp = "load"
  /\ tuiM' = TRUE
  /\ tp' = "screen"
  /\ UNCHANGED <<clientVars, wsVars, inVars, tui, outBuf, trimmed, mainVars, wp, nRead, pos, held,
                 pending, screenVars, keyVars>>

\* ... then the alternate screen and the first frame; write errors are ignored.
EnterScreen ==
  /\ tp = "screen" /\ WriteReturns
  /\ alt' = (alt \/ client # "gone")
  /\ Continue(pos)
  /\ UNCHANGED <<clientVars, wsVars, inVars, bufVars, mainVars, wp, nRead, held, pending, shown,
                 leaked, keyVars>>

\* tuiFeed takes the whole rest of the chunk.  If one of its keys closes the TUI
\* the keys after it are dropped.  Whether a Quits key closes the TUI or only a
\* pane or an overlay is module-internal to the TUI, hence free here.
FeedTUI ==
  /\ tp = "scan" /\ tui
  /\ pos' = nRead + 1
  /\ \/ fate' = Mark(pos..nRead, "tui") /\ tp' = "draw"
     \/ \E k \in pos..nRead :
          /\ typed[k] \in Quits
          /\ fate' = [i \in Positions |-> IF i \in pos..k THEN "tui"
                                          ELSE IF i \in (k + 1)..nRead THEN "discarded"
                                          ELSE fate[i]]
          /\ tp' = "exit"
  /\ UNCHANGED <<clientVars, wsVars, inVars, bufVars, mainVars, wp, nRead, held, pending, screenVars, delivered>>

DrawTUI ==
  /\ tp = "draw" /\ WriteReturns
  /\ tp' = "read"
  /\ UNCHANGED <<clientVars, wsVars, inVars, bufVars, mainVars, wp, nRead, pos, held, pending,
                 screenVars, keyVars>>

\* Mutants: the buffer is cleared before it is copied; it is not cleared.
TakeBuffer_Cleared == pending' = <<>> /\ outBuf' = <<>>
TakeBuffer_Kept    == pending' = outBuf /\ UNCHANGED outBuf

TakeBuffer == pending' = outBuf /\ outBuf' = <<>>

\* exitTUI: take the lock, leave TUI mode and take the buffer; ...
ExitLock ==
  /\ tp = "exit"
  /\ tui' = FALSE /\ tuiM' = FALSE
  /\ TakeBuffer
  /\ tp' = "exitRestore"
  /\ UNCHANGED <<clientVars, wsVars, inVars, trimmed, mainVars, wp, nRead, pos, held, screenVars, keyVars>>

\* ... restore the console screen; ...
ExitRestore ==
  /\ tp = "exitRestore" /\ WriteReturns
  /\ alt' = (alt /\ client = "gone")
  /\ tp' = "exitFlush"
  /\ UNCHANGED <<clientVars, wsVars, inVars, bufVars, mainVars, wp, nRead, pos, held, pending,
                 shown, leaked, keyVars>>

\* ... replay the buffered output and release the lock.
ExitFlush ==
  /\ tp = "exitFlush" /\ WriteReturns
  /\ shown' = IF client = "gone" THEN shown ELSE shown \o pending
  /\ pending' = <<>>
  /\ tp' = "read"
  /\ UNCHANGED <<clientVars, wsVars, inVars, bufVars, mainVars, wp, nRead, pos, held, alt, leaked, keyVars>>

TcpPump ==
  \/ TcpRead \/ TcpReadError \/ TcpReply
  \/ ForwardByte \/ MatchByte \/ BreakMatch
  \/ EnterLock \/ EnterLoad \/ EnterScreen \/ FeedTUI \/ DrawTUI
  \/ ExitLock \/ ExitRestore \/ ExitFlush

--------------------------------------------------------------------------------

\* The session has ended; nothing more happens.
Finished == main = "over" /\ UNCHANGED vars

Environment ==
  /\ main # "over"
  /\ \/ ClientType \/ ClientClose \/ ClientStall \/ ClientResume
     \/ DeviceOutput \/ DeviceDrop

Next == Environment \/ Main \/ WsPump \/ TcpPump \/ Finished

Spec == Init /\ [][Next]_vars

\* Every goroutine is scheduled, and a conn.Write that can return infinitely
\* often does return.
GoroutineFairness == SF_vars(Main) /\ SF_vars(WsPump) /\ SF_vars(TcpPump)

\* Nothing obliges a client to read, a device to speak or a user to type.
FairSpec == Spec /\ GoroutineFairness

\* The additional assumption that a client which stopped reading reads again.
ReadingSpec == FairSpec /\ WF_vars(ClientResume)

--------------------------------------------------------------------------------
(* Properties.                                                             *)

Pumping == main \in {"wait", "deadline", "collect"}

TypeClient ==
  /\ client \in {"up", "eof", "gone"} /\ stalled \in BOOLEAN
  /\ typed \in Seq(Bytes) /\ Len(typed) <= MaxKeys /\ gapFrom \in 0..MaxKeys
  /\ hk \in Hotkeys

TypeDevice ==
  /\ ws \in {"open", "dropped", "closed"} /\ epoch \in 0..MaxConns
  /\ emitted \in 0..MaxOut /\ taken \in 0..emitted
  /\ born \in [Chunks -> 0..MaxConns]

TypeOutput ==
  /\ tui \in BOOLEAN /\ tuiM \in BOOLEAN /\ alt \in BOOLEAN /\ leaked \in Nat
  /\ outBuf \in Seq(Chunks) /\ Len(outBuf) <= OutBufMax
  /\ pending \in Seq(Chunks) /\ shown \in Seq(Chunks) /\ trimmed \subseteq Chunks

TypeThreads ==
  /\ main \in {"dial", "greet", "wait", "deadline", "collect", "restore", "between", "over"}
  /\ reasonCh \in Seq(Reasons)
  /\ wp \in {"read", "check", "write", "done"}
  /\ tp \in {"read", "reply", "scan", "enter", "load", "screen", "draw", "exit",
             "exitRestore", "exitFlush", "done"}

TypeKeys ==
  /\ held \in Seq(Positions) /\ (Len(held) < Len(hk) \/ held = <<>>)
  /\ nRead \in 0..Len(typed) /\ pos \in 1..(nRead + 1)
  /\ fate \in [Positions -> Fates] /\ delivered \in Seq(Positions)

\* Type correctness, with the cap of outBuf (tuiOutBufMax) and the bound of
\* s.hkMatch.
TypeOK == TypeClient /\ TypeDevice /\ TypeOutput /\ TypeThreads /\ TypeKeys

\* Of two chunks read from the same /tty connection the client never sees the
\* later one first, and no chunk twice: the lock exitTUI holds while it replays
\* outBuf, against pumpWSToTCP (bridge.go:176-189, tui.go:300-310).
ShownInOrder ==
  \A i, j \in DOMAIN shown :
    i < j /\ born[shown[i]] = born[shown[j]] => shown[i] < shown[j]

\* No console output vanishes while the client is there: every chunk read from
\* /tty is in the pump's hands, buffered, being replayed, on the client's screen,
\* or was cut off by the buffer's cap.
OutputAccounted ==
  client # "gone" =>
    \A c \in 1..taken :
      born[c] > 0 =>
        c \in (IF wp \in {"check", "write"} THEN {taken} ELSE {})
              \cup Range(outBuf) \cup Range(pending) \cup Range(shown) \cup trimmed

\* Console output read from the present connection is held back only while the
\* TUI is open ("replayed on exit", bridge.go:53).
HeldBackOnlyByTUI ==
  Pumping /\ ~tui => \A i \in DOMAIN outBuf : born[outBuf[i]] < epoch

\* The TUI owns the screen but for the one write that pumpWSToTCP had already
\* decided on when the TUI was opened.
AtMostOneLeak == leaked <= 1

\* The device receives keystrokes in the order they were typed, none twice, over
\* partial hotkey matches and reconnects.
KeysInOrder ==
  \A i, j \in DOMAIN delivered : i < j => delivered[i] < delivered[j]

\* The first /tty connection is there, and neither pump has ended.
FirstLink == epoch = 1 /\ ws = "open" /\ reasonCh = <<>>

\* The keystroke went to the device, to the TUI or into a hotkey, or is held.
Used(i) == i \in Range(delivered) \cup Range(held) \/ fate[i] \in {"hotkey", "tui"}

\* The keystroke was dropped, and so was everything typed since the key that
\* closed the TUI.
BehindQuit(i) ==
  \E k \in 1..(i - 1) :
    typed[k] \in Quits /\ fate[k] = "tui" /\ \A j \in (k + 1)..i : fate[j] = "discarded"

\* Until the first /tty connection ends, only one thing can happen to a keystroke
\* that handleInput has passed without using it: it was read together with the
\* key that closed the TUI and stood behind it (tui.go:319-322).
KeystrokesAccounted ==
  FirstLink => \A i \in 1..(pos - 1) : Used(i) \/ BehindQuit(i)

\* handleInput, tuiFeed and tuiDraw never find s.tuiM nil: runBridge clears it
\* only after pumpTCPToWS has returned.
NoNilModel ==
  (tp = "scan" /\ tui) \/ tp \in {"draw", "screen", "exit"} => tuiM

\* Whatever handleClient writes between two connections, or at the end, goes to
\* the console screen, not to the TUI's alternate screen.
ScreenRestored ==
  main \in {"dial", "greet", "between", "over"} /\ client # "gone" => ~alt

\* "stopped" only ever answers the deadline of runBridge itself, so it is never
\* the cause that runBridge returns (bridge.go:236).
StoppedIsNotACause == reasonCh # <<>> => reasonCh[1] # "stopped"

\* runBridge's teardown ends: closing the socket and the read deadline unblock
\* the other pump (bridge.go:317-324).
TeardownEnds == main \in {"deadline", "collect", "restore"} ~> main \in {"between", "over"}

\* A dropped /tty connection is noticed and closed.
DropNoticed == ws = "dropped" ~> ws = "closed"

\* A session whose client is gone ends.
GoneClientEnds == client = "gone" ~> main = "over"

\* What the session promises to its two ends, see ConsoleLink.
Link == INSTANCE ConsoleLink WITH conn <- epoch

LinkSpec == Link!Spec

(* What the comments and the README say, refuted by the runs *_claim_*.    *)

\* "console output buffered while tui is true (replayed on exit)"
\* (bridge.go:53): what exitTUI replays to a client that is there was buffered
\* while this TUI was open, hence read from the present connection.
ReplayOfThisTUI ==
  tp = "exitFlush" /\ client = "up" => \A i \in DOMAIN pending : born[pending[i]] = epoch

\* "Keystrokes typed during the gap are buffered by TCP and not lost" (README):
\* a keystroke typed after the device dropped the link is not lost.
GapKeysKept ==
  [][\A i \in Positions : fate'[i] = "lost" /\ fate[i] # "lost" => i <= gapFrom]_vars

\* "closing the WS ends a blocked ReadMessage/WriteMessage; a momentary read
\* deadline ends a blocked conn.Read" (bridge.go:318-319), for every client.
TeardownAlwaysEnds == TeardownEnds

================================================================================
