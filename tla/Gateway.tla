-------------------------------- MODULE Gateway --------------------------------
(***************************************************************************)
(* The gateway process: type Gateway of gateway-go/bridge.go, with one     *)
(* handleClient goroutine per accepted terminal and the session counter    *)
(* they share.  runBridge is one step here, with the causes it may return; *)
(* what happens inside it is module BridgeSession's.                       *)
(*                                                                         *)
(* Clients and the IMSAI device (its /tty and /cpa sockets, GET /system)   *)
(* are the environment.  Somebody may switch the machine's power and RUN   *)
(* at any time, so every report of them is a free choice.                  *)
(***************************************************************************)
EXTENDS Naturals, FiniteSets

CONSTANTS
  Clients,      \* the terminals that may be connected at a time
  MaxSessions,  \* cfg.MaxSessions
  TUI,          \* cfg.TUI
  Greets,       \* Initial() or --resize sends something on the first connection
  Reconnect,    \* cfg.Reconnect
  ReconnectMax  \* cfg.ReconnectMax, 0 = unlimited

ASSUME GatewayAssumption ==
  /\ IsFiniteSet(Clients)
  /\ MaxSessions \in Nat \ {0}
  /\ TUI \in BOOLEAN /\ Greets \in BOOLEAN /\ Reconnect \in BOOLEAN
  /\ ReconnectMax \in Nat

VARIABLES
  sessions,   \* g.sessions
  pc,         \* control point of handleClient
  client,     \* the terminal's side: "up", "closed" (FIN sent), "gone" (RST)
  conn,       \* the accepted connection: "none", "open", "closed"
  tty,        \* the session's /tty socket: "none", "open", "dropped" by the device
  cpa,        \* s.cpa: "nil", "open", "dead" (non-nil, but the device dropped it)
  cpaStatus,  \* s.cpaStatus
  announced,  \* announcedInit
  attempt,
  reason,
  state,      \* the result of machineState
  cpaDials,   \* auxiliary: how often the session dialled /cpa
  retries     \* auxiliary: reconnection attempts since the last connection

linkVars    == <<tty, cpa, cpaStatus, cpaDials>>
sessionVars == <<announced, attempt, reason, state, retries>>

vars == <<sessions, pc, conn, client, linkVars, sessionVars>>

\* RUN is off while the power is.
Machine  == {m \in [power : BOOLEAN, run : BOOLEAN] : m.run => m.power}
NoStatus == [power |-> FALSE, run |-> TRUE]   \* "": no machine is in this state
Unknown  == [known |-> FALSE, power |-> FALSE, run |-> FALSE]

\* strings.HasPrefix(reason, "client")
ClientReasons == {"client TCP write failed", "client closed connection", "client TCP read failed",
                  "client gone during reconnect"}
Reasons       == ClientReasons \cup {"unknown", "device unreachable", "device WS closed", "gave up"}

Init ==
  /\ sessions = 0
  /\ pc = [c \in Clients |-> "away"]
  /\ client = [c \in Clients |-> "up"]
  /\ conn = [c \in Clients |-> "none"]
  /\ tty = [c \in Clients |-> "none"]
  /\ cpa = [c \in Clients |-> "nil"]
  /\ cpaStatus = [c \in Clients |-> NoStatus]
  /\ announced = [c \in Clients |-> FALSE]
  /\ attempt = [c \in Clients |-> 0]
  /\ reason = [c \in Clients |-> "unknown"]
  /\ state = [c \in Clients |-> Unknown]
  /\ cpaDials = [c \in Clients |-> 0]
  /\ retries = [c \in Clients |-> 0]

Goto(c, label) == pc' = [pc EXCEPT ![c] = label]

--------------------------------------------------------------------------------
(* The terminals and the device.                                           *)

\* serve accepts the connection and starts handleClient.
Connect(c) ==
  /\ pc[c] = "away"
  /\ conn' = [conn EXCEPT ![c] = "open"]
  /\ Goto(c, "accepted")
  /\ UNCHANGED <<sessions, client, linkVars, sessionVars>>

Disconnect(c) ==
  /\ conn[c] = "open"
  /\ \/ client[c] = "up" /\ client' = [client EXCEPT ![c] = "closed"]
     \/ client[c] # "gone" /\ client' = [client EXCEPT ![c] = "gone"]
  /\ UNCHANGED <<sessions, pc, conn, linkVars, sessionVars>>

DeviceDropsTty(c) ==
  /\ tty[c] = "open"
  /\ tty' = [tty EXCEPT ![c] = "dropped"]
  /\ UNCHANGED <<sessions, pc, conn, client, cpa, cpaStatus, cpaDials, sessionVars>>

DeviceDropsCpa(c) ==
  /\ cpa[c] = "open"
  /\ cpa' = [cpa EXCEPT ![c] = "dead"]
  /\ UNCHANGED <<sessions, pc, conn, client, tty, cpaStatus, cpaDials, sessionVars>>

\* readCPALoop takes a status from /cpa; the panel task is silent while the
\* machine is off.  Nobody here reads a status that arrives later.
CpaReports(c) ==
  /\ cpa[c] = "open" /\ pc[c] = "settle"
  /\ \E m \in Machine : m.power /\ cpaStatus' = [cpaStatus EXCEPT ![c] = m]
  /\ UNCHANGED <<sessions, pc, conn, client, tty, cpa, cpaDials, sessionVars>>

--------------------------------------------------------------------------------
(* handleClient.                                                           *)

\* Mutant: the counter is compared with > instead of >=.
SlotFree_OffByOne == sessions <= MaxSessions

SlotFree == sessions < MaxSessions

\* The check and the increment are one critical section of g.mu.
Admit(c) ==
  /\ pc[c] = "accepted" /\ SlotFree
  /\ sessions' = sessions + 1
  /\ Goto(c, "dial")
  /\ UNCHANGED <<conn, client, linkVars, sessionVars>>

\* Mutant: a rejected client has been counted.
Reject_Counted(c) ==
  /\ pc[c] = "accepted" /\ ~SlotFree
  /\ sessions' = sessions + 1
  /\ conn' = [conn EXCEPT ![c] = "closed"]
  /\ Goto(c, "away")
  /\ UNCHANGED <<client, linkVars, sessionVars>>

Reject(c) ==
  /\ pc[c] = "accepted" /\ ~SlotFree
  /\ conn' = [conn EXCEPT ![c] = "closed"]
  /\ client' = [client EXCEPT ![c] = "up"]
  /\ Goto(c, "away")
  /\ UNCHANGED <<sessions, linkVars, sessionVars>>

\* conn.Write to c fails, or succeeds; a terminal that closed its
\* socket answers it with RST.
WriteFails(c) == client[c] = "gone"

Written(c) ==
  /\ ~WriteFails(c)
  /\ client' = [client EXCEPT ![c] = IF @ = "closed" THEN "gone" ELSE @]

\* Leaving the loop.
Break(c, why) ==
  /\ reason' = [reason EXCEPT ![c] = why]
  /\ Goto(c, "release")

DialFails(c) ==
  /\ pc[c] = "dial"
  /\ reason' = [reason EXCEPT ![c] = "device unreachable"]
  /\ Goto(c, "after")
  /\ UNCHANGED <<sessions, conn, client, linkVars, announced, attempt, state, retries>>

\* Mutant: the counter survives a successful connect.
AttemptAfterDial_Kept(c) == attempt[c]

AttemptAfterDial(c) == 0

\* Mutant: announcedInit is lost, every connection greets the terminal.
AfterDial_Greets(c) == "greet"

AfterDial(c) == IF announced[c] THEN "again" ELSE "greet"

Dials(c) ==
  /\ pc[c] = "dial"
  /\ tty' = [tty EXCEPT ![c] = "open"]
  /\ attempt' = [attempt EXCEPT ![c] = AttemptAfterDial(c)]
  /\ retries' = [retries EXCEPT ![c] = 0]
  /\ Goto(c, AfterDial(c))
  /\ UNCHANGED <<sessions, conn, client, cpa, cpaStatus, cpaDials, announced, reason, state>>

CloseTty(c) == tty' = [tty EXCEPT ![c] = "none"]

\* The Telnet announcement and the window size, if the configuration has any.
Greet(c) ==
  /\ pc[c] = "greet"
  /\ \/ /\ IF Greets THEN Written(c) ELSE UNCHANGED client
        /\ Goto(c, "cpa")
        /\ UNCHANGED <<tty, reason>>
     \/ Greets /\ WriteFails(c) /\ CloseTty(c) /\ Break(c, "client TCP write failed") /\ UNCHANGED client
  /\ UNCHANGED <<sessions, conn, cpa, cpaStatus, cpaDials, announced, attempt, state, retries>>

\* openCPA: best effort, and only while s.cpa is nil.
OpenCPA(c) ==
  /\ pc[c] = "cpa"
  /\ IF TUI /\ cpa[c] = "nil"
       THEN /\ cpa' \in {[cpa EXCEPT ![c] = "open"], cpa}
            /\ cpaDials' = [cpaDials EXCEPT ![c] = @ + 1]
       ELSE UNCHANGED <<cpa, cpaDials>>
  /\ Goto(c, "probe")
  /\ UNCHANGED <<sessions, conn, client, tty, cpaStatus, sessionVars>>

\* probeCPA sends "P" when s.cpa is there; to a dead socket that may fail.
ProbeCPA(c) ==
  /\ pc[c] = "probe"
  /\ \/ cpa[c] # "nil" /\ Goto(c, "settle")
     \/ cpa[c] # "open" /\ Goto(c, "http")
  /\ UNCHANGED <<sessions, conn, client, linkVars, sessionVars>>

\* After cpaSettle: the status readCPALoop has stored, if any.
ReadStatus(c) ==
  /\ pc[c] = "settle"
  /\ \/ /\ cpaStatus[c] # NoStatus
        /\ state' = [state EXCEPT ![c] = [known |-> TRUE, power |-> cpaStatus[c].power, run |-> cpaStatus[c].run]]
        /\ Goto(c, "banner")
     \/ cpaStatus[c] = NoStatus /\ Goto(c, "http") /\ UNCHANGED state
  /\ UNCHANGED <<sessions, conn, client, linkVars, announced, attempt, reason, retries>>

\* machineState's fallback GET /system reports the power; RUN is then off.
GetSystem(c) ==
  /\ pc[c] = "http"
  /\ \E answer \in {Unknown} \cup [known : {TRUE}, power : BOOLEAN, run : {FALSE}] :
       state' = [state EXCEPT ![c] = answer]
  /\ Goto(c, "banner")
  /\ UNCHANGED <<sessions, conn, client, linkVars, announced, attempt, reason, retries>>

Banner(c) ==
  /\ pc[c] = "banner"
  /\ \/ /\ Written(c)
        /\ announced' = [announced EXCEPT ![c] = TRUE]
        /\ state' = [state EXCEPT ![c] = Unknown]   \* a variable of this block
        /\ Goto(c, "bridge")
        /\ UNCHANGED <<tty, reason>>
     \/ WriteFails(c) /\ CloseTty(c) /\ Break(c, "client TCP write failed") /\ UNCHANGED <<client, announced, state>>
  /\ UNCHANGED <<sessions, conn, cpa, cpaStatus, cpaDials, attempt, retries>>

\* "[gateway] reconnected."; its error is ignored.
Again(c) ==
  /\ pc[c] = "again"
  /\ \/ Written(c)
     \/ WriteFails(c) /\ UNCHANGED client
  /\ Goto(c, "bridge")
  /\ UNCHANGED <<sessions, conn, linkVars, sessionVars>>

\* runBridge closes the socket and returns the first pump's cause.
RunBridge(c) ==
  /\ pc[c] = "bridge"
  /\ \E why \in {"device WS closed", "client closed connection", "client TCP read failed",
                 "client TCP write failed"} :
       /\ why = "device WS closed" => tty[c] = "dropped"
       /\ why = "client closed connection" => client[c] = "closed"
       /\ why \in {"client TCP read failed", "client TCP write failed"} => client[c] = "gone"
       /\ reason' = [reason EXCEPT ![c] = why]
  /\ tty' = [tty EXCEPT ![c] = "none"]
  /\ Goto(c, "after")
  /\ UNCHANGED <<sessions, conn, client, cpa, cpaStatus, cpaDials, announced, attempt, state, retries>>

TooMany(n) == ReconnectMax > 0 /\ n > ReconnectMax

\* A client-side end, or reconnect disabled, stops the session.
Stop(c) ==
  /\ pc[c] = "after"
  /\ reason[c] \in ClientReasons \/ ~Reconnect
  /\ Goto(c, "release")
  /\ UNCHANGED <<sessions, conn, client, linkVars, sessionVars>>

\* Too many attempts; the error of the message is ignored.
GiveUp(c) ==
  /\ pc[c] = "after" /\ reason[c] \notin ClientReasons /\ Reconnect
  /\ TooMany(attempt[c] + 1)
  /\ attempt' = [attempt EXCEPT ![c] = @ + 1]
  /\ \/ Written(c)
     \/ WriteFails(c) /\ UNCHANGED client
  /\ Break(c, "gave up")
  /\ UNCHANGED <<sessions, conn, linkVars, announced, state, retries>>

\* Mutant: the error of "console link lost" is ignored, the session goes on.
LinkLost_Unchecked(c) ==
  /\ Goto(c, "dial")
  /\ retries' = [retries EXCEPT ![c] = @ + 1]
  /\ UNCHANGED <<client, reason>>

\* "[gateway] console link lost", then the sleep before the next dial.
LinkLost(c) ==
  \/ /\ Written(c)
     /\ Goto(c, "dial")
     /\ retries' = [retries EXCEPT ![c] = @ + 1]
     /\ UNCHANGED reason
  \/ WriteFails(c) /\ Break(c, "client gone during reconnect") /\ UNCHANGED <<client, retries>>

Retry(c) ==
  /\ pc[c] = "after" /\ reason[c] \notin ClientReasons /\ Reconnect
  /\ ~TooMany(attempt[c] + 1)
  /\ attempt' = [attempt EXCEPT ![c] = @ + 1]
  /\ LinkLost(c)
  /\ UNCHANGED <<sessions, conn, linkVars, announced, state>>

\* The slot is given back, the terminal is closed, and at last the deferred
\* closeCPA runs.
Release(c) ==
  /\ pc[c] = "release"
  /\ sessions' = sessions - 1
  /\ Goto(c, "close")
  /\ UNCHANGED <<conn, client, linkVars, sessionVars>>

CloseConn(c) ==
  /\ pc[c] = "close"
  /\ conn' = [conn EXCEPT ![c] = "closed"]
  /\ Goto(c, "defer")
  /\ UNCHANGED <<sessions, client, linkVars, sessionVars>>

\* Mutant: no deferred closeCPA.
CpaAfterEnd_Open(c) == cpa[c]

CpaAfterEnd(c) == "nil"

\* The goroutine returns: its variables are gone, and another terminal may
\* come in the place of this one.
CloseCPA(c) ==
  /\ pc[c] = "defer"
  /\ cpa' = [cpa EXCEPT ![c] = CpaAfterEnd(c)]
  /\ cpaStatus' = [cpaStatus EXCEPT ![c] = NoStatus]
  /\ client' = [client EXCEPT ![c] = "up"]
  /\ announced' = [announced EXCEPT ![c] = FALSE]
  /\ attempt' = [attempt EXCEPT ![c] = 0]
  /\ reason' = [reason EXCEPT ![c] = "unknown"]
  /\ state' = [state EXCEPT ![c] = Unknown]
  /\ cpaDials' = [cpaDials EXCEPT ![c] = 0]
  /\ retries' = [retries EXCEPT ![c] = 0]
  /\ Goto(c, "away")
  /\ UNCHANGED <<sessions, conn, tty>>

HandleClient(c) ==
  \/ Admit(c) \/ Reject(c) \/ DialFails(c) \/ Dials(c) \/ Greet(c) \/ OpenCPA(c)
  \/ ProbeCPA(c) \/ ReadStatus(c) \/ GetSystem(c) \/ Banner(c) \/ Again(c) \/ RunBridge(c)
  \/ Stop(c) \/ GiveUp(c) \/ Retry(c) \/ Release(c) \/ CloseConn(c) \/ CloseCPA(c)

Environment(c) ==
  Connect(c) \/ Disconnect(c) \/ DeviceDropsTty(c) \/ DeviceDropsCpa(c) \/ CpaReports(c)

Next == \E c \in Clients : HandleClient(c) \/ Environment(c)

Spec == Init /\ [][Next]_vars

\* Every handleClient goroutine is scheduled.
FairSpec == Spec /\ \A c \in Clients : WF_vars(HandleClient(c))

--------------------------------------------------------------------------------
(* Properties.                                                             *)

Labels == {"away", "accepted", "dial", "greet", "cpa", "probe", "settle", "http", "banner", "again",
           "bridge", "after", "release", "close", "defer"}

TypeOK ==
  /\ sessions \in 0..MaxSessions
  /\ pc \in [Clients -> Labels]
  /\ client \in [Clients -> {"up", "closed", "gone"}]
  /\ conn \in [Clients -> {"none", "open", "closed"}]
  /\ tty \in [Clients -> {"none", "open", "dropped"}]
  /\ cpa \in [Clients -> {"nil", "open", "dead"}]
  /\ cpaStatus \in [Clients -> Machine \cup {NoStatus}]
  /\ announced \in [Clients -> BOOLEAN]
  /\ attempt \in [Clients -> Nat] /\ retries \in [Clients -> Nat] /\ cpaDials \in [Clients -> Nat]
  /\ reason \in [Clients -> Reasons]
  /\ state \in [Clients -> [known : BOOLEAN, power : BOOLEAN, run : BOOLEAN]]

\* The sessions that hold a slot.
Active == {c \in Clients : pc[c] \notin {"away", "accepted", "close", "defer"}}

\* The counter is the number of sessions being served, on every path through
\* handleClient's loop and its breaks; no slot is lost or given back twice, and none
\* is given back while the session has its /tty, so there are no more of those than slots.
SlotsCounted ==
  /\ sessions = Cardinality(Active)
  /\ \A c \in Clients : tty[c] # "none" => c \in Active

\* "reconnecting /cpa restarts its web server, so we must never reopen it"
\* (bridge.go:411-412): a session dials /cpa once at most, after its first
\* /tty, and what it got then it keeps to its end, through every reconnection.  The
\* comment of closeCPA says otherwise: "before reopening /tty so the next /tty is
\* opened before a fresh /cpa" (bridge.go:146-147).
CpaOpenedOnce ==
  [][\A c \in Clients :
       /\ cpaDials'[c] > cpaDials[c] => cpaDials[c] = 0 /\ ~announced[c]
       /\ cpa[c] # "nil" /\ cpa'[c] = "nil" => pc[c] = "defer"]_vars

\* A session leaves nothing open behind it.
NothingLeftOpen ==
  \A c \in Clients : pc[c] = "away" => tty[c] = "none" /\ cpa[c] = "nil" /\ conn[c] # "open"

\* The session that gives up has retried ReconnectMax times since it was last
\* connected, as the log says, and no session retries more often.
RetriesAsConfigured ==
  \A c \in Clients :
    /\ ReconnectMax > 0 => retries[c] <= ReconnectMax
    /\ reason[c] = "gave up" => retries[c] = ReconnectMax

\* The session of a terminal that disconnected ends and gives back its slot,
\* whether or not the device can be reached.
DisconnectEndsSession ==
  \A c \in Clients : client[c] # "up" /\ conn[c] = "open" ~> pc[c] = "away"

(* What comments say, refuted by the runs gateway_claim_*.                 *)

\* "The device allows one client per channel" (bridge.go:411): with one slot the
\* gateway holds at most one /cpa.
OneCpaPerSlot == Cardinality({c \in Clients : cpa[c] = "open"}) <= MaxSessions

================================================================================
