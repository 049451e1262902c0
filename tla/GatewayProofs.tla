------------------------------ MODULE GatewayProofs ------------------------------
(***************************************************************************)
(* Proofs about Gateway, for any number of terminals, slots and retries.   *)
(*                                                                         *)
(* What a session has open, and how often it has retried, follows from     *)
(* where its goroutine is: the invariant Session says so for each one on   *)
(* its own.  The slots are the one thing the sessions share: the counter   *)
(* is the number of goroutines between Admit and Release.                  *)
(***************************************************************************)
EXTENDS Gateway, TLAPS, FiniteSetTheorems

\* Types without the bound of the counter.
Types ==
  /\ sessions \in Int
  /\ pc \in [Clients -> Labels]
  /\ client \in [Clients -> {"up", "closed", "gone"}]
  /\ conn \in [Clients -> {"none", "open", "closed"}]
  /\ tty \in [Clients -> {"none", "open", "dropped"}]
  /\ cpa \in [Clients -> {"nil", "open", "dead"}]
  /\ cpaStatus \in [Clients -> Machine \cup {NoStatus}]
  /\ announced \in [Clients -> BOOLEAN]
  /\ attempt \in [Clients -> Nat] /\ retries \in [Clients -> Nat] /\ cpaDials \in [Clients -> Nat]
  /\ reason \in [Clients -> Reasons]
  /\ state \in [Clients -> [known : BOOLEAN, power : BOOLEAN, run : BOOLEAN]]

NotServed == {"away", "accepted"}            \* before Admit
Ending    == {"release", "close", "defer"}   \* the loop has been left
Connected == {"greet", "cpa", "probe", "settle", "http", "banner", "again", "bridge"}

\* What is open, what has been dialled and what has been retried, by control point.
Session(c) ==
  /\ tty[c] # "none" => pc[c] \in Connected
  /\ pc[c] \in NotServed => cpa[c] = "nil" /\ ~announced[c] /\ reason[c] = "unknown"
  /\ pc[c] = "away" => conn[c] # "open"
  /\ pc[c] = "defer" => conn[c] = "closed"
  /\ pc[c] \in {"greet", "cpa", "probe", "settle", "http", "banner"} => ~announced[c]
  /\ pc[c] \in {"again", "bridge"} => announced[c]
  /\ pc[c] \in NotServed \cup {"dial", "greet", "cpa", "after"} /\ ~announced[c] => cpaDials[c] = 0
  /\ pc[c] \notin Ending => attempt[c] = retries[c] /\ reason[c] # "gave up"
  /\ ReconnectMax > 0 => retries[c] <= ReconnectMax
  /\ reason[c] = "gave up" => retries[c] = ReconnectMax

Sessions == \A c \in Clients : Session(c)

Slots == sessions = Cardinality(Active) /\ sessions <= MaxSessions

\* Every step keeps the types.
LEMMA TypesStep ==
  ASSUME Types, NEW c \in Clients, HandleClient(c) \/ Environment(c)
  PROVE  Types'
<1> USE DEF linkVars, sessionVars, Goto
<1> DEFINE Report == [known : BOOLEAN, power : BOOLEAN, run : BOOLEAN]
           Side == {"up", "closed", "gone"}
<1>a. /\ \A v \in Labels : [pc EXCEPT ![c] = v] \in [Clients -> Labels]
      /\ \A v \in Side : [client EXCEPT ![c] = v] \in [Clients -> Side]
      /\ \A v \in Nat : [attempt EXCEPT ![c] = v] \in [Clients -> Nat]
      /\ \A v \in Nat : [retries EXCEPT ![c] = v] \in [Clients -> Nat]
      /\ \A v \in Report : [state EXCEPT ![c] = v] \in [Clients -> Report]
  BY DEF Types
<1>b. client[c] \in Side /\ attempt[c] \in Nat /\ retries[c] \in Nat /\ attempt[c] + 1 \in Nat
      /\ retries[c] + 1 \in Nat
  BY DEF Types
<1>c. {"dial", "cpa", "probe", "http", "banner", "bridge", "after", "release"} \subseteq Labels
  BY DEF Labels
<1>d. \A p, r \in BOOLEAN : [known |-> TRUE, power |-> p, run |-> r] \in Report
  OBVIOUS
<1>e. Unknown \in Report
  BY DEF Unknown
<1>g. pc \in [Clients -> Labels] /\ retries \in [Clients -> Nat] /\ state \in [Clients -> Report]
  BY DEF Types
<1>h. cpaStatus[c] # NoStatus => cpaStatus[c].power \in BOOLEAN /\ cpaStatus[c].run \in BOOLEAN
  BY DEF Types, Machine
<1>i. {Unknown} \cup [known : {TRUE}, power : BOOLEAN, run : {FALSE}] \subseteq Report
  BY <1>e
<1> HIDE DEF Report
<1>f. Written(c) \/ UNCHANGED client => client' \in [Clients -> Side]
  <2>1. (IF client[c] = "closed" THEN "gone" ELSE client[c]) \in Side
    BY <1>b
  <2> QED BY <1>a, <2>1 DEF Types, Written
<1>1. CASE Admit(c)
  BY <1>1 DEF Types, Labels, Admit, SlotFree
<1>2. CASE Reject(c)
  BY <1>2 DEF Types, Labels, Reject, SlotFree
<1>3. CASE DialFails(c)
  BY <1>3 DEF Types, Labels, DialFails, Reasons
<1>4. CASE Dials(c)
  BY <1>4 DEF Types, Labels, Dials, AttemptAfterDial, AfterDial
<1>5. CASE Greet(c)
  <2>1. client' \in [Clients -> {"up", "closed", "gone"}]
    BY <1>5, <1>f DEF Greet
  <2>2. tty' \in [Clients -> {"none", "open", "dropped"}]
    BY <1>5 DEF Types, Greet, CloseTty
  <2>3. pc' \in [Clients -> Labels]
    <3>1. pc' = [pc EXCEPT ![c] = "cpa"] \/ pc' = [pc EXCEPT ![c] = "release"]
      BY <1>5 DEF Greet, Break
    <3> QED BY <3>1, <1>a, <1>c
  <2>4. reason' \in [Clients -> Reasons]
    BY <1>5 DEF Types, Greet, Break, Reasons, ClientReasons
  <2>5. UNCHANGED <<sessions, conn, cpa, cpaStatus, announced, attempt, retries, cpaDials, state>>
    BY <1>5 DEF Greet
  <2> QED BY <2>1, <2>2, <2>3, <2>4, <2>5 DEF Types, Report
<1>6. CASE OpenCPA(c)
  <2>1. cpa' \in [Clients -> {"nil", "open", "dead"}]
    BY <1>6 DEF Types, OpenCPA
  <2>2. cpaDials' \in [Clients -> Nat]
    BY <1>6 DEF Types, OpenCPA
  <2>3. pc' \in [Clients -> Labels]
    <3>1. pc' = [pc EXCEPT ![c] = "probe"]
      BY <1>6 DEF OpenCPA
    <3> QED BY <3>1, <1>a, <1>c
  <2>4. UNCHANGED <<sessions, client, conn, tty, cpaStatus, announced, attempt, retries, reason, state>>
    BY <1>6 DEF OpenCPA
  <2> QED BY <2>1, <2>2, <2>3, <2>4 DEF Types, Report
<1>7. CASE ProbeCPA(c)
  BY <1>7 DEF Types, Labels, ProbeCPA
<1>8. CASE ReadStatus(c)
  <2>1. state' \in [Clients -> Report]
    BY <1>8, <1>a, <1>d, <1>e, <1>g, <1>h, <1>i DEF ReadStatus
  <2>2. pc' \in [Clients -> Labels]
    <3>1. pc' = [pc EXCEPT ![c] = "banner"] \/ pc' = [pc EXCEPT ![c] = "http"]
      BY <1>8 DEF ReadStatus
    <3> QED BY <3>1, <1>a, <1>c
  <2>3. UNCHANGED <<sessions, client, conn, tty, cpa, cpaStatus, announced, attempt, retries, cpaDials,
                    reason>>
    BY <1>8 DEF ReadStatus
  <2> QED BY <2>1, <2>2, <2>3 DEF Types, Report
<1>9. CASE GetSystem(c)
  <2>1. state' \in [Clients -> Report]
    <3>1. PICK answer \in {Unknown} \cup [known : {TRUE}, power : BOOLEAN, run : {FALSE}] :
            state' = [state EXCEPT ![c] = answer]
      BY <1>9 DEF GetSystem
    <3>2. answer \in Report
      BY <3>1, <1>i
    <3> QED BY <3>1, <3>2, <1>a
  <2>2. pc' \in [Clients -> Labels]
    <3>1. pc' = [pc EXCEPT ![c] = "banner"]
      BY <1>9 DEF GetSystem
    <3> QED BY <3>1, <1>a, <1>c
  <2>3. UNCHANGED <<sessions, client, conn, tty, cpa, cpaStatus, announced, attempt, retries, cpaDials,
                    reason>>
    BY <1>9 DEF GetSystem
  <2> QED BY <2>1, <2>2, <2>3 DEF Types, Report
<1>10. CASE Banner(c)
  <2>1. client' \in [Clients -> {"up", "closed", "gone"}]
    BY <1>10, <1>f DEF Banner
  <2>2. announced' \in [Clients -> BOOLEAN]
    BY <1>10 DEF Types, Banner
  <2>3. tty' \in [Clients -> {"none", "open", "dropped"}]
    BY <1>10 DEF Types, Banner, CloseTty
  <2>4. pc' \in [Clients -> Labels]
    <3>1. pc' = [pc EXCEPT ![c] = "bridge"] \/ pc' = [pc EXCEPT ![c] = "release"]
      BY <1>10 DEF Banner, Break
    <3> QED BY <3>1, <1>a, <1>c
  <2>5. reason' \in [Clients -> Reasons]
    BY <1>10 DEF Types, Banner, Break, Reasons, ClientReasons
  <2>6. state' \in [Clients -> Report]
    BY <1>10, <1>a, <1>d, <1>e, <1>g, <1>h, <1>i DEF Banner
  <2>7. UNCHANGED <<sessions, conn, cpa, cpaStatus, attempt, retries, cpaDials>>
    BY <1>10 DEF Banner
  <2> QED BY <2>1, <2>2, <2>3, <2>4, <2>5, <2>6, <2>7 DEF Types, Report
<1>11. CASE Again(c)
  BY <1>11 DEF Types, Labels, Again, Written, WriteFails
<1>12. CASE RunBridge(c)
  <2>1. reason' \in [Clients -> Reasons]
    BY <1>12 DEF Types, RunBridge, Reasons, ClientReasons
  <2>2. tty' \in [Clients -> {"none", "open", "dropped"}]
    BY <1>12 DEF Types, RunBridge
  <2>3. pc' \in [Clients -> Labels]
    <3>1. pc' = [pc EXCEPT ![c] = "after"]
      BY <1>12 DEF RunBridge
    <3> QED BY <3>1, <1>a, <1>c
  <2>4. UNCHANGED <<sessions, client, conn, cpa, cpaStatus, announced, attempt, retries, cpaDials, state>>
    BY <1>12 DEF RunBridge
  <2> QED BY <2>1, <2>2, <2>3, <2>4 DEF Types, Report
<1>13. CASE Stop(c)
  BY <1>13 DEF Types, Labels, Stop
<1>14. CASE GiveUp(c)
  <2>1. client' \in [Clients -> {"up", "closed", "gone"}]
    BY <1>14, <1>f DEF GiveUp
  <2>2. attempt' \in [Clients -> Nat]
    BY <1>14, <1>a, <1>b DEF GiveUp
  <2>3. pc' \in [Clients -> Labels]
    <3>1. pc' = [pc EXCEPT ![c] = "release"]
      BY <1>14 DEF GiveUp, Break, TooMany
    <3> QED BY <3>1, <1>a, <1>c
  <2>4. reason' \in [Clients -> Reasons]
    BY <1>14 DEF Types, GiveUp, Break, Reasons
  <2>5. UNCHANGED <<sessions, conn, tty, cpa, cpaStatus, announced, retries, cpaDials, state>>
    BY <1>14 DEF GiveUp
  <2> QED BY <2>1, <2>2, <2>3, <2>4, <2>5 DEF Types, Report
<1>15. CASE Retry(c)
  <2>1. client' \in [Clients -> {"up", "closed", "gone"}]
    BY <1>15, <1>f DEF Retry, LinkLost
  <2>2. attempt' \in [Clients -> Nat]
    BY <1>15, <1>a, <1>b DEF Retry
  <2>3. retries' \in [Clients -> Nat]
    BY <1>15, <1>a, <1>b, <1>g DEF Retry, LinkLost
  <2>4. pc' \in [Clients -> Labels]
    <3>1. pc' = [pc EXCEPT ![c] = "dial"] \/ pc' = [pc EXCEPT ![c] = "release"]
      BY <1>15 DEF Retry, LinkLost, Break, TooMany
    <3> QED BY <3>1, <1>a, <1>c
  <2>5. reason' \in [Clients -> Reasons]
    BY <1>15 DEF Types, Retry, LinkLost, Break, Reasons, ClientReasons
  <2>6. UNCHANGED <<sessions, conn, tty, cpa, cpaStatus, announced, cpaDials, state>>
    BY <1>15 DEF Retry
  <2> QED BY <2>1, <2>2, <2>3, <2>4, <2>5, <2>6 DEF Types, Report
<1>16. CASE Release(c)
  BY <1>16 DEF Types, Labels, Release
<1>17. CASE CloseConn(c)
  BY <1>17 DEF Types, Labels, CloseConn
<1>18. CASE CloseCPA(c)
  BY <1>18 DEF Types, Labels, CloseCPA, CpaAfterEnd, Unknown, Reasons
<1>19. CASE Connect(c)
  BY <1>19 DEF Types, Labels, Connect
<1>20. CASE Disconnect(c)
  BY <1>20 DEF Types, Labels, Disconnect
<1>21. CASE DeviceDropsTty(c)
  BY <1>21 DEF Types, Labels, DeviceDropsTty
<1>22. CASE DeviceDropsCpa(c)
  BY <1>22 DEF Types, Labels, DeviceDropsCpa
<1>23. CASE CpaReports(c)
  BY <1>23 DEF Types, Labels, CpaReports
<1> QED BY <1>1, <1>2, <1>3, <1>4, <1>5, <1>6, <1>7, <1>8, <1>9, <1>10, <1>11, <1>12, <1>13, <1>14,
           <1>15, <1>16, <1>17, <1>18, <1>19, <1>20, <1>21, <1>22, <1>23 DEF HandleClient, Environment


\* A step of one session leaves the others as they are.
LEMMA OthersUntouched ==
  ASSUME Types, NEW c \in Clients, HandleClient(c) \/ Environment(c), NEW x \in Clients, x # c
  PROVE  UNCHANGED <<pc[x], conn[x], tty[x], cpa[x], announced[x], attempt[x], reason[x], cpaDials[x],
                     retries[x]>>
<1> USE DEF linkVars, sessionVars, Goto
<1>1. CASE Admit(c)
  BY <1>1 DEF Types, Admit
<1>2. CASE Reject(c)
  BY <1>2 DEF Types, Reject
<1>3. CASE DialFails(c)
  BY <1>3 DEF Types, DialFails
<1>4. CASE Dials(c)
  BY <1>4 DEF Types, Dials, AttemptAfterDial, AfterDial
<1>5. CASE Greet(c)
  BY <1>5 DEF Types, Greet, CloseTty, Break
<1>6. CASE OpenCPA(c)
  BY <1>6 DEF Types, OpenCPA
<1>7. CASE ProbeCPA(c)
  BY <1>7 DEF Types, ProbeCPA
<1>8. CASE ReadStatus(c)
  BY <1>8 DEF Types, ReadStatus
<1>9. CASE GetSystem(c)
  BY <1>9 DEF Types, GetSystem
<1>10. CASE Banner(c)
  BY <1>10 DEF Types, Banner, CloseTty, Break
<1>11. CASE Again(c)
  BY <1>11 DEF Types, Again
<1>12. CASE RunBridge(c)
  BY <1>12 DEF Types, RunBridge
<1>13. CASE Stop(c)
  BY <1>13 DEF Types, Stop
<1>14. CASE GiveUp(c)
  BY <1>14 DEF Types, GiveUp, Break, TooMany
<1>15. CASE Retry(c)
  BY <1>15 DEF Types, Retry, LinkLost, Break, TooMany
<1>16. CASE Release(c)
  BY <1>16 DEF Types, Release
<1>17. CASE CloseConn(c)
  BY <1>17 DEF Types, CloseConn
<1>18. CASE CloseCPA(c)
  BY <1>18 DEF Types, CloseCPA, CpaAfterEnd
<1>19. CASE Connect(c)
  BY <1>19 DEF Types, Connect
<1>20. CASE Disconnect(c)
  BY <1>20 DEF Types, Disconnect
<1>21. CASE DeviceDropsTty(c)
  BY <1>21 DEF Types, DeviceDropsTty
<1>22. CASE DeviceDropsCpa(c)
  BY <1>22 DEF Types, DeviceDropsCpa
<1>23. CASE CpaReports(c)
  BY <1>23 DEF Types, CpaReports
<1> QED BY <1>1, <1>2, <1>3, <1>4, <1>5, <1>6, <1>7, <1>8, <1>9, <1>10, <1>11, <1>12, <1>13, <1>14,
           <1>15, <1>16, <1>17, <1>18, <1>19, <1>20, <1>21, <1>22, <1>23 DEF HandleClient, Environment

\* Every step of a session keeps its invariant.
LEMMA SessionStep ==
  ASSUME Types, NEW c \in Clients, Session(c), HandleClient(c) \/ Environment(c)
  PROVE  Session(c)'
<1> USE DEF linkVars, sessionVars, Goto
<1>1. CASE Admit(c)
  <2>1. /\ pc[c] = "accepted"
        /\ pc'[c] = "dial"
    BY <1>1 DEF Types, Admit
  <2>2. UNCHANGED <<conn, tty, cpa, announced, attempt, reason, cpaDials, retries>>
    BY <1>1 DEF Admit
  <2> QED BY <2>1, <2>2 DEF Session, NotServed, Ending, Connected
<1>2. CASE Reject(c)
  <2>1. /\ pc[c] = "accepted"
        /\ pc'[c] = "away" /\ conn'[c] = "closed"
    BY <1>2 DEF Types, Reject
  <2>2. UNCHANGED <<tty, cpa, announced, attempt, reason, cpaDials, retries>>
    BY <1>2 DEF Reject
  <2> QED BY <2>1, <2>2 DEF Session, NotServed, Ending, Connected
<1>3. CASE DialFails(c)
  <2>1. /\ pc[c] = "dial"
        /\ pc'[c] = "after" /\ reason'[c] = "device unreachable"
    BY <1>3 DEF Types, DialFails
  <2>2. UNCHANGED <<conn, tty, cpa, announced, attempt, cpaDials, retries>>
    BY <1>3 DEF DialFails
  <2> QED BY <2>1, <2>2 DEF Session, NotServed, Ending, Connected
<1>4. CASE Dials(c)
  <2>1. /\ pc[c] = "dial"
        /\ pc'[c] = (IF announced[c] THEN "again" ELSE "greet") /\ tty'[c] = "open"
        /\ attempt'[c] = 0 /\ retries'[c] = 0
    BY <1>4 DEF Types, Dials, AttemptAfterDial, AfterDial
  <2>2. UNCHANGED <<conn, cpa, announced, reason, cpaDials>>
    BY <1>4 DEF Dials, AttemptAfterDial, AfterDial
  <2>3. attempt[c] \in Nat /\ retries[c] \in Nat /\ ReconnectMax \in Nat
    BY GatewayAssumption DEF Types
  <2>n. retries'[c] \in Nat /\ 0 <= ReconnectMax
    BY <2>1, <2>2, <2>3
  <2>r. /\ ReconnectMax > 0 => retries[c] <= ReconnectMax
        /\ attempt[c] = retries[c] /\ reason[c] # "gave up"
    BY <2>1 DEF Session, Ending
  <2>4. ReconnectMax > 0 => retries'[c] <= ReconnectMax
    BY <2>1, <2>2, <2>3, <2>n, <2>r
  <2>5. reason'[c] = "gave up" => retries'[c] = ReconnectMax
    BY <2>1, <2>2, <2>3, <2>n, <2>r
  <2>6. pc'[c] \notin Ending => attempt'[c] = retries'[c] /\ reason'[c] # "gave up"
    BY <2>1, <2>2, <2>3 DEF Session, Ending
  <2> QED BY <2>1, <2>2, <2>4, <2>5, <2>6 DEF Session, NotServed, Ending, Connected
<1>5. CASE Greet(c)
  <2>1. /\ pc[c] = "greet"
        /\ \/ pc'[c] = "cpa" /\ tty'[c] = tty[c] /\ reason'[c] = reason[c]
           \/ pc'[c] = "release" /\ tty'[c] = "none" /\ reason'[c] = "client TCP write failed"
    BY <1>5 DEF Types, Greet, CloseTty, Break
  <2>2. UNCHANGED <<conn, cpa, announced, attempt, cpaDials, retries>>
    BY <1>5 DEF Greet, CloseTty, Break
  <2> QED BY <2>1, <2>2 DEF Session, NotServed, Ending, Connected
<1>6. CASE OpenCPA(c)
  <2>1. /\ pc[c] = "cpa"
        /\ pc'[c] = "probe"
    BY <1>6 DEF Types, OpenCPA
  <2>2. UNCHANGED <<conn, tty, announced, attempt, reason, retries>>
    BY <1>6 DEF OpenCPA
  <2> QED BY <2>1, <2>2 DEF Session, NotServed, Ending, Connected
<1>7. CASE ProbeCPA(c)
  <2>1. /\ pc[c] = "probe"
        /\ \/ pc'[c] = "settle"
           \/ pc'[c] = "http"
    BY <1>7 DEF Types, ProbeCPA
  <2>2. UNCHANGED <<conn, tty, cpa, announced, attempt, reason, cpaDials, retries>>
    BY <1>7 DEF ProbeCPA
  <2> QED BY <2>1, <2>2 DEF Session, NotServed, Ending, Connected
<1>8. CASE ReadStatus(c)
  <2>1. /\ pc[c] = "settle"
        /\ \/ pc'[c] = "banner"
           \/ pc'[c] = "http"
    BY <1>8 DEF Types, ReadStatus
  <2>2. UNCHANGED <<conn, tty, cpa, announced, attempt, reason, cpaDials, retries>>
    BY <1>8 DEF ReadStatus
  <2> QED BY <2>1, <2>2 DEF Session, NotServed, Ending, Connected
<1>9. CASE GetSystem(c)
  <2>1. /\ pc[c] = "http"
        /\ pc'[c] = "banner"
    BY <1>9 DEF Types, GetSystem
  <2>2. UNCHANGED <<conn, tty, cpa, announced, attempt, reason, cpaDials, retries>>
    BY <1>9 DEF GetSystem
  <2> QED BY <2>1, <2>2 DEF Session, NotServed, Ending, Connected
<1>10. CASE Banner(c)
  <2>1. /\ pc[c] = "banner"
        /\ \/ pc'[c] = "bridge" /\ tty'[c] = tty[c] /\ announced'[c] = TRUE /\ reason'[c] = reason[c]
           \/ pc'[c] = "release" /\ tty'[c] = "none" /\ announced'[c] = announced[c]
              /\ reason'[c] = "client TCP write failed"
    BY <1>10 DEF Types, Banner, CloseTty, Break
  <2>2. UNCHANGED <<conn, cpa, attempt, cpaDials, retries>>
    BY <1>10 DEF Banner, CloseTty, Break
  <2> QED BY <2>1, <2>2 DEF Session, NotServed, Ending, Connected
<1>11. CASE Again(c)
  <2>1. /\ pc[c] = "again"
        /\ pc'[c] = "bridge"
    BY <1>11 DEF Types, Again
  <2>2. UNCHANGED <<conn, tty, cpa, announced, attempt, reason, cpaDials, retries>>
    BY <1>11 DEF Again
  <2> QED BY <2>1, <2>2 DEF Session, NotServed, Ending, Connected
<1>12. CASE RunBridge(c)
  <2>1. /\ pc[c] = "bridge"
        /\ pc'[c] = "after" /\ tty'[c] = "none"
        /\ reason'[c] # "gave up"
    BY <1>12 DEF Types, RunBridge
  <2>2. UNCHANGED <<conn, cpa, announced, attempt, cpaDials, retries>>
    BY <1>12 DEF RunBridge
  <2> QED BY <2>1, <2>2 DEF Session, NotServed, Ending, Connected
<1>13. CASE Stop(c)
  <2>1. /\ pc[c] = "after"
        /\ pc'[c] = "release"
    BY <1>13 DEF Types, Stop
  <2>2. UNCHANGED <<conn, tty, cpa, announced, attempt, reason, cpaDials, retries>>
    BY <1>13 DEF Stop
  <2> QED BY <2>1, <2>2 DEF Session, NotServed, Ending, Connected
<1>14. CASE GiveUp(c)
  <2>1. /\ pc[c] = "after"
        /\ ReconnectMax > 0 /\ attempt[c] + 1 > ReconnectMax
        /\ pc'[c] = "release" /\ attempt'[c] = attempt[c] + 1 /\ reason'[c] = "gave up"
    BY <1>14 DEF Types, GiveUp, Break, TooMany
  <2>2. UNCHANGED <<conn, tty, cpa, announced, cpaDials, retries>>
    BY <1>14 DEF GiveUp, Break, TooMany
  <2>3. attempt[c] \in Nat /\ retries[c] \in Nat /\ ReconnectMax \in Nat
    BY GatewayAssumption DEF Types
  <2>n. retries'[c] \in Nat /\ 0 <= ReconnectMax
    BY <2>2, <2>3
  <2>r. /\ ReconnectMax > 0 => retries[c] <= ReconnectMax
        /\ attempt[c] = retries[c] /\ reason[c] # "gave up"
    BY <2>1 DEF Session, Ending
  <2>4. ReconnectMax > 0 => retries'[c] <= ReconnectMax
    BY <2>1, <2>2, <2>3, <2>n, <2>r
  <2>5. reason'[c] = "gave up" => retries'[c] = ReconnectMax
    <3>1. ReconnectMax > 0 /\ attempt[c] + 1 > ReconnectMax
      BY <2>1
    <3>2. retries[c] = ReconnectMax
      <4>1. \A a, m \in Nat : a <= m /\ a + 1 > m => a = m
        OBVIOUS
      <4> QED BY <4>1, <3>1, <2>3, <2>r
    <3> QED BY <3>2, <2>2
  <2>6. pc'[c] \notin Ending => attempt'[c] = retries'[c] /\ reason'[c] # "gave up"
    BY <2>1, <2>2, <2>3 DEF Session, Ending
  <2> QED BY <2>1, <2>2, <2>4, <2>5, <2>6 DEF Session, NotServed, Ending, Connected
<1>15. CASE Retry(c)
  <2>1. /\ pc[c] = "after"
        /\ ~(ReconnectMax > 0 /\ attempt[c] + 1 > ReconnectMax)
        /\ \/ pc'[c] = "dial" /\ attempt'[c] = attempt[c] + 1 /\ reason'[c] = reason[c]
              /\ retries'[c] = retries[c] + 1
           \/ pc'[c] = "release" /\ attempt'[c] = attempt[c] + 1
              /\ reason'[c] = "client gone during reconnect" /\ retries'[c] = retries[c]
    BY <1>15 DEF Types, Retry, LinkLost, Break, TooMany
  <2>2. UNCHANGED <<conn, tty, cpa, announced, cpaDials>>
    BY <1>15 DEF Retry, LinkLost, Break, TooMany
  <2>3. attempt[c] \in Nat /\ retries[c] \in Nat /\ ReconnectMax \in Nat
    BY GatewayAssumption DEF Types
  <2>n. retries'[c] \in Nat /\ 0 <= ReconnectMax
    <3>1. retries[c] + 1 \in Nat
      BY <2>3
    <3>2. retries'[c] = retries[c] \/ retries'[c] = retries[c] + 1
      BY <2>1
    <3> QED BY <3>1, <3>2, <2>3
  <2>r. /\ ReconnectMax > 0 => retries[c] <= ReconnectMax
        /\ attempt[c] = retries[c] /\ reason[c] # "gave up"
    BY <2>1 DEF Session, Ending
  <2>4. ReconnectMax > 0 => retries'[c] <= ReconnectMax
    <3>1. CASE retries'[c] = retries[c]
      BY <3>1, <2>r
    <3>2. CASE retries'[c] = retries[c] + 1
      <4>1. ~(ReconnectMax > 0 /\ attempt[c] + 1 > ReconnectMax)
        BY <2>1
      <4>2. ReconnectMax > 0 => retries[c] + 1 <= ReconnectMax
        <5>1. \A a, m \in Nat : ~(m > 0 /\ a + 1 > m) => (m > 0 => a + 1 <= m)
          OBVIOUS
        <5> QED BY <5>1, <4>1, <2>3, <2>r
      <4> QED BY <3>2, <4>2
    <3> QED BY <2>1, <3>1, <3>2
  <2>5. reason'[c] = "gave up" => retries'[c] = ReconnectMax
    BY <2>1, <2>2, <2>3, <2>n, <2>r
  <2>6. pc'[c] \notin Ending => attempt'[c] = retries'[c] /\ reason'[c] # "gave up"
    BY <2>1, <2>2, <2>3 DEF Session, Ending
  <2> QED BY <2>1, <2>2, <2>4, <2>5, <2>6 DEF Session, NotServed, Ending, Connected
<1>16. CASE Release(c)
  <2>1. /\ pc[c] = "release"
        /\ pc'[c] = "close"
    BY <1>16 DEF Types, Release
  <2>2. UNCHANGED <<conn, tty, cpa, announced, attempt, reason, cpaDials, retries>>
    BY <1>16 DEF Release
  <2> QED BY <2>1, <2>2 DEF Session, NotServed, Ending, Connected
<1>17. CASE CloseConn(c)
  <2>1. /\ pc[c] = "close"
        /\ pc'[c] = "defer" /\ conn'[c] = "closed"
    BY <1>17 DEF Types, CloseConn
  <2>2. UNCHANGED <<tty, cpa, announced, attempt, reason, cpaDials, retries>>
    BY <1>17 DEF CloseConn
  <2> QED BY <2>1, <2>2 DEF Session, NotServed, Ending, Connected
<1>18. CASE CloseCPA(c)
  <2>1. /\ pc[c] = "defer"
        /\ pc'[c] = "away" /\ cpa'[c] = "nil" /\ announced'[c] = FALSE /\ attempt'[c] = 0
        /\ reason'[c] = "unknown" /\ cpaDials'[c] = 0 /\ retries'[c] = 0
    BY <1>18 DEF Types, CloseCPA, CpaAfterEnd
  <2>2. UNCHANGED <<conn, tty>>
    BY <1>18 DEF CloseCPA, CpaAfterEnd
  <2>3. attempt[c] \in Nat /\ retries[c] \in Nat /\ ReconnectMax \in Nat
    BY GatewayAssumption DEF Types
  <2>n. retries'[c] \in Nat /\ 0 <= ReconnectMax
    BY <2>1, <2>2, <2>3
  <2>r. /\ ReconnectMax > 0 => retries[c] <= ReconnectMax
    BY <2>1 DEF Session, Ending
  <2>4. ReconnectMax > 0 => retries'[c] <= ReconnectMax
    BY <2>1, <2>2, <2>3, <2>n, <2>r
  <2>5. reason'[c] = "gave up" => retries'[c] = ReconnectMax
    BY <2>1, <2>2, <2>3, <2>n, <2>r
  <2>6. pc'[c] \notin Ending => attempt'[c] = retries'[c] /\ reason'[c] # "gave up"
    BY <2>1, <2>2, <2>3 DEF Session, Ending
  <2> QED BY <2>1, <2>2, <2>4, <2>5, <2>6 DEF Session, NotServed, Ending, Connected
<1>19. CASE Connect(c)
  <2>1. /\ pc[c] = "away"
        /\ pc'[c] = "accepted" /\ conn'[c] = "open"
    BY <1>19 DEF Types, Connect
  <2>2. UNCHANGED <<tty, cpa, announced, attempt, reason, cpaDials, retries>>
    BY <1>19 DEF Connect
  <2> QED BY <2>1, <2>2 DEF Session, NotServed, Ending, Connected
<1>20. CASE Disconnect(c)
  BY <1>20 DEF Disconnect, Session
<1>21. CASE DeviceDropsTty(c)
  <2>1. /\ tty[c] = "open"
        /\ tty'[c] = "dropped"
    BY <1>21 DEF Types, DeviceDropsTty
  <2>2. UNCHANGED <<pc, conn, cpa, announced, attempt, reason, cpaDials, retries>>
    BY <1>21 DEF DeviceDropsTty
  <2> QED BY <2>1, <2>2 DEF Session, NotServed, Ending, Connected
<1>22. CASE DeviceDropsCpa(c)
  <2>1. /\ cpa[c] = "open"
        /\ cpa'[c] = "dead"
    BY <1>22 DEF Types, DeviceDropsCpa
  <2>2. UNCHANGED <<pc, conn, tty, announced, attempt, reason, cpaDials, retries>>
    BY <1>22 DEF DeviceDropsCpa
  <2> QED BY <2>1, <2>2 DEF Session, NotServed, Ending, Connected
<1>23. CASE CpaReports(c)
  BY <1>23 DEF CpaReports, Session
<1> QED BY <1>1, <1>2, <1>3, <1>4, <1>5, <1>6, <1>7, <1>8, <1>9, <1>10, <1>11, <1>12, <1>13, <1>14,
           <1>15, <1>16, <1>17, <1>18, <1>19, <1>20, <1>21, <1>22, <1>23 DEF HandleClient, Environment

\* One session's step keeps the invariant of every session.
LEMMA SessionsStep ==
  ASSUME Types, Sessions, NEW c \in Clients, HandleClient(c) \/ Environment(c)
  PROVE  Sessions'
<1> SUFFICES ASSUME NEW x \in Clients PROVE Session(x)'
  BY DEF Sessions
<1>1. CASE x = c
  BY <1>1, SessionStep DEF Sessions
<1>2. CASE x # c
  <2>1. UNCHANGED <<pc[x], conn[x], tty[x], cpa[x], announced[x], attempt[x], reason[x], cpaDials[x],
                    retries[x]>>
    BY <1>2, OthersUntouched
  <2> QED BY <2>1 DEF Sessions, Session
<1> QED BY <1>1, <1>2

\* Only Admit and Release change who is being served.
LEMMA SlotsStep ==
  ASSUME Types, Slots, NEW c \in Clients, HandleClient(c) \/ Environment(c)
  PROVE  Slots'
<1> USE DEF linkVars, sessionVars, Goto
<1>a. IsFiniteSet(Active) /\ Cardinality(Active) \in Nat /\ MaxSessions \in Nat
  BY GatewayAssumption, FS_Subset, FS_CardinalityType DEF Active
<1>b. ASSUME sessions' = sessions,
             pc[c] \in {"away", "accepted", "close", "defer"} <=> pc'[c] \in {"away", "accepted",
             "close", "defer"}
      PROVE  Slots'
  <2>1. \A x \in Clients : x # c => pc'[x] = pc[x]
    BY OthersUntouched
  <2>2. Active' = Active
    BY <1>b, <2>1 DEF Active
  <2> QED BY <1>b, <2>2 DEF Slots
<1>1. CASE Admit(c)
  <2>1. pc[c] = "accepted" /\ sessions < MaxSessions /\ sessions' = sessions + 1
        /\ pc' = [pc EXCEPT ![c] = "dial"]
    BY <1>1 DEF Admit, SlotFree
  <2>2. c \notin Active /\ Active' = Active \cup {c}
    BY <2>1 DEF Active, Types
  <2>3. Cardinality(Active') = Cardinality(Active) + 1
    BY <2>2, <1>a, FS_AddElement
  <2> QED BY <2>1, <2>3, <1>a DEF Slots
<1>2. CASE Reject(c)
  BY <1>2, <1>b DEF Types, Reject
<1>3. CASE DialFails(c)
  BY <1>3, <1>b DEF Types, DialFails
<1>4. CASE Dials(c)
  BY <1>4, <1>b DEF Types, Dials, AttemptAfterDial, AfterDial
<1>5. CASE Greet(c)
  BY <1>5, <1>b DEF Types, Greet, CloseTty, Break
<1>6. CASE OpenCPA(c)
  BY <1>6, <1>b DEF Types, OpenCPA
<1>7. CASE ProbeCPA(c)
  BY <1>7, <1>b DEF Types, ProbeCPA
<1>8. CASE ReadStatus(c)
  BY <1>8, <1>b DEF Types, ReadStatus
<1>9. CASE GetSystem(c)
  BY <1>9, <1>b DEF Types, GetSystem
<1>10. CASE Banner(c)
  BY <1>10, <1>b DEF Types, Banner, CloseTty, Break
<1>11. CASE Again(c)
  BY <1>11, <1>b DEF Types, Again
<1>12. CASE RunBridge(c)
  BY <1>12, <1>b DEF Types, RunBridge
<1>13. CASE Stop(c)
  BY <1>13, <1>b DEF Types, Stop
<1>14. CASE GiveUp(c)
  BY <1>14, <1>b DEF Types, GiveUp, Break, TooMany
<1>15. CASE Retry(c)
  BY <1>15, <1>b DEF Types, Retry, LinkLost, Break, TooMany
<1>16. CASE Release(c)
  <2>1. pc[c] = "release" /\ sessions' = sessions - 1 /\ pc' = [pc EXCEPT ![c] = "close"]
    BY <1>16 DEF Release
  <2>2. c \in Active /\ Active' = Active \ {c}
    BY <2>1 DEF Active, Types
  <2>3. Cardinality(Active') = Cardinality(Active) - 1
    BY <2>2, <1>a, FS_RemoveElement
  <2> QED BY <2>1, <2>3, <1>a DEF Slots
<1>17. CASE CloseConn(c)
  BY <1>17, <1>b DEF Types, CloseConn
<1>18. CASE CloseCPA(c)
  BY <1>18, <1>b DEF Types, CloseCPA, CpaAfterEnd
<1>19. CASE Connect(c)
  BY <1>19, <1>b DEF Types, Connect
<1>20. CASE Disconnect(c)
  BY <1>20, <1>b DEF Types, Disconnect
<1>21. CASE DeviceDropsTty(c)
  BY <1>21, <1>b DEF Types, DeviceDropsTty
<1>22. CASE DeviceDropsCpa(c)
  BY <1>22, <1>b DEF Types, DeviceDropsCpa
<1>23. CASE CpaReports(c)
  BY <1>23, <1>b DEF Types, CpaReports
<1> QED BY <1>1, <1>2, <1>3, <1>4, <1>5, <1>6, <1>7, <1>8, <1>9, <1>10, <1>11, <1>12, <1>13, <1>14,
           <1>15, <1>16, <1>17, <1>18, <1>19, <1>20, <1>21, <1>22, <1>23 DEF HandleClient, Environment

Inv == Types /\ Sessions /\ Slots

LEMMA InvHolds == Spec => []Inv
<1>1. Init => Inv
  <2> SUFFICES ASSUME Init PROVE Inv
    OBVIOUS
  <2>1. Types
    BY DEF Init, Types, Labels, Unknown, Reasons
  <2>2. Sessions
    <3> SUFFICES ASSUME NEW c \in Clients PROVE Session(c)
      BY DEF Sessions
    <3>1. 0 <= ReconnectMax
      BY GatewayAssumption
    <3> QED BY <3>1 DEF Init, Session, NotServed, Ending, Connected
  <2>3. Slots
    <3>1. Active = {}
      BY DEF Init, Active
    <3>2. 0 <= MaxSessions
      BY GatewayAssumption
    <3> QED BY <3>1, <3>2, FS_EmptySet DEF Init, Slots
  <2> QED BY <2>1, <2>2, <2>3 DEF Inv
<1>2. Inv /\ [Next]_vars => Inv'
  <2> SUFFICES ASSUME Inv, [Next]_vars PROVE Inv'
    OBVIOUS
  <2>1. ASSUME NEW c \in Clients, HandleClient(c) \/ Environment(c) PROVE Inv'
    BY <2>1, TypesStep, SessionsStep, SlotsStep DEF Inv
  <2>2. CASE UNCHANGED vars
    BY <2>2 DEF Inv, Types, Sessions, Session, Slots, Active, vars, linkVars, sessionVars
  <2> QED BY <2>1, <2>2 DEF Next
<1> QED BY <1>1, <1>2, PTL DEF Spec

\* Every variable of the gateway keeps its type, and the counter never passes the
\* number of slots, however many terminals come at the same time.
THEOREM TypeCorrect == Spec => []TypeOK
<1>1. Inv => TypeOK
  <2>1. Types /\ Slots => sessions \in 0..MaxSessions
    <3> SUFFICES ASSUME Types, Slots PROVE sessions \in 0..MaxSessions
      OBVIOUS
    <3>1. IsFiniteSet(Active) /\ MaxSessions \in Nat
      BY GatewayAssumption, FS_Subset DEF Active
    <3>2. Cardinality(Active) \in Nat
      BY <3>1, FS_CardinalityType
    <3> QED BY <3>1, <3>2 DEF Slots
  <2> QED BY <2>1 DEF Inv, Types, TypeOK
<1> QED BY <1>1, InvHolds, PTL

\* The counter is the number of sessions between Admit and Release, and only
\* those have a /tty: handleClient gives back each slot once (bridge.go, g.sessions).
THEOREM SlotsCorrect == Spec => []SlotsCounted
<1>1. Inv => SlotsCounted
  <2> SUFFICES ASSUME Inv, NEW c \in Clients, tty[c] # "none" PROVE c \in Active
    BY DEF Inv, Slots, SlotsCounted
  <2> QED BY DEF Inv, Sessions, Session, Connected, Active
<1> QED BY <1>1, InvHolds, PTL

\* A session that has ended leaves neither its sockets nor its connection open
\* (the deferred closeCPA, conn.Close and runBridge's ws.Close).
THEOREM NothingLeft == Spec => []NothingLeftOpen
<1>1. Inv => NothingLeftOpen
  BY DEF Inv, Sessions, Session, NothingLeftOpen, Connected, NotServed
<1> QED BY <1>1, InvHolds, PTL

\* A session gives up after exactly ReconnectMax attempts since it was last connected.
THEOREM RetriesCorrect == Spec => []RetriesAsConfigured
<1>1. Inv => RetriesAsConfigured
  BY DEF Inv, Sessions, Session, RetriesAsConfigured
<1> QED BY <1>1, InvHolds, PTL

\* A session dials /cpa at most once and keeps it to its end (openCPA, closeCPA).
THEOREM CpaOnce == Spec => CpaOpenedOnce
<1>1. Inv /\ [Next]_vars =>
        [\A c \in Clients :
           /\ cpaDials'[c] > cpaDials[c] => cpaDials[c] = 0 /\ ~announced[c]
           /\ cpa[c] # "nil" /\ cpa'[c] = "nil" => pc[c] = "defer"]_vars
  <2> SUFFICES ASSUME Inv, NEW c \in Clients, HandleClient(c) \/ Environment(c), NEW x \in Clients
               PROVE  /\ cpaDials'[x] > cpaDials[x] => cpaDials[x] = 0 /\ ~announced[x]
                      /\ cpa[x] # "nil" /\ cpa'[x] = "nil" => pc[x] = "defer"
    BY DEF Next
  <2>1. Types /\ Session(c)
    BY DEF Inv, Sessions
  <2>2. cpaDials[x] \in Nat /\ ~(cpaDials[x] > cpaDials[x])
    BY <2>1 DEF Types
  <2>3. CASE x # c
    <3>1. cpaDials'[x] = cpaDials[x] /\ cpa'[x] = cpa[x]
      BY <2>1, <2>3, OthersUntouched
    <3> QED BY <3>1, <2>2
  <2>4. CASE x = c
    <3> USE DEF linkVars, sessionVars, Goto
    <3>1. CASE UNCHANGED <<cpa, cpaDials>>
      BY <3>1, <2>2
    <3>2. CASE OpenCPA(c)
      <4>1. pc[c] = "cpa" /\ (cpa[c] # "nil" => UNCHANGED <<cpa, cpaDials>>)
        BY <3>2 DEF OpenCPA
      <4>2. ~announced[c] /\ cpaDials[c] = 0
        BY <4>1, <2>1 DEF Session
      <4> QED BY <4>1, <4>2, <2>2, <2>4
    <3>3. CASE DeviceDropsCpa(c)
      <4>1. cpa'[c] = "dead" /\ UNCHANGED cpaDials
        BY <3>3, <2>1 DEF DeviceDropsCpa, Types
      <4> QED BY <4>1, <2>2, <2>4
    <3>4. CASE CloseCPA(c)
      <4>1. pc[c] = "defer" /\ cpaDials'[c] = 0
        BY <3>4, <2>1 DEF CloseCPA, Types
      <4>2. ~(0 > cpaDials[c])
        BY <2>2, <2>4
      <4> QED BY <4>1, <4>2, <2>4
    <3> QED BY <3>1, <3>2, <3>3, <3>4
          DEF HandleClient, Environment, Admit, Reject, DialFails, Dials, Greet, ProbeCPA, ReadStatus,
              GetSystem, Banner, Again, RunBridge, Stop, GiveUp, Retry, Release, CloseConn,
              Connect, Disconnect, DeviceDropsTty, CpaReports
  <2> QED BY <2>3, <2>4
<1> QED BY <1>1, InvHolds, PTL DEF Spec, CpaOpenedOnce

================================================================================
