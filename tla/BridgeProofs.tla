-------------------------------- MODULE BridgeProofs --------------------------------
(***************************************************************************)
(* Proofs about BridgeSession, for every hotkey, every number of           *)
(* keystrokes, chunks and connections, and every size of outBuf: types;    *)
(* the order in which a session hands on console output and keystrokes,    *)
(* and with it that BridgeSession implements ConsoleLink; and what it      *)
(* never loses and never leaves behind: the console screen, the TUI's      *)
(* screen, the cause of an end, the console output and the keystrokes.     *)
(***************************************************************************)
EXTENDS BridgeSession, SequenceTheorems, TLAPS

(* Types.                                                                  *)

\* What TypeOK needs to be inductive: a chunk in the pump's hands exists, and
\* handleInput's loop is inside its chunk.
PumpInv ==
  /\ wp \in {"check", "write"} => taken \in Chunks
  /\ tp = "scan" => pos <= nRead

TypeInv == TypeOK /\ PumpInv

USE BridgeAssumption DEF BridgeAssumption, Chunks, Positions

LEMMA MarkType ==
  ASSUME fate \in [Positions -> Fates], NEW S, NEW f \in Fates
  PROVE  Mark(S, f) \in [Positions -> Fates]
BY DEF Mark

\* What a returning pumpTCPToWS does to the types.
LEMMA TcpPumpEndsType ==
  ASSUME TypeInv, NEW r \in Reasons, TcpPumpEnds(r)
  PROVE  /\ tp' = "done" /\ main' = main
         /\ pos' = nRead + 1
         /\ fate' \in [Positions -> Fates]
         /\ reasonCh' \in Seq(Reasons)
BY MarkType DEF TcpPumpEnds, TypeInv, TypeOK, TypeThreads, TypeKeys, Fates

LEMMA ReasonsAre ==
  /\ {"client TCP write failed", "client closed connection", "client TCP read failed",
      "device WS closed", "device unreachable", "stopped"} \subseteq Reasons
  /\ \A r \in Reasons : <<r>> \in Seq(Reasons)
  /\ \A s \in Seq(Reasons), r \in Reasons : Append(s, r) \in Seq(Reasons)
<1>1. {"client TCP write failed", "client closed connection", "client TCP read failed",
      "device WS closed", "device unreachable", "stopped"} \subseteq Reasons
  BY DEF Reasons, ClientReasons
<1>2. \A r \in Reasons : <<r>> \in Seq(Reasons)
  OBVIOUS
<1>3. \A s \in Seq(Reasons), r \in Reasons : Append(s, r) \in Seq(Reasons)
  OBVIOUS
<1> QED
  BY <1>1, <1>2, <1>3

LEMMA InitType == Init => TypeInv
<1> SUFFICES ASSUME Init PROVE TypeInv
  OBVIOUS
<1> USE DEF Init
<1>1. TypeClient
  <2>1. typed \in Seq(Bytes) /\ Len(typed) <= MaxKeys
    OBVIOUS
  <2>2. client \in {"up", "eof", "gone"} /\ stalled \in BOOLEAN /\ hk \in Hotkeys
    OBVIOUS
  <2>3. gapFrom \in 0..MaxKeys
    OBVIOUS
  <2> QED
    BY ONLY <2>1, <2>2, <2>3 DEF TypeClient
<1>2. TypeDevice
  BY DEF TypeDevice
<1>3. TypeOutput
  <2>1. outBuf \in Seq(Chunks) /\ Len(outBuf) <= OutBufMax
    OBVIOUS
  <2>2. pending \in Seq(Chunks) /\ shown \in Seq(Chunks)
    OBVIOUS
  <2> QED
    BY <2>1, <2>2 DEF TypeOutput
<1>4. TypeThreads
  BY DEF TypeThreads
<1>5. TypeKeys
  BY DEF TypeKeys, Fates
<1>6. PumpInv
  BY DEF PumpInv
<1> QED
  BY <1>1, <1>2, <1>3, <1>4, <1>5, <1>6 DEF TypeInv, TypeOK

LEMMA EnvironmentType == TypeInv /\ Environment => TypeInv'
<1> SUFFICES ASSUME TypeInv, Environment PROVE TypeInv'
  OBVIOUS
<1> USE DEF TypeInv, TypeOK
<1>1. CASE ClientType
  <2> USE <1>1 DEF ClientType
  <2>1. TypeClient'
    BY DEF TypeClient, clientVars
  <2>2. TypeDevice'
    BY DEF TypeDevice, wsVars, inVars
  <2>3. TypeOutput'
    BY DEF TypeOutput, bufVars, screenVars, tpVars
  <2>4. TypeThreads'
    BY DEF TypeThreads, mainVars, tpVars
  <2>5. TypeKeys'
    BY DEF TypeKeys, tpVars, keyVars, clientVars
  <2>6. PumpInv'
    BY DEF PumpInv, TypeDevice, TypeThreads, TypeKeys, inVars, tpVars
  <2> QED
    BY <2>1, <2>2, <2>3, <2>4, <2>5, <2>6
<1>2. CASE ClientClose
  <2> USE <1>2 DEF ClientClose
  <2>1. TypeClient'
    BY DEF TypeClient, clientVars
  <2>2. TypeDevice'
    BY DEF TypeDevice, wsVars, inVars
  <2>3. TypeOutput'
    BY DEF TypeOutput, bufVars, screenVars, tpVars
  <2>4. TypeThreads'
    BY DEF TypeThreads, mainVars, tpVars
  <2>5. TypeKeys'
    BY DEF TypeKeys, tpVars, keyVars, clientVars
  <2>6. PumpInv'
    BY DEF PumpInv, TypeDevice, TypeThreads, TypeKeys, inVars, tpVars
  <2> QED
    BY <2>1, <2>2, <2>3, <2>4, <2>5, <2>6
<1>3. CASE ClientStall
  <2> USE <1>3 DEF ClientStall
  <2>1. TypeClient'
    BY DEF TypeClient, clientVars
  <2>2. TypeDevice'
    BY DEF TypeDevice, wsVars, inVars
  <2>3. TypeOutput'
    BY DEF TypeOutput, bufVars, screenVars, tpVars
  <2>4. TypeThreads'
    BY DEF TypeThreads, mainVars, tpVars
  <2>5. TypeKeys'
    BY DEF TypeKeys, tpVars, keyVars, clientVars
  <2>6. PumpInv'
    BY DEF PumpInv, TypeDevice, TypeThreads, TypeKeys, inVars, tpVars
  <2> QED
    BY <2>1, <2>2, <2>3, <2>4, <2>5, <2>6
<1>4. CASE ClientResume
  <2> USE <1>4 DEF ClientResume
  <2>1. TypeClient'
    BY DEF TypeClient, clientVars
  <2>2. TypeDevice'
    BY DEF TypeDevice, wsVars, inVars
  <2>3. TypeOutput'
    BY DEF TypeOutput, bufVars, screenVars, tpVars
  <2>4. TypeThreads'
    BY DEF TypeThreads, mainVars, tpVars
  <2>5. TypeKeys'
    BY DEF TypeKeys, tpVars, keyVars, clientVars
  <2>6. PumpInv'
    BY DEF PumpInv, TypeDevice, TypeThreads, TypeKeys, inVars, tpVars
  <2> QED
    BY <2>1, <2>2, <2>3, <2>4, <2>5, <2>6
<1>5. CASE DeviceOutput
  <2> USE <1>5 DEF DeviceOutput
  <2>1. TypeClient'
    BY DEF TypeClient, clientVars
  <2>2. TypeDevice'
    BY DEF TypeDevice, wsVars, inVars
  <2>3. TypeOutput'
    BY DEF TypeOutput, bufVars, screenVars, tpVars
  <2>4. TypeThreads'
    BY DEF TypeThreads, mainVars, tpVars
  <2>5. TypeKeys'
    BY DEF TypeKeys, tpVars, keyVars, clientVars
  <2>6. PumpInv'
    BY DEF PumpInv, TypeDevice, TypeThreads, TypeKeys, inVars, tpVars
  <2> QED
    BY <2>1, <2>2, <2>3, <2>4, <2>5, <2>6
<1>6. CASE DeviceDrop
  <2> USE <1>6 DEF DeviceDrop
  <2>1. TypeClient'
    BY DEF TypeClient, clientVars
  <2>2. TypeDevice'
    BY DEF TypeDevice, wsVars, inVars
  <2>3. TypeOutput'
    BY DEF TypeOutput, bufVars, screenVars, tpVars
  <2>4. TypeThreads'
    BY DEF TypeThreads, mainVars, tpVars
  <2>5. TypeKeys'
    BY DEF TypeKeys, tpVars, keyVars, clientVars
  <2>6. PumpInv'
    BY DEF PumpInv, TypeDevice, TypeThreads, TypeKeys, inVars, tpVars
  <2> QED
    BY <2>1, <2>2, <2>3, <2>4, <2>5, <2>6
<1> QED
  BY <1>1, <1>2, <1>3, <1>4, <1>5, <1>6 DEF Environment

LEMMA MainType == TypeInv /\ Main => TypeInv'
<1> SUFFICES ASSUME TypeInv, Main PROVE TypeInv'
  OBVIOUS
<1> USE DEF TypeInv, TypeOK
<1>1. CASE DialFail
  <2> USE <1>1 DEF DialFail
  <2>1. TypeClient'
    BY DEF TypeClient, clientVars
  <2>2. TypeDevice'
    BY DEF TypeDevice, wsVars, inVars
  <2>3. TypeOutput'
    BY DEF TypeOutput, bufVars, screenVars, tpVars
  <2>4. TypeThreads'
    BY ReasonsAre DEF TypeThreads, mainVars, tpVars
  <2>5. TypeKeys'
    BY DEF TypeKeys, tpVars, keyVars, clientVars
  <2>6. PumpInv'
    BY DEF PumpInv, TypeDevice, TypeThreads, TypeKeys, inVars, tpVars
  <2> QED
    BY <2>1, <2>2, <2>3, <2>4, <2>5, <2>6
<1>2. CASE DialOK
  <2> USE <1>2 DEF DialOK
  <2>1. TypeClient'
    BY DEF TypeClient, clientVars
  <2>2. TypeDevice'
    BY DEF TypeDevice, wsVars, inVars
  <2>3. TypeOutput'
    BY DEF TypeOutput, bufVars, screenVars, tpVars
  <2>4. TypeThreads'
    BY DEF TypeThreads, mainVars, tpVars
  <2>5. TypeKeys'
    BY DEF TypeKeys, tpVars, keyVars, clientVars
  <2>6. PumpInv'
    BY DEF PumpInv, TypeDevice, TypeThreads, TypeKeys, inVars, tpVars
  <2> QED
    BY <2>1, <2>2, <2>3, <2>4, <2>5, <2>6
<1>3. CASE Greet
  <2> USE <1>3 DEF Greet
  <2>1. TypeClient'
    BY DEF TypeClient, clientVars
  <2>2. TypeDevice'
    BY DEF TypeDevice, wsVars, inVars
  <2>3. TypeOutput'
    BY DEF TypeOutput, bufVars, screenVars, tpVars
  <2>4. TypeThreads'
    BY ReasonsAre DEF TypeThreads, mainVars, tpVars
  <2>5. TypeKeys'
    BY DEF TypeKeys, tpVars, keyVars, clientVars
  <2>6. PumpInv'
    BY DEF PumpInv, TypeDevice, TypeThreads, TypeKeys, inVars, tpVars
  <2> QED
    BY <2>1, <2>2, <2>3, <2>4, <2>5, <2>6
<1>4. CASE CollectFirst
  <2> USE <1>4 DEF CollectFirst
  <2>1. TypeClient'
    BY DEF TypeClient, clientVars
  <2>2. TypeDevice'
    BY DEF TypeDevice, wsVars, inVars
  <2>3. TypeOutput'
    BY DEF TypeOutput, bufVars, screenVars, tpVars
  <2>4. TypeThreads'
    BY DEF TypeThreads, mainVars, tpVars
  <2>5. TypeKeys'
    BY DEF TypeKeys, tpVars, keyVars, clientVars
  <2>6. PumpInv'
    BY DEF PumpInv, TypeDevice, TypeThreads, TypeKeys, inVars, tpVars
  <2> QED
    BY <2>1, <2>2, <2>3, <2>4, <2>5, <2>6
<1>5. CASE SetDeadline
  <2> USE <1>5 DEF SetDeadline
  <2>1. TypeClient'
    BY DEF TypeClient, clientVars
  <2>2. TypeDevice'
    BY DEF TypeDevice, wsVars, inVars
  <2>3. TypeOutput'
    BY DEF TypeOutput, bufVars, screenVars, tpVars
  <2>4. TypeThreads'
    BY DEF TypeThreads, mainVars, tpVars
  <2>5. TypeKeys'
    BY DEF TypeKeys, tpVars, keyVars, clientVars
  <2>6. PumpInv'
    BY DEF PumpInv, TypeDevice, TypeThreads, TypeKeys, inVars, tpVars
  <2> QED
    BY <2>1, <2>2, <2>3, <2>4, <2>5, <2>6
<1>6. CASE CollectSecond
  <2> USE <1>6 DEF CollectSecond, AfterTeardown
  <2>1. TypeClient'
    BY DEF TypeClient, clientVars
  <2>2. TypeDevice'
    BY DEF TypeDevice, wsVars, inVars
  <2>3. TypeOutput'
    BY DEF TypeOutput, bufVars, screenVars, tpVars
  <2>4. TypeThreads'
    BY DEF TypeThreads, mainVars, tpVars
  <2>5. TypeKeys'
    BY DEF TypeKeys, tpVars, keyVars, clientVars
  <2>6. PumpInv'
    BY DEF PumpInv, TypeDevice, TypeThreads, TypeKeys, inVars, tpVars
  <2> QED
    BY <2>1, <2>2, <2>3, <2>4, <2>5, <2>6
<1>7. CASE RestoreScreen
  <2> USE <1>7 DEF RestoreScreen
  <2>1. TypeClient'
    BY DEF TypeClient, clientVars
  <2>2. TypeDevice'
    BY DEF TypeDevice, wsVars, inVars
  <2>3. TypeOutput'
    BY DEF TypeOutput, bufVars, screenVars, tpVars
  <2>4. TypeThreads'
    BY DEF TypeThreads, mainVars, tpVars
  <2>5. TypeKeys'
    BY DEF TypeKeys, tpVars, keyVars, clientVars
  <2>6. PumpInv'
    BY DEF PumpInv, TypeDevice, TypeThreads, TypeKeys, inVars, tpVars
  <2> QED
    BY <2>1, <2>2, <2>3, <2>4, <2>5, <2>6
<1>8. CASE EndSession
  <2> USE <1>8 DEF EndSession
  <2>1. TypeClient'
    BY DEF TypeClient, clientVars
  <2>2. TypeDevice'
    BY DEF TypeDevice, wsVars, inVars
  <2>3. TypeOutput'
    BY DEF TypeOutput, bufVars, screenVars, tpVars
  <2>4. TypeThreads'
    BY DEF TypeThreads, mainVars, tpVars
  <2>5. TypeKeys'
    BY DEF TypeKeys, tpVars, keyVars, clientVars
  <2>6. PumpInv'
    BY DEF PumpInv, TypeDevice, TypeThreads, TypeKeys, inVars, tpVars
  <2> QED
    BY <2>1, <2>2, <2>3, <2>4, <2>5, <2>6
<1>9. CASE Retry
  <2> USE <1>9 DEF Retry
  <2>1. TypeClient'
    BY DEF TypeClient, clientVars
  <2>2. TypeDevice'
    BY DEF TypeDevice, wsVars, inVars
  <2>3. TypeOutput'
    BY DEF TypeOutput, bufVars, screenVars, tpVars
  <2>4. TypeThreads'
    BY DEF TypeThreads, mainVars, tpVars
  <2>5. TypeKeys'
    BY DEF TypeKeys, tpVars, keyVars, clientVars
  <2>6. PumpInv'
    BY DEF PumpInv, TypeDevice, TypeThreads, TypeKeys, inVars, tpVars
  <2> QED
    BY <2>1, <2>2, <2>3, <2>4, <2>5, <2>6
<1> QED
  BY <1>1, <1>2, <1>3, <1>4, <1>5, <1>6, <1>7, <1>8, <1>9 DEF Main

LEMMA WsPumpType == TypeInv /\ WsPump => TypeInv'
<1> SUFFICES ASSUME TypeInv, WsPump PROVE TypeInv'
  OBVIOUS
<1> USE DEF TypeInv, TypeOK
<1>1. CASE WsRead
  <2> USE <1>1 DEF WsRead
  <2>1. TypeClient'
    BY DEF TypeClient, clientVars
  <2>2. TypeDevice'
    BY DEF TypeDevice, wsVars, inVars
  <2>3. TypeOutput'
    BY DEF TypeOutput, bufVars, screenVars, tpVars
  <2>4. TypeThreads'
    BY DEF TypeThreads, mainVars, tpVars
  <2>5. TypeKeys'
    BY DEF TypeKeys, tpVars, keyVars, clientVars
  <2>6. PumpInv'
    BY DEF PumpInv, TypeDevice, TypeThreads, TypeKeys, inVars, tpVars
  <2> QED
    BY <2>1, <2>2, <2>3, <2>4, <2>5, <2>6
<1>2. CASE WsReadError
  <2> USE <1>2 DEF WsReadError, WsPumpEnds
  <2>1. TypeClient'
    BY DEF TypeClient, clientVars
  <2>2. TypeDevice'
    BY DEF TypeDevice, wsVars, inVars
  <2>3. TypeOutput'
    BY DEF TypeOutput, bufVars, screenVars, tpVars
  <2>4. TypeThreads'
    BY ReasonsAre DEF TypeThreads, mainVars, tpVars
  <2>5. TypeKeys'
    BY DEF TypeKeys, tpVars, keyVars, clientVars
  <2>6. PumpInv'
    BY DEF PumpInv, TypeDevice, TypeThreads, TypeKeys, inVars, tpVars
  <2> QED
    BY <2>1, <2>2, <2>3, <2>4, <2>5, <2>6
<1>3. CASE WsBuffer
  <2> USE <1>3 DEF WsBuffer, Capped
  <2>1. TypeClient'
    BY DEF TypeClient, clientVars
  <2>2. TypeDevice'
    BY DEF TypeDevice, wsVars, inVars
  <2>3. TypeOutput'
    <3> DEFINE full == Append(outBuf, taken)
    <3>0. taken \in Chunks /\ outBuf \in Seq(Chunks) /\ Len(outBuf) <= OutBufMax
      BY DEF TypeOutput, PumpInv
    <3>1. full \in Seq(Chunks) /\ Len(full) = Len(outBuf) + 1 /\ full # <<>>
      BY ONLY <3>0
    <3>2. Tail(full) \in Seq(Chunks) /\ Len(Tail(full)) = Len(outBuf) /\ Head(full) \in Chunks
      BY <3>1, HeadTailProperties DEF TypeOutput
    <3>3. /\ outBuf' \in Seq(Chunks) /\ Len(outBuf') <= OutBufMax /\ trimmed' \subseteq Chunks
      BY <3>1, <3>2 DEF TypeOutput
    <3> QED
      BY <3>3 DEF TypeOutput, screenVars, tpVars
  <2>4. TypeThreads'
    BY DEF TypeThreads, mainVars, tpVars
  <2>5. TypeKeys'
    BY DEF TypeKeys, tpVars, keyVars, clientVars
  <2>6. PumpInv'
    BY DEF PumpInv, TypeDevice, TypeThreads, TypeKeys, inVars, tpVars
  <2> QED
    BY <2>1, <2>2, <2>3, <2>4, <2>5, <2>6
<1>4. CASE WsPass
  <2> USE <1>4 DEF WsPass
  <2>1. TypeClient'
    BY DEF TypeClient, clientVars
  <2>2. TypeDevice'
    BY DEF TypeDevice, wsVars, inVars
  <2>3. TypeOutput'
    BY DEF TypeOutput, bufVars, screenVars, tpVars
  <2>4. TypeThreads'
    BY DEF TypeThreads, mainVars, tpVars
  <2>5. TypeKeys'
    BY DEF TypeKeys, tpVars, keyVars, clientVars
  <2>6. PumpInv'
    BY DEF PumpInv, TypeDevice, TypeThreads, TypeKeys, inVars, tpVars
  <2> QED
    BY <2>1, <2>2, <2>3, <2>4, <2>5, <2>6
<1>5. CASE WsWrite
  <2> USE <1>5 DEF WsWrite, WsPumpEnds
  <2>1. TypeClient'
    BY DEF TypeClient, clientVars
  <2>2. TypeDevice'
    BY DEF TypeDevice, wsVars, inVars
  <2>3. TypeOutput'
    <3>1. taken \in Chunks /\ shown \in Seq(Chunks) /\ leaked \in Nat
      BY DEF TypeOutput, PumpInv
    <3>2. shown' \in Seq(Chunks) /\ leaked' \in Nat
      <4>1. Append(shown, taken) \in Seq(Chunks)
        BY ONLY <3>1
      <4>2. shown' = shown \/ shown' = Append(shown, taken)
        OBVIOUS
      <4>3. leaked' = leaked \/ leaked' = leaked + 1
        BY DEF bufVars, screenVars
      <4>4. shown' \in Seq(Chunks)
        BY ONLY <3>1, <4>1, <4>2
      <4>5. leaked' \in Nat
        BY ONLY <3>1, <4>3
      <4> QED
        BY ONLY <4>4, <4>5
    <3> QED
      BY <3>2 DEF TypeOutput, bufVars, tpVars
  <2>4. TypeThreads'
    BY ReasonsAre DEF TypeThreads, mainVars, tpVars
  <2>5. TypeKeys'
    BY DEF TypeKeys, tpVars, keyVars, clientVars
  <2>6. PumpInv'
    BY DEF PumpInv, TypeDevice, TypeThreads, TypeKeys, inVars, tpVars
  <2> QED
    BY <2>1, <2>2, <2>3, <2>4, <2>5, <2>6
<1> QED
  BY <1>1, <1>2, <1>3, <1>4, <1>5 DEF WsPump

\* handleInput's loop going on at p.
LEMMA ContinueType ==
  ASSUME TypeInv, NEW p \in 1..(nRead + 1), Continue(p), nRead' = nRead
  PROVE  /\ pos' = p /\ pos' \in 1..(nRead' + 1)
         /\ tp' \in {"read", "scan"}
         /\ tp' = "scan" => pos' <= nRead'
BY DEF Continue, TypeInv, TypeOK, TypeKeys, TypeClient

\* Keystrokes handed to ws.WriteMessage.
LEMMA SentType ==
  ASSUME TypeInv, NEW s \in Seq(Positions), Sent(s)
  PROVE  delivered' \in Seq(Positions) /\ fate' \in [Positions -> Fates]
<1>1. delivered \in Seq(Positions) /\ fate \in [Positions -> Fates]
  BY DEF TypeInv, TypeOK, TypeKeys
<1>2. delivered \o s \in Seq(Positions)
  BY ONLY <1>1, s \in Seq(Positions)
<1>3. {"device", "lost"} \subseteq Fates
  BY DEF Fates
<1>4. Mark(Range(s), "device") \in [Positions -> Fates] /\ Mark(Range(s), "lost") \in [Positions -> Fates]
  BY <1>1, <1>3, MarkType
<1> QED
  BY <1>1, <1>2, <1>4 DEF Sent

\* The position being examined is one of the bytes read.
LEMMA PosInRange ==
  ASSUME TypeInv
  PROVE  /\ nRead \in 0..MaxKeys /\ pos \in 1..(nRead + 1)
         /\ tp = "scan" => pos \in Positions /\ pos + 1 \in 1..(nRead + 1)
BY DEF TypeInv, TypeOK, PumpInv, TypeKeys, TypeClient

LEMMA TypeKeysKept ==
  ASSUME TypeInv, nRead' = nRead, hk' = hk, typed' = typed, held' = held \/ held' = <<>>,
         delivered' \in Seq(Positions), fate' \in [Positions -> Fates], pos' \in 1..(nRead + 1)
  PROVE  TypeKeys'
<1>1. TypeKeys
  BY DEF TypeInv, TypeOK
<1>2. <<>> \in Seq(Positions)
  OBVIOUS
<1>3. held' \in Seq(Positions) /\ (Len(held') < Len(hk') \/ held' = <<>>)
  BY <1>1, <1>2 DEF TypeKeys
<1> QED
  BY <1>1, <1>3 DEF TypeKeys

LEMMA TcpPumpType == TypeInv /\ TcpPump => TypeInv'
<1> SUFFICES ASSUME TypeInv, TcpPump PROVE TypeInv'
  OBVIOUS
<1> USE DEF TypeInv, TypeOK
<1>1. CASE TcpRead
  <2> USE <1>1 DEF TcpRead
  <2>1. TypeClient'
    BY DEF TypeClient, clientVars
  <2>2. TypeDevice'
    BY DEF TypeDevice, wsVars, inVars
  <2>3. TypeOutput'
    BY DEF TypeOutput, bufVars, screenVars, tpVars
  <2>4. TypeThreads'
    BY DEF TypeThreads, mainVars, tpVars
  <2>5. TypeKeys'
    BY MarkType DEF TypeKeys, tpVars, keyVars, clientVars, Fates, PumpInv, TypeClient, TypeThreads
  <2>6. PumpInv'
    BY DEF PumpInv, TypeDevice, TypeThreads, TypeKeys, inVars, tpVars
  <2> QED
    BY <2>1, <2>2, <2>3, <2>4, <2>5, <2>6
<1>2. CASE TcpReadError
  <2> USE <1>2 DEF TcpReadError
  <2>1. TypeClient'
    BY DEF TypeClient, clientVars, TcpPumpEnds
  <2>2. TypeDevice'
    BY DEF TypeDevice, wsVars, inVars, TcpPumpEnds
  <2>3. TypeOutput'
    BY DEF TypeOutput, bufVars, screenVars, tpVars, TcpPumpEnds
  <2>4. TypeThreads'
    BY ReasonsAre DEF TypeThreads, mainVars, tpVars, TcpPumpEnds
  <2>5. TypeKeys'
    <3>1. nRead' = nRead /\ held' = held /\ hk' = hk /\ typed' = typed /\ delivered' = delivered
      BY DEF clientVars
    <3>2. pos' = nRead + 1 /\ fate' \in [Positions -> Fates]
      BY ReasonsAre, TcpPumpEndsType
    <3>3. delivered \in Seq(Positions)
      BY DEF TypeKeys
    <3>4. nRead + 1 \in 1..(nRead + 1)
      BY ONLY TypeInv, PosInRange
    <3> QED
      BY ONLY TypeInv, <3>1, <3>2, <3>3, <3>4, TypeKeysKept
  <2>6. PumpInv'
    BY DEF PumpInv, TypeDevice, TypeThreads, TypeKeys, inVars, tpVars, TcpPumpEnds
  <2> QED
    BY <2>1, <2>2, <2>3, <2>4, <2>5, <2>6
<1>3. CASE TcpReply
  <2> USE <1>3 DEF TcpReply
  <2>1. TypeClient'
    BY DEF TypeClient, clientVars, TcpPumpEnds, Continue
  <2>2. TypeDevice'
    BY DEF TypeDevice, wsVars, inVars, TcpPumpEnds, Continue
  <2>3. TypeOutput'
    BY DEF TypeOutput, bufVars, screenVars, tpVars, TcpPumpEnds, Continue
  <2>4. TypeThreads'
    BY ReasonsAre DEF TypeThreads, mainVars, tpVars, TcpPumpEnds, Continue
  <2>5. TypeKeys'
    <3>1. nRead' = nRead /\ held' = held /\ hk' = hk /\ typed' = typed /\ delivered' = delivered
      BY DEF clientVars, keyVars, tpVars
    <3>2. pos' \in 1..(nRead' + 1) /\ fate' \in [Positions -> Fates]
      <4>1. CASE client = "gone"
        <5>1. TcpPumpEnds("client TCP write failed")
          BY <4>1
        <5>2. pos' = nRead + 1 /\ fate' \in [Positions -> Fates]
          BY <5>1, TcpPumpEndsType, ReasonsAre
        <5> QED
          BY ONLY <3>1, <5>2, TypeInv, PosInRange
      <4>2. CASE client # "gone"
        BY <4>2, <3>1, ContinueType, PosInRange DEF TypeKeys
      <4> QED
        BY <4>1, <4>2
    <3> QED
      BY <3>1, <3>2 DEF TypeKeys
  <2>6. PumpInv'
    <3>1. nRead' = nRead /\ wp' = wp /\ taken' = taken
      BY DEF inVars
    <3>2. tp' = "scan" => pos' <= nRead'
      BY <3>1, ContinueType, PosInRange, TcpPumpEndsType, ReasonsAre
    <3> QED
      BY <3>1, <3>2 DEF PumpInv
  <2> QED
    BY <2>1, <2>2, <2>3, <2>4, <2>5, <2>6
<1>4. CASE ForwardByte
  <2> USE <1>4 DEF ForwardByte, Scanning
  <2>1. TypeClient'
    BY DEF TypeClient, clientVars, SendFails, TcpPumpEnds, Continue, Sent
  <2>2. TypeDevice'
    BY DEF TypeDevice, wsVars, inVars, SendFails, TcpPumpEnds, Continue, Sent
  <2>3. TypeOutput'
    BY DEF TypeOutput, bufVars, screenVars, tpVars, SendFails, TcpPumpEnds, Continue, Sent
  <2>4. TypeThreads'
    BY ReasonsAre DEF TypeThreads, mainVars, tpVars, SendFails, TcpPumpEnds, Continue, Sent
  <2>5. TypeKeys'
    <3>1. nRead' = nRead /\ hk' = hk /\ typed' = typed
      BY DEF clientVars, tpVars
    <3>2. CASE SendFails
      <4>1. TcpPumpEnds("device WS closed") /\ held' = held /\ delivered' = delivered
        BY <3>2 DEF SendFails
      <4>2. pos' = nRead + 1 /\ fate' \in [Positions -> Fates]
        BY <4>1, ReasonsAre, TcpPumpEndsType
      <4>3. delivered \in Seq(Positions) /\ nRead + 1 \in 1..(nRead + 1)
        BY PosInRange DEF TypeKeys
      <4> QED
        BY ONLY TypeInv, <3>1, <4>1, <4>2, <4>3, TypeKeysKept
    <3>3. CASE Sent(<<pos>>) /\ Continue(pos + 1) /\ UNCHANGED <<mainVars, held>>
      <4>1. pos \in Positions /\ pos + 1 \in 1..(nRead + 1)
        BY PosInRange
      <4>2. <<pos>> \in Seq(Positions)
        BY ONLY <4>1
      <4>3. delivered' \in Seq(Positions) /\ fate' \in [Positions -> Fates]
        BY ONLY <3>3, <4>2, SentType, TypeInv
      <4>4. pos' \in 1..(nRead' + 1)
        BY <3>1, <3>3, <4>1, ContinueType
      <4> QED
        BY <3>1, <3>3, <4>3, <4>4 DEF TypeKeys
    <3> QED
      BY <3>2, <3>3
  <2>6. PumpInv'
    <3>1. nRead' = nRead /\ wp' = wp /\ taken' = taken
      BY DEF inVars
    <3>2. CASE SendFails
      BY <3>1, <3>2, TcpPumpEndsType, ReasonsAre DEF PumpInv, SendFails
    <3>3. CASE Continue(pos + 1)
      BY <3>1, <3>3, ContinueType, PosInRange DEF PumpInv
    <3> QED
      BY <3>2, <3>3
  <2> QED
    BY <2>1, <2>2, <2>3, <2>4, <2>5, <2>6
<1>5. CASE MatchByte
  <2> USE <1>5 DEF MatchByte, Scanning, hkMatch
  <2>1. TypeClient'
    BY DEF TypeClient, clientVars, Continue
  <2>2. TypeDevice'
    BY DEF TypeDevice, wsVars, inVars, Continue
  <2>3. TypeOutput'
    BY DEF TypeOutput, bufVars, screenVars, tpVars, Continue
  <2>4. TypeThreads'
    BY DEF TypeThreads, mainVars, tpVars, Continue
  <2>5. TypeKeys'
    <3>1. nRead' = nRead /\ hk' = hk /\ typed' = typed /\ delivered' = delivered
      BY DEF clientVars, tpVars
    <3>2. pos \in Positions /\ pos + 1 \in 1..(nRead + 1) /\ pos' = pos + 1
      BY PosInRange DEF Continue
    <3>3. fate' \in [Positions -> Fates]
      <4>1. {"held", "hotkey"} \subseteq Fates /\ fate \in [Positions -> Fates]
        BY DEF Fates, TypeKeys
      <4>2. \A S : Mark(S, "held") \in [Positions -> Fates] /\ Mark(S, "hotkey") \in [Positions -> Fates]
        BY <4>1, MarkType
      <4> QED
        BY <4>2
    <3>4. held' \in Seq(Positions) /\ (Len(held') < Len(hk) \/ held' = <<>>)
      <4>1. held \in Seq(Positions)
        BY DEF TypeKeys
      <4>2. Append(held, pos) \in Seq(Positions) /\ Len(Append(held, pos)) = Len(held) + 1
        BY ONLY <4>1, <3>2
      <4>3. <<>> \in Seq(Positions)
        OBVIOUS
      <4> QED
        BY <4>2, <4>3
    <3> QED
      BY <3>1, <3>2, <3>3, <3>4 DEF TypeKeys
  <2>6. PumpInv'
    <3>1. nRead' = nRead /\ wp' = wp /\ taken' = taken
      BY DEF inVars, tpVars
    <3>2. tp' = "scan" => pos' <= nRead'
      BY <3>1, ContinueType, PosInRange
    <3> QED
      BY <3>1, <3>2 DEF PumpInv
  <2> QED
    BY <2>1, <2>2, <2>3, <2>4, <2>5, <2>6
<1>6. CASE BreakMatch
  <2> USE <1>6 DEF BreakMatch, Scanning, hkMatch
  <2>1. TypeClient'
    BY DEF TypeClient, clientVars, ReleaseHeld, SendFails, TcpPumpEnds, Sent
  <2>2. TypeDevice'
    BY DEF TypeDevice, wsVars, inVars, ReleaseHeld, SendFails, TcpPumpEnds, Sent
  <2>3. TypeOutput'
    BY DEF TypeOutput, bufVars, screenVars, tpVars, ReleaseHeld, SendFails, TcpPumpEnds, Sent
  <2>4. TypeThreads'
    BY ReasonsAre DEF TypeThreads, mainVars, tpVars, ReleaseHeld, SendFails, TcpPumpEnds, Sent
  <2>5. TypeKeys'
    <3>1. nRead' = nRead /\ hk' = hk /\ typed' = typed
      BY DEF clientVars, tpVars
    <3>2. CASE SendFails
      <4>1. TcpPumpEnds("device WS closed") /\ held' = held /\ delivered' = delivered
        BY <3>2 DEF SendFails
      <4>2. pos' = nRead + 1 /\ fate' \in [Positions -> Fates]
        BY <4>1, ReasonsAre, TcpPumpEndsType
      <4>3. delivered \in Seq(Positions) /\ nRead + 1 \in 1..(nRead + 1)
        BY PosInRange DEF TypeKeys
      <4> QED
        BY ONLY TypeInv, <3>1, <4>1, <4>2, <4>3, TypeKeysKept
    <3>3. CASE ReleaseHeld /\ UNCHANGED <<mainVars, tp, pos>>
      <4>1. held \in Seq(Positions)
        BY DEF TypeKeys
      <4>2. delivered' \in Seq(Positions) /\ fate' \in [Positions -> Fates]
        BY ONLY <3>3, <4>1, SentType, TypeInv DEF ReleaseHeld
      <4>3. pos' = pos /\ (held' = held \/ held' = <<>>)
        BY <3>3 DEF ReleaseHeld
      <4> QED
        BY ONLY TypeInv, <3>1, <4>2, <4>3, TypeKeysKept, PosInRange
    <3> QED
      BY <3>2, <3>3
  <2>6. PumpInv'
    BY DEF PumpInv, TypeDevice, TypeThreads, TypeKeys, inVars, tpVars, ReleaseHeld, SendFails, TcpPumpEnds, Sent
  <2> QED
    BY <2>1, <2>2, <2>3, <2>4, <2>5, <2>6
<1>7. CASE EnterLock
  <2> USE <1>7 DEF EnterLock
  <2>1. TypeClient'
    BY DEF TypeClient, clientVars
  <2>2. TypeDevice'
    BY DEF TypeDevice, wsVars, inVars
  <2>3. TypeOutput'
    BY DEF TypeOutput, bufVars, screenVars, tpVars
  <2>4. TypeThreads'
    BY DEF TypeThreads, mainVars, tpVars
  <2>5. TypeKeys'
    BY MarkType DEF TypeKeys, tpVars, keyVars, clientVars, Fates, PumpInv, TypeClient, TypeThreads
  <2>6. PumpInv'
    BY DEF PumpInv, TypeDevice, TypeThreads, TypeKeys, inVars, tpVars
  <2> QED
    BY <2>1, <2>2, <2>3, <2>4, <2>5, <2>6
<1>8. CASE EnterLoad
  <2> USE <1>8 DEF EnterLoad
  <2>1. TypeClient'
    BY DEF TypeClient, clientVars
  <2>2. TypeDevice'
    BY DEF TypeDevice, wsVars, inVars
  <2>3. TypeOutput'
    BY DEF TypeOutput, bufVars, screenVars, tpVars
  <2>4. TypeThreads'
    BY DEF TypeThreads, mainVars, tpVars
  <2>5. TypeKeys'
    BY MarkType DEF TypeKeys, tpVars, keyVars, clientVars, Fates, PumpInv, TypeClient, TypeThreads
  <2>6. PumpInv'
    BY DEF PumpInv, TypeDevice, TypeThreads, TypeKeys, inVars, tpVars
  <2> QED
    BY <2>1, <2>2, <2>3, <2>4, <2>5, <2>6
<1>9. CASE EnterScreen
  <2> USE <1>9 DEF EnterScreen
  <2>1. TypeClient'
    BY DEF TypeClient, clientVars, Continue
  <2>2. TypeDevice'
    BY DEF TypeDevice, wsVars, inVars, Continue
  <2>3. TypeOutput'
    BY DEF TypeOutput, bufVars, screenVars, tpVars, Continue
  <2>4. TypeThreads'
    BY DEF TypeThreads, mainVars, tpVars, Continue
  <2>5. TypeKeys'
    BY MarkType DEF TypeKeys, tpVars, keyVars, clientVars, Fates, PumpInv, TypeClient, TypeThreads, Continue
  <2>6. PumpInv'
    BY DEF PumpInv, TypeDevice, TypeThreads, TypeKeys, inVars, tpVars, Continue
  <2> QED
    BY <2>1, <2>2, <2>3, <2>4, <2>5, <2>6
<1>10. CASE FeedTUI
  <2> USE <1>10 DEF FeedTUI
  <2>1. TypeClient'
    BY DEF TypeClient, clientVars
  <2>2. TypeDevice'
    BY DEF TypeDevice, wsVars, inVars
  <2>3. TypeOutput'
    BY DEF TypeOutput, bufVars, screenVars, tpVars
  <2>4. TypeThreads'
    BY DEF TypeThreads, mainVars, tpVars
  <2>5. TypeKeys'
    BY MarkType DEF TypeKeys, tpVars, keyVars, clientVars, Fates, PumpInv, TypeClient, TypeThreads
  <2>6. PumpInv'
    BY DEF PumpInv, TypeDevice, TypeThreads, TypeKeys, inVars, tpVars
  <2> QED
    BY <2>1, <2>2, <2>3, <2>4, <2>5, <2>6
<1>11. CASE DrawTUI
  <2> USE <1>11 DEF DrawTUI
  <2>1. TypeClient'
    BY DEF TypeClient, clientVars
  <2>2. TypeDevice'
    BY DEF TypeDevice, wsVars, inVars
  <2>3. TypeOutput'
    BY DEF TypeOutput, bufVars, screenVars, tpVars
  <2>4. TypeThreads'
    BY DEF TypeThreads, mainVars, tpVars
  <2>5. TypeKeys'
    BY MarkType DEF TypeKeys, tpVars, keyVars, clientVars, Fates, PumpInv, TypeClient, TypeThreads
  <2>6. PumpInv'
    BY DEF PumpInv, TypeDevice, TypeThreads, TypeKeys, inVars, tpVars
  <2> QED
    BY <2>1, <2>2, <2>3, <2>4, <2>5, <2>6
<1>12. CASE ExitLock
  <2> USE <1>12 DEF ExitLock, TakeBuffer
  <2>1. TypeClient'
    BY DEF TypeClient, clientVars
  <2>2. TypeDevice'
    BY DEF TypeDevice, wsVars, inVars
  <2>3. TypeOutput'
    <3>1. <<>> \in Seq(Chunks) /\ Len(<<>>) = 0
      OBVIOUS
    <3>2. outBuf' \in Seq(Chunks) /\ Len(outBuf') <= OutBufMax
      BY <3>1
    <3>3. pending' \in Seq(Chunks)
      BY DEF TypeOutput
    <3> QED
      BY <3>2, <3>3 DEF TypeOutput, screenVars
  <2>4. TypeThreads'
    BY DEF TypeThreads, mainVars, tpVars
  <2>5. TypeKeys'
    BY MarkType DEF TypeKeys, tpVars, keyVars, clientVars, Fates, PumpInv, TypeClient, TypeThreads
  <2>6. PumpInv'
    BY DEF PumpInv, TypeDevice, TypeThreads, TypeKeys, inVars, tpVars
  <2> QED
    BY <2>1, <2>2, <2>3, <2>4, <2>5, <2>6
<1>13. CASE ExitRestore
  <2> USE <1>13 DEF ExitRestore
  <2>1. TypeClient'
    BY DEF TypeClient, clientVars
  <2>2. TypeDevice'
    BY DEF TypeDevice, wsVars, inVars
  <2>3. TypeOutput'
    BY DEF TypeOutput, bufVars, screenVars, tpVars
  <2>4. TypeThreads'
    BY DEF TypeThreads, mainVars, tpVars
  <2>5. TypeKeys'
    BY MarkType DEF TypeKeys, tpVars, keyVars, clientVars, Fates, PumpInv, TypeClient, TypeThreads
  <2>6. PumpInv'
    BY DEF PumpInv, TypeDevice, TypeThreads, TypeKeys, inVars, tpVars
  <2> QED
    BY <2>1, <2>2, <2>3, <2>4, <2>5, <2>6
<1>14. CASE ExitFlush
  <2> USE <1>14 DEF ExitFlush
  <2>1. TypeClient'
    BY DEF TypeClient, clientVars
  <2>2. TypeDevice'
    BY DEF TypeDevice, wsVars, inVars
  <2>3. TypeOutput'
    <3>1. shown \in Seq(Chunks) /\ pending \in Seq(Chunks)
      BY DEF TypeOutput
    <3>2. shown \o pending \in Seq(Chunks) /\ <<>> \in Seq(Chunks)
      BY ONLY <3>1
    <3> QED
      BY <3>1, <3>2 DEF TypeOutput, bufVars
  <2>4. TypeThreads'
    BY DEF TypeThreads, mainVars, tpVars
  <2>5. TypeKeys'
    BY MarkType DEF TypeKeys, tpVars, keyVars, clientVars, Fates, PumpInv, TypeClient, TypeThreads
  <2>6. PumpInv'
    BY DEF PumpInv, TypeDevice, TypeThreads, TypeKeys, inVars, tpVars
  <2> QED
    BY <2>1, <2>2, <2>3, <2>4, <2>5, <2>6
<1> QED
  BY <1>1, <1>2, <1>3, <1>4, <1>5, <1>6, <1>7, <1>8, <1>9, <1>10, <1>11, <1>12, <1>13, <1>14 DEF TcpPump

LEMMA TypeStep == TypeInv /\ [Next]_vars => TypeInv'
<1> SUFFICES ASSUME TypeInv, [Next]_vars PROVE TypeInv'
  OBVIOUS
<1>1. CASE UNCHANGED vars
  BY <1>1 DEF vars, clientVars, wsVars, inVars, bufVars, mainVars, tpVars, screenVars, keyVars,
              TypeInv, PumpInv, TypeOK, TypeClient, TypeDevice, TypeOutput, TypeThreads, TypeKeys
<1>2. CASE Finished
  BY <1>1, <1>2 DEF Finished
<1> QED
  BY <1>1, <1>2, EnvironmentType, MainType, WsPumpType, TcpPumpType DEF Next

\* Every variable keeps its type, and outBuf its cap, in every reachable state.
THEOREM TypeCorrect == Spec => []TypeOK
<1>1. TypeInv => TypeOK
  BY DEF TypeInv
<1> QED
  BY <1>1, InitType, TypeStep, PTL DEF Spec

HIDE BridgeAssumption DEF BridgeAssumption, Chunks, Positions

--------------------------------------------------------------------------------
(* Which threads run when, and what the locks and the channel guarantee.   *)

Finishing(p) == IF p = "done" THEN 1 ELSE 0

\* The pumps run, and the TUI is open, only inside runBridge; each pump sends
\* its reason as it ends; the TUI's states follow s.tui and s.tuiM.
ControlInv ==
  /\ wp # "done" \/ tp # "done" \/ tui => Pumping
  /\ Pumping => Len(reasonCh) = Finishing(wp) + Finishing(tp)
  /\ main = "greet" => reasonCh = <<>>
  /\ main \in {"greet", "wait", "deadline", "collect"} => epoch >= 1
  /\ tp \in {"load", "screen", "draw", "exit"} => tui
  /\ tui /\ tp # "load" => tuiM
  /\ ~MuFree => ~tui /\ outBuf = <<>>
  /\ MuFree => pending = <<>>

(* The order of console output.                                            *)

InHand == wp \in {"check", "write"}

Rising(s) == \A i, j \in 1..Len(s) : i < j => s[i] < s[j]

\* Every chunk of s was read, and before the chunk in the pump's hands.
Behind(s) ==
  \A i \in 1..Len(s) : s[i] <= taken /\ (InHand => s[i] < taken) /\ born[s[i]] \in 1..epoch

\* Chunks of one connection come in order when s is shown before t.
Before(s, t) ==
  \A i \in 1..Len(s), j \in 1..Len(t) : born[s[i]] = born[t[j]] => s[i] < t[j]

\* No chunk of s is from the present connection.
OldOnly(s) == \A i \in 1..Len(s) : born[s[i]] < epoch

OrderInv ==
  /\ InHand => born[taken] = epoch
  /\ Behind(shown) /\ Behind(outBuf) /\ Behind(pending)
  /\ Rising(outBuf) /\ Rising(pending)
  /\ ShownInOrder /\ Before(shown, outBuf) /\ Before(shown, pending)
  /\ wp = "write" => OldOnly(outBuf) /\ OldOnly(pending)
  /\ (Pumping \/ main = "greet") /\ ~tui => OldOnly(outBuf)

(* The order of keystrokes.                                                *)

\* What the device received was typed before what the hotkey matcher holds,
\* and that before what is still to be examined.
KeyInv ==
  /\ Rising(delivered) /\ Rising(held)
  /\ \A i \in 1..Len(delivered) : delivered[i] < pos
  /\ \A i \in 1..Len(held) : held[i] < pos
  /\ \A i \in 1..Len(delivered), j \in 1..Len(held) : delivered[i] < held[j]

--------------------------------------------------------------------------------

\* What the two pumps do to the control state, whatever they do to the data.
LEMMA AppendReason ==
  ASSUME TypeInv, NEW r
  PROVE  Len(Append(reasonCh, r)) = Len(reasonCh) + 1 /\ Len(reasonCh) \in Nat
<1>1. reasonCh \in Seq(Reasons)
  BY DEF TypeInv, TypeOK, TypeThreads
<1> QED
  BY <1>1

LEMMA WsPumpControl ==
  ASSUME TypeInv, WsReadError \/ WsWrite
  PROVE  /\ UNCHANGED <<main, tp, tui, tuiM, outBuf, pending, epoch>> /\ wp # "done"
         /\ \/ wp' = "read" /\ UNCHANGED reasonCh
            \/ wp' = "done" /\ Len(reasonCh') = Len(reasonCh) + 1
BY AppendReason DEF WsReadError, WsWrite, WsPumpEnds, mainVars, bufVars, tpVars, wsVars

LEMMA TcpPumpControl ==
  ASSUME TypeInv,
         TcpRead \/ TcpReadError \/ TcpReply \/ ForwardByte \/ MatchByte \/ BreakMatch
  PROVE  /\ UNCHANGED <<main, wp, tui, tuiM, outBuf, pending, epoch>>
         /\ tp \in {"read", "reply", "scan"}
         /\ \/ tp' \in {"read", "reply", "scan", "enter"} /\ UNCHANGED reasonCh
            \/ tp' = "done" /\ Len(reasonCh') = Len(reasonCh) + 1
<1> USE DEF mainVars, bufVars, tpVars, wsVars
<1>1. CASE TcpRead
  BY <1>1 DEF TcpRead
<1>2. CASE TcpReadError
  BY <1>2, AppendReason DEF TcpReadError, TcpPumpEnds
<1>3. CASE TcpReply
  BY <1>3, AppendReason DEF TcpReply, TcpPumpEnds, Continue
<1>4. CASE ForwardByte
  BY <1>4, AppendReason DEF ForwardByte, SendFails, TcpPumpEnds, Continue, Scanning
<1>5. CASE MatchByte
  BY <1>5 DEF MatchByte, Continue, Scanning
<1>6. CASE BreakMatch
  BY <1>6, AppendReason DEF BreakMatch, SendFails, TcpPumpEnds, ReleaseHeld, Sent, Scanning
<1> QED
  BY <1>1, <1>2, <1>3, <1>4, <1>5, <1>6

LEMMA FeedControl ==
  ASSUME FeedTUI
  PROVE  /\ UNCHANGED <<main, wp, tui, tuiM, outBuf, pending, epoch, reasonCh>>
         /\ tp = "scan" /\ tui /\ tp' \in {"draw", "exit"}
BY DEF FeedTUI, mainVars, bufVars, wsVars

LEMMA ControlInit == Init => ControlInv
BY DEF Init, ControlInv, MuFree, Pumping, Finishing

LEMMA ControlStep == TypeInv /\ ControlInv /\ [Next]_vars => ControlInv'
<1> SUFFICES ASSUME TypeInv, ControlInv, [Next]_vars PROVE ControlInv'
  OBVIOUS
<1>0. reasonCh \in Seq(Reasons) /\ epoch \in Nat /\ <<>> \in Seq(Reasons) /\ Len(<<>>) = 0
  BY DEF TypeInv, TypeOK, TypeThreads, TypeDevice
<1> USE DEF ControlInv, MuFree, Pumping, Finishing
<1>1. CASE ClientType
  BY <1>1 DEF ClientType, clientVars, wsVars, inVars, bufVars, mainVars, tpVars, screenVars, keyVars
<1>2. CASE ClientClose
  BY <1>2 DEF ClientClose, clientVars, wsVars, inVars, bufVars, mainVars, tpVars, screenVars, keyVars
<1>3. CASE ClientStall
  BY <1>3 DEF ClientStall, clientVars, wsVars, inVars, bufVars, mainVars, tpVars, screenVars, keyVars
<1>4. CASE ClientResume
  BY <1>4 DEF ClientResume, clientVars, wsVars, inVars, bufVars, mainVars, tpVars, screenVars, keyVars
<1>5. CASE DeviceOutput
  BY <1>5 DEF DeviceOutput, clientVars, wsVars, inVars, bufVars, mainVars, tpVars, screenVars, keyVars
<1>6. CASE DeviceDrop
  BY <1>6 DEF DeviceDrop, clientVars, wsVars, inVars, bufVars, mainVars, tpVars, screenVars, keyVars
<1>7. CASE DialFail
  BY <1>7 DEF DialFail, clientVars, wsVars, inVars, bufVars, mainVars, tpVars, screenVars, keyVars
<1>8. CASE DialOK
  BY <1>8, <1>0 DEF DialOK, clientVars, wsVars, inVars, bufVars, mainVars, tpVars, screenVars, keyVars
<1>9. CASE Greet
  <2>1. main = "greet" /\ reasonCh = <<>> /\ ~tui /\ UNCHANGED <<tui, tuiM, outBuf, pending, epoch>>
    BY <1>9 DEF Greet, bufVars
  <2>2. \/ main' = "over" /\ UNCHANGED <<wp, tp>>
        \/ main' = "wait" /\ wp' = "read" /\ tp' = "read" /\ UNCHANGED reasonCh
    BY <1>9 DEF Greet
  <2> QED
    BY <1>0, <2>1, <2>2
<1>10. CASE CollectFirst
  BY <1>10 DEF CollectFirst, clientVars, wsVars, inVars, bufVars, mainVars, tpVars, screenVars, keyVars
<1>11. CASE SetDeadline
  BY <1>11 DEF SetDeadline, clientVars, wsVars, inVars, bufVars, mainVars, tpVars, screenVars, keyVars
<1>12. CASE CollectSecond
  BY <1>12 DEF CollectSecond, AfterTeardown, PumpsEnded, clientVars, wsVars, inVars, bufVars, mainVars, tpVars, screenVars, keyVars
<1>13. CASE RestoreScreen
  BY <1>13 DEF RestoreScreen, clientVars, wsVars, inVars, bufVars, mainVars, tpVars, screenVars, keyVars
<1>14. CASE EndSession
  BY <1>14 DEF EndSession, clientVars, wsVars, inVars, bufVars, mainVars, tpVars, screenVars, keyVars
<1>15. CASE Retry
  BY <1>15 DEF Retry, clientVars, wsVars, inVars, bufVars, mainVars, tpVars, screenVars, keyVars
<1>16. CASE WsRead
  BY <1>16 DEF WsRead, clientVars, wsVars, inVars, bufVars, mainVars, tpVars, screenVars, keyVars
<1>17. CASE WsReadError
  BY <1>17, WsPumpControl
<1>18. CASE WsBuffer
  BY <1>18 DEF WsBuffer, Capped, clientVars, wsVars, inVars, bufVars, mainVars, tpVars, screenVars, keyVars
<1>19. CASE WsPass
  BY <1>19 DEF WsPass, MayWrite, clientVars, wsVars, inVars, bufVars, mainVars, tpVars, screenVars, keyVars
<1>20. CASE WsWrite
  BY <1>20, WsPumpControl
<1>21. CASE TcpRead
  BY <1>21, TcpPumpControl
<1>22. CASE TcpReadError
  BY <1>22, TcpPumpControl
<1>23. CASE TcpReply
  BY <1>23, TcpPumpControl
<1>24. CASE ForwardByte
  BY <1>24, TcpPumpControl
<1>25. CASE MatchByte
  BY <1>25, TcpPumpControl
<1>26. CASE BreakMatch
  BY <1>26, TcpPumpControl
<1>27. CASE EnterLock
  BY <1>27 DEF EnterLock, clientVars, wsVars, inVars, bufVars, mainVars, tpVars, screenVars, keyVars
<1>28. CASE EnterLoad
  BY <1>28 DEF EnterLoad, clientVars, wsVars, inVars, bufVars, mainVars, tpVars, screenVars, keyVars
<1>29. CASE EnterScreen
  BY <1>29 DEF EnterScreen, Continue, clientVars, wsVars, inVars, bufVars, mainVars, tpVars, screenVars, keyVars
<1>30. CASE FeedTUI
  BY <1>30, FeedControl
<1>31. CASE DrawTUI
  BY <1>31 DEF DrawTUI, clientVars, wsVars, inVars, bufVars, mainVars, tpVars, screenVars, keyVars
<1>32. CASE ExitLock
  BY <1>32 DEF ExitLock, TakeBuffer, clientVars, wsVars, inVars, bufVars, mainVars, tpVars, screenVars, keyVars
<1>33. CASE ExitRestore
  BY <1>33 DEF ExitRestore, clientVars, wsVars, inVars, bufVars, mainVars, tpVars, screenVars, keyVars
<1>34. CASE ExitFlush
  BY <1>34 DEF ExitFlush, clientVars, wsVars, inVars, bufVars, mainVars, tpVars, screenVars, keyVars
<1>35. CASE UNCHANGED vars
  BY <1>35 DEF vars, clientVars, wsVars, inVars, bufVars, mainVars, tpVars, screenVars, keyVars
<1>36. CASE Finished
  BY <1>36, <1>35 DEF Finished
<1> QED
  BY <1>1, <1>2, <1>3, <1>4, <1>5, <1>6, <1>7, <1>8, <1>9, <1>10,
     <1>11, <1>12, <1>13, <1>14, <1>15, <1>16, <1>17, <1>18, <1>19, <1>20,
     <1>21, <1>22, <1>23, <1>24, <1>25, <1>26, <1>27, <1>28, <1>29, <1>30,
     <1>31, <1>32, <1>33, <1>34, <1>35, <1>36
     DEF Next, Environment, Main, WsPump, TcpPump

--------------------------------------------------------------------------------

\* A step that touches no console output and opens no new connection.
LEMMA OrderKept ==
  ASSUME TypeInv, OrderInv,
         UNCHANGED <<taken, born, shown, outBuf, pending, epoch>>,
         wp' = wp \/ wp' \notin {"check", "write"},
         tui => tui' \/ ~(Pumping \/ main = "greet")',
         (Pumping \/ main = "greet")' => Pumping \/ main = "greet"
  PROVE  OrderInv'
<1>1. InHand' => InHand /\ wp' = wp
  BY DEF InHand
<1>2. Behind(shown)' /\ Behind(outBuf)' /\ Behind(pending)'
  BY <1>1 DEF OrderInv, Behind
<1>3. Rising(outBuf)' /\ Rising(pending)' /\ ShownInOrder' /\ Before(shown, outBuf)' /\ Before(shown, pending)'
  BY DEF OrderInv, Rising, ShownInOrder, Before
<1>4. /\ wp' = "write" => OldOnly(outBuf)' /\ OldOnly(pending)'
      /\ (Pumping \/ main = "greet")' /\ ~tui' => OldOnly(outBuf)'
  BY DEF OrderInv, OldOnly
<1>5. InHand' => born'[taken'] = epoch'
  BY <1>1 DEF OrderInv
<1> QED
  BY <1>2, <1>3, <1>4, <1>5 DEF OrderInv

LEMMA ChunkElement ==
  ASSUME NEW s \in Seq(Chunks), NEW i \in 1..Len(s)
  PROVE  s[i] \in Chunks /\ s[i] \in Nat
<1>1. s[i] \in Chunks
  BY ElementOfSeq
<1>2. Chunks \subseteq Nat
  BY DEF Chunks
<1> QED
  BY ONLY <1>1, <1>2

LEMMA PositionElement ==
  ASSUME NEW s \in Seq(Positions), NEW i \in 1..Len(s)
  PROVE  s[i] \in Positions /\ s[i] \in Nat
<1>1. s[i] \in Positions
  BY ElementOfSeq
<1>2. Positions \subseteq Nat
  BY DEF Positions
<1> QED
  BY ONLY <1>1, <1>2

LEMMA OrderInit == Init => OrderInv
<1> SUFFICES ASSUME Init PROVE OrderInv
  OBVIOUS
<1>1. Len(shown) = 0 /\ Len(outBuf) = 0 /\ Len(pending) = 0 /\ DOMAIN shown = {}
  BY DEF Init
<1> QED
  BY <1>1 DEF Init, OrderInv, InHand, Behind, Rising, Before, OldOnly, ShownInOrder, Pumping

LEMMA OrderEnvironment == TypeInv /\ OrderInv /\ Environment => OrderInv'
<1> SUFFICES ASSUME TypeInv, OrderInv, Environment PROVE OrderInv'
  OBVIOUS
<1>1. UNCHANGED <<taken, born, shown, outBuf, pending, epoch, wp, tui, main>>
  BY DEF Environment, ClientType, ClientClose, ClientStall, ClientResume, DeviceOutput, DeviceDrop,
         clientVars, wsVars, inVars, bufVars, mainVars, tpVars, screenVars
<1> QED
  BY <1>1, OrderKept DEF Pumping

LEMMA OrderMain == TypeInv /\ ControlInv /\ OrderInv /\ Main => OrderInv'
<1> SUFFICES ASSUME TypeInv, ControlInv, OrderInv, Main PROVE OrderInv'
  OBVIOUS
<1> USE DEF wsVars, inVars, bufVars, tpVars, screenVars
<1>1. CASE DialOK
  <2>1. /\ UNCHANGED <<born, shown, outBuf, pending, wp, tui>>
        /\ epoch' = epoch + 1 /\ taken' = emitted /\ main = "dial"
    BY <1>1 DEF DialOK
  <2>2. ~InHand /\ ~InHand' /\ wp' # "write"
    BY <2>1 DEF ControlInv, Pumping, InHand
  <2>3. epoch \in Nat /\ taken \in Nat /\ emitted \in Nat /\ taken <= emitted
    BY DEF TypeInv, TypeOK, TypeDevice
  <2>. shown \in Seq(Chunks) /\ outBuf \in Seq(Chunks) /\ pending \in Seq(Chunks)
    BY DEF TypeInv, TypeOK, TypeOutput
  <2>4. ASSUME NEW s \in Seq(Chunks), Behind(s)
        PROVE  \A i \in 1..Len(s) : s[i] <= taken' /\ born[s[i]] \in 1..epoch' /\ born[s[i]] < epoch'
    <3>1. TAKE i \in 1..Len(s)
    <3>2. s[i] \in Nat /\ s[i] <= taken /\ born[s[i]] \in 1..epoch
      BY <2>4, ChunkElement DEF Behind
    <3> QED
      BY <2>1, <2>3, <3>2
  <2>5. Behind(shown)' /\ Behind(outBuf)' /\ Behind(pending)'
    BY <2>1, <2>2, <2>4 DEF Behind, OrderInv
  <2>6. OldOnly(outBuf)'
    BY <2>1, <2>4 DEF OldOnly, OrderInv
  <2>7. Rising(outBuf)' /\ Rising(pending)' /\ ShownInOrder' /\ Before(shown, outBuf)' /\ Before(shown, pending)'
    BY <2>1 DEF OrderInv, Rising, ShownInOrder, Before
  <2> QED
    BY <2>2, <2>5, <2>6, <2>7 DEF OrderInv
<1>2. CASE CollectSecond
  <2>1. UNCHANGED <<taken, born, shown, outBuf, pending, epoch, wp>> /\ main' \in {"restore", "between"}
    BY <1>2 DEF CollectSecond, AfterTeardown
  <2> QED
    BY <2>1, OrderKept DEF Pumping
<1>3. CASE Greet
  <2>1. UNCHANGED <<taken, born, shown, outBuf, pending, epoch, tui>> /\ main = "greet"
    BY <1>3 DEF Greet
  <2>2. wp' = wp \/ wp' = "read"
    BY <1>3 DEF Greet
  <2> QED
    BY <2>1, <2>2, OrderKept
<1>4. CASE DialFail \/ CollectFirst \/ SetDeadline \/ RestoreScreen \/ EndSession \/ Retry
  <2>1. UNCHANGED <<taken, born, shown, outBuf, pending, epoch, wp, tui>>
    BY <1>4 DEF DialFail, CollectFirst, SetDeadline, RestoreScreen, EndSession, Retry
  <2>2. main' \in {"wait", "deadline", "collect", "greet"} => main \in {"wait", "deadline"}
    BY <1>4 DEF DialFail, CollectFirst, SetDeadline, RestoreScreen, EndSession, Retry
  <2> QED
    BY <2>1, <2>2, OrderKept DEF Pumping
<1> QED
  BY <1>1, <1>2, <1>3, <1>4 DEF Main

LEMMA OrderWsPump == TypeInv /\ ControlInv /\ OrderInv /\ WsPump => OrderInv'
<1> SUFFICES ASSUME TypeInv, ControlInv, OrderInv, WsPump PROVE OrderInv'
  OBVIOUS
<1>t. /\ shown \in Seq(Chunks) /\ outBuf \in Seq(Chunks) /\ pending \in Seq(Chunks)
      /\ epoch \in Nat /\ taken \in Nat /\ emitted \in 0..MaxOut
      /\ born \in [Chunks -> 0..MaxConns]
      /\ InHand => taken \in Chunks
  BY DEF TypeInv, TypeOK, TypeOutput, TypeDevice, PumpInv, InHand
<1>1. CASE WsRead
  <2>1. /\ UNCHANGED <<shown, outBuf, pending, epoch, tui, main>>
        /\ wp = "read" /\ wp' = "check" /\ taken' = taken + 1
        /\ born' = [born EXCEPT ![taken + 1] = epoch] /\ taken < emitted
    BY <1>1 DEF WsRead, wsVars, bufVars, mainVars, tpVars, screenVars
  <2>. taken + 1 \in Chunks
    <3>1. taken + 1 <= emitted /\ emitted <= MaxOut
      BY <2>1, <1>t
    <3> QED
      BY <3>1, <1>t, BridgeAssumption DEF BridgeAssumption, Chunks
  <2>2. born'[taken'] = epoch' /\ epoch >= 1
    BY <2>1, <1>t DEF ControlInv, Pumping
  <2>3. ASSUME NEW s \in Seq(Chunks), Behind(s)
        PROVE  \A i \in 1..Len(s) : s[i] < taken' /\ born'[s[i]] = born[s[i]] /\ born[s[i]] \in 1..epoch
    <3>1. TAKE i \in 1..Len(s)
    <3>2. s[i] \in Chunks /\ s[i] \in Nat /\ s[i] <= taken /\ born[s[i]] \in 1..epoch
      BY <2>3, ChunkElement DEF Behind
    <3> QED
      BY <2>1, <1>t, <3>2
  <2>4. Behind(shown) /\ Behind(outBuf) /\ Behind(pending)
    BY DEF OrderInv
  <2>5. Behind(shown)' /\ Behind(outBuf)' /\ Behind(pending)'
    <3>1. ASSUME NEW s \in Seq(Chunks), Behind(s)
          PROVE  \A i \in 1..Len(s) : s[i] <= taken' /\ s[i] < taken' /\ born'[s[i]] \in 1..epoch
      <4>1. TAKE i \in 1..Len(s)
      <4>2. s[i] \in Nat
        BY <3>1, ChunkElement
      <4> QED
        BY <3>1, <2>3, <4>2, <2>1, <1>t
    <3> QED
      BY <3>1, <1>t, <2>1, <2>4 DEF Behind
  <2>6. Rising(outBuf)' /\ Rising(pending)'
    BY <2>1 DEF OrderInv, Rising
  <2>7. ShownInOrder' /\ Before(shown, outBuf)' /\ Before(shown, pending)'
    <3>1. DOMAIN shown = 1..Len(shown)
      BY <1>t
    <3>2. \A i \in 1..Len(shown) : born'[shown[i]] = born[shown[i]]
      BY <1>t, <2>3, <2>4
    <3>3. \A i \in 1..Len(outBuf) : born'[outBuf[i]] = born[outBuf[i]]
      BY <1>t, <2>3, <2>4
    <3>4. \A i \in 1..Len(pending) : born'[pending[i]] = born[pending[i]]
      BY <1>t, <2>3, <2>4
    <3> QED
      BY <2>1, <3>1, <3>2, <3>3, <3>4 DEF OrderInv, ShownInOrder, Before
  <2>8. (Pumping \/ main = "greet")' /\ ~tui' => OldOnly(outBuf)'
    <3>1. \A i \in 1..Len(outBuf) : born'[outBuf[i]] = born[outBuf[i]]
      BY <1>t, <2>3, <2>4
    <3> QED
      BY <2>1, <3>1 DEF OrderInv, OldOnly, Pumping
  <2> QED
    BY <2>1, <2>2, <2>5, <2>6, <2>7, <2>8 DEF OrderInv
<1>2. CASE WsReadError
  BY <1>2, OrderKept DEF WsReadError, WsPumpEnds, Pumping, wsVars, inVars, bufVars, tpVars, screenVars
<1>3. CASE WsBuffer
  <2> DEFINE full == Append(outBuf, taken)
  <2>1. /\ UNCHANGED <<shown, pending, epoch, tui, main, taken, born>>
        /\ wp = "check" /\ wp' = "read" /\ tui /\ MuFree
        /\ outBuf' = full \/ outBuf' = Tail(full)
    BY <1>3 DEF WsBuffer, wsVars, inVars, mainVars, tpVars, screenVars
  <2>2. InHand /\ ~InHand' /\ taken \in Chunks /\ born[taken] = epoch
    BY <2>1, <1>t DEF InHand, OrderInv
  <2>3. pending = <<>> /\ Len(pending) = 0
    BY <2>1 DEF ControlInv
  <2>4. /\ full \in Seq(Chunks) /\ Len(full) = Len(outBuf) + 1 /\ Len(outBuf) \in Nat
        /\ \A i \in 1..Len(full) : full[i] = IF i <= Len(outBuf) THEN outBuf[i] ELSE taken
    BY <1>t, <2>2
  <2>5. \A i \in 1..Len(outBuf) : outBuf[i] \in Nat /\ outBuf[i] < taken /\ born[outBuf[i]] \in 1..epoch
    BY <1>t, <2>2, ChunkElement DEF OrderInv, Behind
  <2>6. \A i \in 1..Len(shown) : shown[i] \in Nat /\ shown[i] < taken /\ born[shown[i]] \in 1..epoch
    BY <1>t, <2>2, ChunkElement DEF OrderInv, Behind
  <2>7. epoch >= 1
    BY <2>1 DEF ControlInv, Pumping
  <2>8. \A i \in 1..Len(full) : full[i] \in Nat /\ full[i] <= taken /\ born[full[i]] \in 1..epoch
    <3>1. TAKE i \in 1..Len(full)
    <3>2. CASE i <= Len(outBuf)
      BY <3>2, <2>4, <2>5, <1>t
    <3>3. CASE ~(i <= Len(outBuf))
      BY <3>3, <2>2, <2>4, <2>7, <1>t
    <3> QED
      BY <3>2, <3>3
  <2>9. \A i, j \in 1..Len(full) : i < j => full[i] < full[j]
    <3>1. \A i, j \in 1..Len(outBuf) : i < j => outBuf[i] < outBuf[j]
      BY DEF OrderInv, Rising
    <3> QED
      BY <3>1, <2>4, <2>5
  <2>10. \A i \in 1..Len(shown), j \in 1..Len(full) : born[shown[i]] = born[full[j]] => shown[i] < full[j]
    <3>1. \A i \in 1..Len(shown), j \in 1..Len(outBuf) : born[shown[i]] = born[outBuf[j]] => shown[i] < outBuf[j]
      BY DEF OrderInv, Before
    <3> QED
      BY <3>1, <2>4, <2>6
  <2>11. \E d \in {0, 1} : \A i \in 1..Len(outBuf') : i + d \in 1..Len(full) /\ outBuf'[i] = full[i + d]
    <3>1. CASE outBuf' = full
      <4>1. \A i \in 1..Len(outBuf') : i + 0 \in 1..Len(full) /\ outBuf'[i] = full[i + 0]
        BY <3>1, <2>4
      <4> QED
        BY <4>1
    <3>2. CASE outBuf' = Tail(full)
      <4>1. full # <<>>
        BY <2>4
      <4>2. Len(Tail(full)) = Len(full) - 1 /\ \A i \in 1..Len(Tail(full)) : Tail(full)[i] = full[i + 1]
        BY <4>1, <2>4, HeadTailProperties
      <4>3. \A i \in 1..Len(outBuf') : i + 1 \in 1..Len(full) /\ outBuf'[i] = full[i + 1]
        BY <3>2, <4>2, <2>4
      <4> QED
        BY <4>3
    <3> QED
      BY <2>1, <3>1, <3>2
  <2>12. PICK d \in {0, 1} : \A i \in 1..Len(outBuf') : i + d \in 1..Len(full) /\ outBuf'[i] = full[i + d]
    BY <2>11
  <2> HIDE DEF full
  <2>13. Behind(outBuf)'
    BY <2>1, <2>2, <2>8, <2>12 DEF Behind
  <2>14. Rising(outBuf)'
    <3>1. \A i, j \in 1..Len(outBuf') : i < j => i + d < j + d
      BY <2>12
    <3> QED
      BY <3>1, <2>9, <2>12 DEF Rising
  <2>15. Before(shown, outBuf)'
    BY <2>1, <2>10, <2>12 DEF Before
  <2>16. Behind(shown)' /\ Behind(pending)' /\ Rising(pending)' /\ ShownInOrder' /\ Before(shown, pending)'
    BY <2>1, <2>2 DEF OrderInv, Behind, Rising, Before, ShownInOrder, InHand
  <2> QED
    BY <2>1, <2>2, <2>13, <2>14, <2>15, <2>16 DEF OrderInv
<1>4. CASE WsPass
  <2>1. /\ UNCHANGED <<shown, outBuf, pending, epoch, tui, main, taken, born>>
        /\ wp = "check" /\ wp' = "write" /\ ~tui /\ MuFree
    BY <1>4 DEF WsPass, MayWrite, wsVars, inVars, bufVars, mainVars, tpVars, screenVars
  <2>2. InHand /\ Pumping /\ pending = <<>> /\ Len(pending) = 0
    BY <2>1 DEF InHand, ControlInv
  <2>3. OldOnly(outBuf)' /\ OldOnly(pending)'
    BY <2>1, <2>2 DEF OrderInv, OldOnly
  <2>4. Behind(shown)' /\ Behind(outBuf)' /\ Behind(pending)'
    BY <2>1, <2>2 DEF OrderInv, Behind, InHand
  <2>5. Rising(outBuf)' /\ Rising(pending)' /\ ShownInOrder' /\ Before(shown, outBuf)' /\ Before(shown, pending)'
    BY <2>1 DEF OrderInv, Rising, ShownInOrder, Before
  <2>6. born'[taken'] = epoch'
    BY <2>1, <2>2 DEF OrderInv
  <2> QED
    BY <2>1, <2>3, <2>4, <2>5, <2>6 DEF OrderInv
<1>5. CASE WsWrite
  <2>1. /\ UNCHANGED <<outBuf, pending, epoch, tui, main, taken, born>>
        /\ wp = "write" /\ wp' \in {"read", "done"}
        /\ shown' = shown \/ shown' = Append(shown, taken)
    BY <1>5 DEF WsWrite, WsPumpEnds, wsVars, inVars, bufVars, mainVars, tpVars
  <2>2. CASE shown' = shown
    BY <2>1, <2>2, OrderKept DEF Pumping
  <2>3. CASE shown' = Append(shown, taken)
    <3>1. InHand /\ ~InHand' /\ taken \in Chunks /\ born[taken] = epoch
      BY <2>1, <1>t DEF InHand, OrderInv
    <3>2. /\ Len(shown') = Len(shown) + 1 /\ Len(shown) \in Nat /\ DOMAIN shown' = 1..Len(shown')
          /\ DOMAIN shown = 1..Len(shown)
          /\ \A i \in 1..Len(shown') : shown'[i] = IF i <= Len(shown) THEN shown[i] ELSE taken
      <4>1. shown \in Seq(Chunks) /\ taken \in Chunks
        BY <1>t, <3>1
      <4> QED
        BY ONLY <4>1, <2>3
    <3>3. \A i \in 1..Len(shown) : shown[i] \in Nat /\ shown[i] < taken /\ born[shown[i]] \in 1..epoch
      BY <1>t, <3>1, ChunkElement DEF OrderInv, Behind
    <3>4. epoch >= 1
      BY <2>1 DEF ControlInv, Pumping
    <3>5. Behind(shown)'
      BY <1>t, <2>1, <3>1, <3>2, <3>3, <3>4 DEF Behind
    <3>6. ShownInOrder'
      <4>1. \A i, j \in 1..Len(shown) : i < j /\ born[shown[i]] = born[shown[j]] => shown[i] < shown[j]
        BY <3>2 DEF OrderInv, ShownInOrder
      <4> QED
        BY <4>1, <2>1, <3>2, <3>3 DEF ShownInOrder
    <3>7. OldOnly(outBuf) /\ OldOnly(pending) /\ Before(shown, outBuf) /\ Before(shown, pending)
      BY <2>1 DEF OrderInv
    <3>8. Before(shown, outBuf)'
      <4>1. \A j \in 1..Len(outBuf) : born[outBuf[j]] # epoch
        <5>1. \A j \in 1..Len(outBuf) : outBuf[j] \in Chunks /\ born[outBuf[j]] < epoch
          BY <1>t, <3>7 DEF OldOnly
        <5> QED
          BY <5>1, <1>t
      <4> QED
        BY <4>1, <2>1, <3>1, <3>2, <3>7 DEF Before
    <3>9. Before(shown, pending)'
      <4>1. \A j \in 1..Len(pending) : born[pending[j]] # epoch
        <5>1. \A j \in 1..Len(pending) : pending[j] \in Chunks /\ born[pending[j]] < epoch
          BY <1>t, <3>7 DEF OldOnly
        <5> QED
          BY <5>1, <1>t
      <4> QED
        BY <4>1, <2>1, <3>1, <3>2, <3>7 DEF Before
    <3>10. Behind(outBuf)' /\ Behind(pending)' /\ Rising(outBuf)' /\ Rising(pending)'
      BY <2>1, <3>1 DEF OrderInv, Behind, Rising
    <3>11. (Pumping \/ main = "greet")' /\ ~tui' => OldOnly(outBuf)'
      BY <2>1, <3>7 DEF OldOnly
    <3> QED
      BY <2>1, <3>1, <3>5, <3>6, <3>8, <3>9, <3>10, <3>11 DEF OrderInv
  <2> QED
    BY <2>1, <2>2, <2>3
<1> QED
  BY <1>1, <1>2, <1>3, <1>4, <1>5 DEF WsPump

LEMMA OrderTcpPump == TypeInv /\ ControlInv /\ OrderInv /\ TcpPump => OrderInv'
<1> SUFFICES ASSUME TypeInv, ControlInv, OrderInv, TcpPump PROVE OrderInv'
  OBVIOUS
<1>t. shown \in Seq(Chunks) /\ outBuf \in Seq(Chunks) /\ pending \in Seq(Chunks)
  BY DEF TypeInv, TypeOK, TypeOutput
<1> USE DEF wsVars, inVars, bufVars, mainVars, screenVars
<1>1. CASE ExitLock
  <2>1. /\ UNCHANGED <<taken, born, shown, epoch, wp, main>>
        /\ pending' = outBuf /\ outBuf' = <<>> /\ Len(outBuf') = 0
    BY <1>1 DEF ExitLock, TakeBuffer
  <2>2. InHand' = InHand
    BY <2>1 DEF InHand
  <2>3. Behind(shown)' /\ Behind(outBuf)' /\ Behind(pending)'
    BY <2>1, <2>2 DEF OrderInv, Behind
  <2>4. Rising(outBuf)' /\ Rising(pending)' /\ ShownInOrder' /\ Before(shown, outBuf)' /\ Before(shown, pending)'
    BY <2>1 DEF OrderInv, Rising, ShownInOrder, Before
  <2>5. OldOnly(outBuf)' /\ (wp' = "write" => OldOnly(pending)')
    BY <2>1 DEF OrderInv, OldOnly
  <2> QED
    BY <2>1, <2>2, <2>3, <2>4, <2>5 DEF OrderInv
<1>2. CASE ExitFlush
  <2>1. /\ UNCHANGED <<taken, born, outBuf, epoch, wp, main, tui>>
        /\ pending' = <<>> /\ Len(pending') = 0
        /\ shown' = shown \/ shown' = shown \o pending
    BY <1>2 DEF ExitFlush
  <2>2. ~MuFree /\ outBuf = <<>> /\ Len(outBuf) = 0
    BY <1>2 DEF ExitFlush, MuFree, ControlInv
  <2>3. /\ Len(shown \o pending) = Len(shown) + Len(pending)
        /\ Len(shown) \in Nat /\ Len(pending) \in Nat
        /\ DOMAIN shown = 1..Len(shown) /\ DOMAIN (shown \o pending) = 1..(Len(shown) + Len(pending))
        /\ \A i \in 1..(Len(shown) + Len(pending)) :
             (shown \o pending)[i] = IF i <= Len(shown) THEN shown[i] ELSE pending[i - Len(shown)]
    BY ONLY <1>t
  <2>4. InHand' = InHand
    BY <2>1 DEF InHand
  <2>5. CASE shown' = shown
    <3>1. Behind(shown)' /\ Behind(outBuf)' /\ Behind(pending)'
      BY <2>1, <2>4, <2>5 DEF OrderInv, Behind
    <3>2. Rising(outBuf)' /\ Rising(pending)' /\ ShownInOrder' /\ Before(shown, outBuf)' /\ Before(shown, pending)'
      BY <2>1, <2>5 DEF OrderInv, Rising, ShownInOrder, Before
    <3>3. OldOnly(outBuf)' /\ OldOnly(pending)'
      BY <2>1, <2>2 DEF OldOnly
    <3> QED
      BY <2>1, <2>4, <3>1, <3>2, <3>3 DEF OrderInv
  <2>6. CASE shown' = shown \o pending
    <3>a. ASSUME NEW i \in 1..Len(shown'), ~(i <= Len(shown))
          PROVE  i - Len(shown) \in 1..Len(pending) /\ shown'[i] = pending[i - Len(shown)]
      <4>1. i \in 1..(Len(shown) + Len(pending)) /\ i - Len(shown) \in 1..Len(pending)
        BY <2>3, <2>6, <3>a
      <4> QED
        BY <2>3, <2>6, <3>a, <4>1
    <3>b. ASSUME NEW i \in 1..Len(shown'), i <= Len(shown)
          PROVE  i \in 1..Len(shown) /\ shown'[i] = shown[i]
      BY <2>3, <2>6, <3>b
    <3>1. \A i \in 1..Len(shown') :
            \/ i \in 1..Len(shown) /\ shown'[i] = shown[i]
            \/ i - Len(shown) \in 1..Len(pending) /\ shown'[i] = pending[i - Len(shown)]
      <4>1. TAKE i \in 1..Len(shown')
      <4>2. CASE i <= Len(shown)
        BY <4>2, <3>b
      <4>3. CASE ~(i <= Len(shown))
        BY <4>3, <3>a
      <4> QED
        BY <4>2, <4>3
    <3>2. Behind(shown)'
      BY <2>1, <2>4, <3>1 DEF OrderInv, Behind
    <3>3. ShownInOrder'
      <4>1. \A i, j \in 1..Len(shown) : i < j /\ born[shown[i]] = born[shown[j]] => shown[i] < shown[j]
        BY <2>3 DEF OrderInv, ShownInOrder
      <4>2. \A i, j \in 1..Len(pending) : i < j => pending[i] < pending[j]
        BY DEF OrderInv, Rising
      <4>3. \A i \in 1..Len(shown), j \in 1..Len(pending) : born[shown[i]] = born[pending[j]] => shown[i] < pending[j]
        BY DEF OrderInv, Before
      <4>4. SUFFICES ASSUME NEW i \in 1..Len(shown'), NEW j \in 1..Len(shown'), i < j,
                            born[shown'[i]] = born[shown'[j]]
                     PROVE  shown'[i] < shown'[j]
        BY <2>1, <2>3, <2>6 DEF ShownInOrder
      <4>5. CASE j <= Len(shown)
        BY <4>1, <4>4, <4>5, <2>3, <2>6
      <4>6. CASE i <= Len(shown) /\ ~(j <= Len(shown))
        BY <4>3, <4>4, <4>6, <2>3, <2>6
      <4>7. CASE ~(i <= Len(shown))
        <5>1. ~(j <= Len(shown)) /\ i - Len(shown) < j - Len(shown)
          BY <4>4, <4>7, <2>3
        <5> QED
          BY <4>2, <4>7, <5>1, <3>a
      <4> QED
        BY <4>5, <4>6, <4>7, <2>3
    <3>4. Behind(outBuf)' /\ Behind(pending)' /\ Rising(outBuf)' /\ Rising(pending)'
      BY <2>1, <2>2 DEF Behind, Rising
    <3>5. Before(shown, outBuf)' /\ Before(shown, pending)' /\ OldOnly(outBuf)' /\ OldOnly(pending)'
      BY <2>1, <2>2 DEF Before, OldOnly
    <3> QED
      BY <2>1, <2>4, <3>2, <3>3, <3>4, <3>5 DEF OrderInv
  <2> QED
    BY <2>1, <2>5, <2>6
<1>3. CASE EnterLock
  BY <1>3, OrderKept DEF EnterLock, Pumping
<1>4. CASE EnterLoad \/ EnterScreen \/ DrawTUI \/ ExitRestore
  <2>1. UNCHANGED <<taken, born, shown, outBuf, pending, epoch, wp, tui, main>>
    BY <1>4 DEF EnterLoad, EnterScreen, DrawTUI, ExitRestore, tpVars
  <2> QED
    BY <2>1, OrderKept DEF Pumping
<1>5. CASE TcpRead \/ TcpReadError \/ TcpReply \/ ForwardByte \/ MatchByte \/ BreakMatch
  <2>1. UNCHANGED <<taken, born, shown>>
    BY <1>5 DEF TcpRead, TcpReadError, TcpReply, ForwardByte, MatchByte, BreakMatch
  <2> QED
    BY <1>5, <2>1, TcpPumpControl, OrderKept DEF Pumping
<1>6. CASE FeedTUI
  <2>1. UNCHANGED <<taken, born, shown>>
    BY <1>6 DEF FeedTUI
  <2> QED
    BY <1>6, <2>1, FeedControl, OrderKept DEF Pumping
<1> QED
  BY <1>1, <1>2, <1>3, <1>4, <1>5, <1>6 DEF TcpPump

\* OrderInv is inductive together with the types and the control invariant.
LEMMA OutputHolds == Spec => [](ShownInOrder /\ HeldBackOnlyByTUI)
<1> DEFINE IInv == TypeInv /\ ControlInv /\ OrderInv
<1>1. Init => IInv
  BY InitType, ControlInit, OrderInit
<1>2. IInv /\ [Next]_vars => IInv'
  <2> SUFFICES ASSUME IInv, [Next]_vars PROVE IInv'
    OBVIOUS
  <2>1. TypeInv'
    BY TypeStep
  <2>2. ControlInv'
    BY ControlStep
  <2>3. OrderInv'
    <3>1. CASE UNCHANGED vars \/ Finished
      <4>1. UNCHANGED <<taken, born, shown, outBuf, pending, epoch, wp, tui, main>>
        BY <3>1 DEF Finished, vars, wsVars, inVars, bufVars, mainVars, tpVars, screenVars
      <4> QED
        BY <4>1, OrderKept DEF Pumping
    <3> QED
      BY <3>1, OrderEnvironment, OrderMain, OrderWsPump, OrderTcpPump DEF Next
  <2> QED
    BY <2>1, <2>2, <2>3
<1>3. IInv => ShownInOrder /\ HeldBackOnlyByTUI
  <2> SUFFICES ASSUME IInv PROVE ShownInOrder /\ HeldBackOnlyByTUI
    OBVIOUS
  <2>1. outBuf \in Seq(Chunks)
    BY DEF TypeInv, TypeOK, TypeOutput
  <2>2. DOMAIN outBuf = 1..Len(outBuf)
    BY ONLY <2>1
  <2> QED
    BY <2>2 DEF OrderInv, OldOnly, HeldBackOnlyByTUI
<1> QED
  BY <1>1, <1>2, <1>3, PTL DEF Spec

\* What pumpWSToTCP reads from one /tty connection reaches the client in order, none
\* twice, while exitTUI replays what was held back (bridge.go:176-189, tui.go:300-326).
THEOREM OutputOrdered == Spec => []ShownInOrder
BY OutputHolds, PTL

\* outBuf holds back output of the present /tty connection only while the TUI is open:
\* no chunk stays behind in it when exitTUI has let go of the lock (tui.go:300-326).
THEOREM NothingHeldBack == Spec => []HeldBackOnlyByTUI
BY OutputHolds, PTL

--------------------------------------------------------------------------------

\* A step that sends nothing to the device and holds no further byte.
LEMMA KeyKept ==
  ASSUME TypeInv, KeyInv, UNCHANGED <<held, delivered>>, pos' \in Nat, pos <= pos'
  PROVE  KeyInv'
<1>1. delivered \in Seq(Positions) /\ held \in Seq(Positions) /\ pos \in Nat
  BY PosInRange DEF TypeInv, TypeOK, TypeKeys
<1>2. \A i \in 1..Len(delivered) : delivered[i] \in Nat
  BY <1>1, PositionElement
<1>3. \A i \in 1..Len(held) : held[i] \in Nat
  BY <1>1, PositionElement
<1> QED
  BY <1>1, <1>2, <1>3 DEF KeyInv, Rising

\* Sending keystrokes newer than what was delivered and older than p.
LEMMA KeySent ==
  ASSUME TypeInv, KeyInv, NEW s \in Seq(Positions), Sent(s), Rising(s),
         NEW p \in Nat, pos <= p, pos' = p, held' = <<>>,
         \A i \in 1..Len(s) : s[i] < p,
         \A i \in 1..Len(delivered), j \in 1..Len(s) : delivered[i] < s[j]
  PROVE  KeyInv'
<1>1. delivered \in Seq(Positions) /\ pos \in Nat /\ Len(held') = 0
  BY PosInRange DEF TypeInv, TypeOK, TypeKeys
<1>2. delivered' = delivered \/ delivered' = delivered \o s
  BY DEF Sent
<1>3. CASE delivered' = delivered
  <2>1. \A i \in 1..Len(delivered) : delivered[i] \in Nat
    BY <1>1, PositionElement
  <2> QED
    BY <1>1, <1>3, <2>1 DEF KeyInv, Rising
<1>4. CASE delivered' = delivered \o s
  <2>1. /\ Len(delivered \o s) = Len(delivered) + Len(s) /\ Len(delivered) \in Nat /\ Len(s) \in Nat
        /\ \A i \in 1..(Len(delivered) + Len(s)) :
             (delivered \o s)[i] = IF i <= Len(delivered) THEN delivered[i] ELSE s[i - Len(delivered)]
    BY ONLY <1>1, s \in Seq(Positions)
  <2>2. ASSUME NEW i \in 1..Len(delivered'), i <= Len(delivered)
        PROVE  i \in 1..Len(delivered) /\ delivered'[i] = delivered[i]
    BY <1>4, <2>1, <2>2
  <2>3. ASSUME NEW i \in 1..Len(delivered'), ~(i <= Len(delivered))
        PROVE  i - Len(delivered) \in 1..Len(s) /\ delivered'[i] = s[i - Len(delivered)]
    <3>1. i \in 1..(Len(delivered) + Len(s)) /\ i - Len(delivered) \in 1..Len(s)
      BY <1>4, <2>1, <2>3
    <3> QED
      BY <1>4, <2>1, <2>3, <3>1
  <2>4. Rising(delivered)'
    <3>1. SUFFICES ASSUME NEW i \in 1..Len(delivered'), NEW j \in 1..Len(delivered'), i < j
                   PROVE  delivered'[i] < delivered'[j]
      BY DEF Rising
    <3>2. CASE j <= Len(delivered)
      BY <3>1, <3>2, <2>1, <2>2 DEF KeyInv, Rising
    <3>3. CASE i <= Len(delivered) /\ ~(j <= Len(delivered))
      BY <3>3, <2>2, <2>3
    <3>4. CASE ~(i <= Len(delivered))
      <4>1. ~(j <= Len(delivered)) /\ i - Len(delivered) < j - Len(delivered)
        BY <3>1, <3>4, <2>1
      <4> QED
        BY <3>4, <4>1, <2>3 DEF Rising
    <3> QED
      BY <3>2, <3>3, <3>4, <2>1
  <2>5. ASSUME NEW i \in 1..Len(delivered') PROVE delivered'[i] < pos'
    <3>1. CASE i <= Len(delivered)
      <4>1. delivered[i] \in Nat /\ delivered[i] < pos /\ delivered'[i] = delivered[i]
        BY <3>1, <2>2, <1>1, PositionElement DEF KeyInv
      <4> QED
        BY <4>1, <1>1
    <3>2. CASE ~(i <= Len(delivered))
      BY <3>2, <2>3
    <3> QED
      BY <3>1, <3>2
  <2> QED
    BY <1>1, <2>4, <2>5 DEF KeyInv, Rising
<1> QED
  BY <1>2, <1>3, <1>4

LEMMA KeyInit == Init => KeyInv
<1> SUFFICES ASSUME Init PROVE KeyInv
  OBVIOUS
<1>1. Len(delivered) = 0 /\ Len(held) = 0
  BY DEF Init
<1> QED
  BY <1>1 DEF KeyInv, Rising

LEMMA KeyStep == TypeInv /\ KeyInv /\ [Next]_vars => KeyInv'
<1> SUFFICES ASSUME TypeInv, KeyInv, [Next]_vars PROVE KeyInv'
  OBVIOUS
<1>t. /\ delivered \in Seq(Positions) /\ held \in Seq(Positions)
      /\ nRead \in Nat /\ pos \in Nat /\ pos <= nRead + 1
      /\ tp = "scan" => pos \in Positions
  BY PosInRange DEF TypeInv, TypeOK, TypeKeys
<1> USE DEF tpVars, keyVars
<1>1. CASE Environment \/ Main \/ WsPump \/ Finished \/ UNCHANGED vars
  <2>1. CASE Environment
    BY <2>1, <1>t, KeyKept
       DEF Environment, ClientType, ClientClose, ClientStall, ClientResume, DeviceOutput, DeviceDrop
  <2>2. CASE Main
    <3>1. UNCHANGED <<held, delivered, pos>>
      BY <2>2 DEF Main, DialFail, DialOK, Greet, CollectFirst, SetDeadline, CollectSecond,
                  RestoreScreen, EndSession, Retry
    <3> QED
      BY <3>1, <1>t, KeyKept
  <2>3. CASE WsPump
    <3>1. UNCHANGED <<held, delivered, pos>>
      BY <2>3 DEF WsPump, WsRead, WsReadError, WsBuffer, WsPass, WsWrite
    <3> QED
      BY <3>1, <1>t, KeyKept
  <2>4. CASE Finished \/ UNCHANGED vars
    BY <2>4, <1>t, KeyKept DEF Finished, vars
  <2> QED
    BY <1>1, <2>1, <2>2, <2>3, <2>4
<1>2. CASE EnterLock \/ EnterLoad \/ DrawTUI \/ ExitLock \/ ExitRestore \/ ExitFlush \/ TcpRead
  BY <1>2, <1>t, KeyKept DEF EnterLock, EnterLoad, DrawTUI, ExitLock, ExitRestore, ExitFlush, TcpRead
<1>3. CASE EnterScreen \/ FeedTUI \/ TcpReadError \/ TcpReply
  <2>1. UNCHANGED <<held, delivered>> /\ (pos' = pos \/ pos' = nRead + 1)
    BY <1>3 DEF EnterScreen, FeedTUI, TcpReadError, TcpReply, TcpPumpEnds, Continue
  <2> QED
    BY <2>1, <1>t, KeyKept
<1>4. CASE ForwardByte
  <2>1. CASE SendFails
    <3>1. UNCHANGED <<held, delivered>> /\ pos' = nRead + 1
      BY <2>1 DEF SendFails, TcpPumpEnds
    <3> QED
      BY <3>1, <1>t, KeyKept
  <2>2. CASE Sent(<<pos>>) /\ Continue(pos + 1) /\ UNCHANGED <<mainVars, held>>
    <3>1. pos \in Positions /\ pos' = pos + 1 /\ held = <<>>
      BY <1>4, <2>2, <1>t DEF ForwardByte, Scanning, hkMatch, Continue
    <3>2. <<pos>> \in Seq(Positions) /\ Len(<<pos>>) = 1 /\ <<pos>>[1] = pos
      BY <3>1
    <3>3. Rising(<<pos>>)
      BY <3>2 DEF Rising
    <3>4. \A i \in 1..Len(delivered) : delivered[i] < pos
      BY DEF KeyInv
    <3>5. held' = <<>> /\ pos + 1 \in Nat /\ pos <= pos + 1 /\ pos < pos + 1
      BY <2>2, <3>1, <1>t
    <3>6. \A i \in 1..Len(<<pos>>) : <<pos>>[i] < pos + 1
      BY <3>2, <3>5
    <3>7. \A i \in 1..Len(delivered), j \in 1..Len(<<pos>>) : delivered[i] < <<pos>>[j]
      BY <3>2, <3>4
    <3> QED
      BY <2>2, <3>1, <3>2, <3>3, <3>5, <3>6, <3>7, KeySent
  <2> QED
    BY <1>4, <2>1, <2>2 DEF ForwardByte
<1>5. CASE MatchByte
  <2>1. UNCHANGED delivered /\ pos' = pos + 1 /\ pos \in Positions
    BY <1>5, <1>t DEF MatchByte, Scanning, Continue
  <2>2. CASE held' = <<>>
    <3>1. Len(held') = 0
      BY <2>2
    <3>2. \A i \in 1..Len(delivered) : delivered[i] \in Nat /\ delivered[i] < pos
      BY <1>t, PositionElement DEF KeyInv
    <3> QED
      BY <1>t, <2>1, <3>1, <3>2 DEF KeyInv, Rising
  <2>3. CASE held' = Append(held, pos)
    <3>1. /\ Len(held') = Len(held) + 1 /\ Len(held) \in Nat
          /\ \A i \in 1..Len(held') : held'[i] = IF i <= Len(held) THEN held[i] ELSE pos
      BY ONLY <1>t, <2>1, <2>3
    <3>2. \A i \in 1..Len(delivered) : delivered[i] \in Nat /\ delivered[i] < pos
      BY <1>t, PositionElement DEF KeyInv
    <3>3. \A i \in 1..Len(held) : held[i] \in Nat /\ held[i] < pos
      BY <1>t, PositionElement DEF KeyInv
    <3>4. Rising(held)'
      <4>1. \A i, j \in 1..Len(held) : i < j => held[i] < held[j]
        BY DEF KeyInv, Rising
      <4> QED
        BY <4>1, <3>1, <3>3 DEF Rising
    <3>5. \A i \in 1..Len(delivered), j \in 1..Len(held') : delivered[i] < held'[j]
      BY <3>1, <3>2 DEF KeyInv
    <3>6. Rising(delivered)'
      BY <2>1 DEF KeyInv, Rising
    <3>7. (\A i \in 1..Len(delivered) : delivered[i] < pos') /\ (\A i \in 1..Len(held') : held'[i] < pos')
      BY <1>t, <2>1, <3>1, <3>2, <3>3
    <3> QED
      BY <2>1, <3>4, <3>5, <3>6, <3>7 DEF KeyInv
  <2> QED
    BY <1>5, <2>2, <2>3 DEF MatchByte
<1>6. CASE BreakMatch
  <2>1. CASE SendFails
    <3>1. UNCHANGED <<held, delivered>> /\ pos' = nRead + 1
      BY <2>1 DEF SendFails, TcpPumpEnds
    <3> QED
      BY <3>1, <1>t, KeyKept
  <2>2. CASE ReleaseHeld /\ UNCHANGED <<mainVars, tp, pos>>
    <3>1. Sent(held) /\ held' = <<>> /\ pos' = pos
      BY <2>2 DEF ReleaseHeld
    <3>2. /\ Rising(held)
          /\ \A i \in 1..Len(held) : held[i] < pos
          /\ \A i \in 1..Len(delivered), j \in 1..Len(held) : delivered[i] < held[j]
      BY DEF KeyInv
    <3> QED
      BY <1>t, <3>1, <3>2, KeySent
  <2> QED
    BY <1>6, <2>1, <2>2 DEF BreakMatch
<1> QED
  BY <1>1, <1>2, <1>3, <1>4, <1>5, <1>6 DEF Next, TcpPump

\* Keystrokes in order, none delivered twice, whatever the hotkey.
THEOREM KeysOrdered == Spec => []KeysInOrder
<1> DEFINE IInv == TypeInv /\ KeyInv
<1>1. Init => IInv
  BY InitType, KeyInit
<1>2. IInv /\ [Next]_vars => IInv'
  BY TypeStep, KeyStep
<1>3. IInv => KeysInOrder
  <2> SUFFICES ASSUME IInv PROVE KeysInOrder
    OBVIOUS
  <2>1. delivered \in Seq(Positions)
    BY DEF TypeInv, TypeOK, TypeKeys
  <2>2. DOMAIN delivered = 1..Len(delivered)
    BY ONLY <2>1
  <2> QED
    BY <2>2 DEF KeyInv, Rising, KeysInOrder
<1> QED
  BY <1>1, <1>2, <1>3, PTL DEF Spec

\* handleInput and the TUI's drawing never meet a nil s.tuiM.
THEOREM ModelNeverNil == Spec => []NoNilModel
<1>1. TypeInv /\ ControlInv => NoNilModel
  BY DEF ControlInv, NoNilModel
<1>2. TypeInv /\ ControlInv /\ [Next]_vars => (TypeInv /\ ControlInv)'
  BY TypeStep, ControlStep
<1> QED
  BY <1>1, <1>2, InitType, ControlInit, PTL DEF Spec

--------------------------------------------------------------------------------

(* BridgeSession implements ConsoleLink.                                   *)

\* Chunks not yet read belong to no connection.
FreshInv == \A c \in Chunks : c > taken => born[c] = 0

IInv == TypeInv /\ ControlInv /\ OrderInv /\ KeyInv /\ FreshInv

LEMMA OrderStep == TypeInv /\ ControlInv /\ OrderInv /\ [Next]_vars => OrderInv'
<1> SUFFICES ASSUME TypeInv, ControlInv, OrderInv, [Next]_vars PROVE OrderInv'
  OBVIOUS
<1>1. CASE UNCHANGED vars \/ Finished
  <2>1. UNCHANGED <<taken, born, shown, outBuf, pending, epoch, wp, tui, main>>
    BY <1>1 DEF Finished, vars, wsVars, inVars, bufVars, mainVars, tpVars, screenVars
  <2> QED
    BY <2>1, OrderKept DEF Pumping
<1> QED
  BY <1>1, OrderEnvironment, OrderMain, OrderWsPump, OrderTcpPump DEF Next

\* Which variables of ConsoleLink a step of BridgeSession touches.
LEMMA LinkSteps ==
  ASSUME [Next]_vars
  PROVE  \/ UNCHANGED <<epoch, born, shown, delivered>> /\ (taken' = taken \/ DialOK)
         \/ DialOK
         \/ WsRead
         \/ WsWrite \/ ExitFlush
         \/ ForwardByte \/ BreakMatch
<1> USE DEF wsVars, inVars, screenVars, keyVars
<1>1. CASE Environment \/ Finished \/ UNCHANGED vars
  BY <1>1 DEF Environment, ClientType, ClientClose, ClientStall, ClientResume, DeviceOutput, DeviceDrop,
              Finished, vars
<1>2. CASE Main
  BY <1>2 DEF Main, DialFail, Greet, CollectFirst, SetDeadline, CollectSecond, RestoreScreen,
              EndSession, Retry
<1>3. CASE WsPump
  BY <1>3 DEF WsPump, WsReadError, WsBuffer, WsPass
<1>4. CASE TcpPump
  BY <1>4 DEF TcpPump, TcpRead, TcpReadError, TcpReply, MatchByte, EnterLock, EnterLoad, EnterScreen,
              FeedTUI, DrawTUI, ExitLock, ExitRestore
<1> QED
  BY <1>1, <1>2, <1>3, <1>4 DEF Next

LEMMA FreshStep == TypeInv /\ FreshInv /\ [Next]_vars => FreshInv'
<1> SUFFICES ASSUME TypeInv, FreshInv, [Next]_vars PROVE FreshInv'
  OBVIOUS
<1>t. /\ taken \in Nat /\ emitted \in 0..MaxOut /\ taken <= emitted
      /\ born \in [Chunks -> 0..MaxConns] /\ Chunks \subseteq Nat
  BY DEF TypeInv, TypeOK, TypeDevice, Chunks
<1>1. CASE WsRead
  <2>1. taken' = taken + 1 /\ born' = [born EXCEPT ![taken + 1] = epoch]
    BY <1>1 DEF WsRead
  <2> QED
    BY <2>1, <1>t DEF FreshInv
<1>2. CASE UNCHANGED born /\ taken' = emitted
  BY <1>2, <1>t DEF FreshInv
<1>3. CASE UNCHANGED <<born, taken>>
  BY <1>3 DEF FreshInv
<1> QED
  BY <1>1, <1>2, <1>3, LinkSteps DEF DialOK, WsWrite, ExitFlush, ForwardByte, BreakMatch, inVars

LEMMA ExtendsConcat ==
  ASSUME NEW S, NEW s \in Seq(S), NEW t \in Seq(S)
  PROVE  Link!Extends(s, s \o t) /\ Link!Extends(s, s)
<1>1. /\ Len(s \o t) = Len(s) + Len(t) /\ Len(s) \in Nat /\ Len(t) \in Nat
      /\ \A i \in 1..Len(s) : (s \o t)[i] = s[i]
  OBVIOUS
<1> QED
  BY <1>1 DEF Link!Extends

LEMMA ExtendsAppend ==
  ASSUME NEW S, NEW s \in Seq(S), NEW e \in S
  PROVE  Link!Extends(s, Append(s, e))
<1>1. /\ Len(Append(s, e)) = Len(s) + 1 /\ Len(s) \in Nat
      /\ \A i \in 1..Len(s) : Append(s, e)[i] = s[i]
  OBVIOUS
<1> QED
  BY <1>1 DEF Link!Extends

\* A step that shows output is a Show step, or none.
LEMMA ShowStep ==
  ASSUME TypeInv, TypeInv', OrderInv', UNCHANGED <<epoch, born, delivered>>,
         shown' = shown \/ (shown' = Append(shown, taken) /\ taken \in Chunks) \/ shown' = shown \o pending
  PROVE  Link!Show
<1>t. shown \in Seq(Chunks) /\ pending \in Seq(Chunks) /\ shown' \in Seq(Chunks)
  BY DEF TypeInv, TypeOK, TypeOutput
<1>1. Link!Extends(shown, shown')
  BY <1>t, ExtendsConcat, ExtendsAppend
<1>2. DOMAIN shown' = 1..Len(shown')
  BY ONLY <1>t
<1>3. Link!InOrder(shown')
  BY <1>2 DEF OrderInv, ShownInOrder, Link!InOrder
<1>4. \A i \in 1..Len(shown') : shown'[i] \in 1..MaxOut /\ born[shown'[i]] > 0
  <2>1. TAKE i \in 1..Len(shown')
  <2>2. shown'[i] \in Chunks
    BY <1>t, ChunkElement
  <2>3. born'[shown'[i]] \in 1..epoch' /\ born' = born
    BY DEF OrderInv, Behind
  <2>4. epoch' \in Nat
    BY DEF TypeInv, TypeOK, TypeDevice
  <2> QED
    BY <2>2, <2>3, <2>4 DEF Chunks
<1> QED
  BY <1>1, <1>3, <1>4 DEF Link!Show

\* A step that forwards keystrokes is a Deliver step, or none.
LEMMA DeliverStep ==
  ASSUME TypeInv, TypeInv', KeyInv', UNCHANGED <<epoch, born, shown>>,
         NEW s \in Seq(Positions), Sent(s) \/ UNCHANGED delivered
  PROVE  Link!Deliver
<1>t. delivered \in Seq(Positions) /\ delivered' \in Seq(Positions)
  BY DEF TypeInv, TypeOK, TypeKeys
<1>1. Link!Extends(delivered, delivered')
  BY <1>t, ExtendsConcat DEF Sent
<1>2. Link!Increasing(delivered')
  BY DEF KeyInv, Rising, Link!Increasing
<1>3. \A i \in 1..Len(delivered') : delivered'[i] \in 1..MaxKeys
  BY <1>t, PositionElement DEF Positions
<1> QED
  BY <1>1, <1>2, <1>3 DEF Link!Deliver

LEMMA LinkStep == IInv /\ IInv' /\ [Next]_vars => [Link!Next]_(Link!vars)
<1> SUFFICES ASSUME IInv, IInv', [Next]_vars PROVE Link!Next \/ UNCHANGED <<epoch, born, shown, delivered>>
  BY DEF Link!vars
<1>t. TypeInv /\ TypeInv' /\ OrderInv' /\ KeyInv' /\ FreshInv /\ ControlInv
  BY DEF IInv
<1> USE DEF wsVars, inVars, screenVars, keyVars
<1>1. CASE DialOK
  BY <1>1 DEF DialOK, Link!Connect, Link!Next
<1>2. CASE WsRead
  <2>1. /\ taken < emitted /\ born' = [born EXCEPT ![taken + 1] = epoch]
        /\ UNCHANGED <<epoch, shown, delivered>>
    BY <1>2 DEF WsRead
  <2>2. taken \in Nat /\ emitted \in 0..MaxOut /\ taken + 1 \in 1..MaxOut
    <3>1. taken \in Nat /\ emitted \in 0..MaxOut
      BY <1>t DEF TypeInv, TypeOK, TypeDevice
    <3> QED
      BY <3>1, <2>1, BridgeAssumption DEF BridgeAssumption
  <2>3. \A d \in (taken + 1)..MaxOut : born[d] = 0
    BY <1>t, <2>2 DEF FreshInv, Chunks
  <2> QED
    BY <2>1, <2>2, <2>3 DEF Link!Receive, Link!Next
<1>3. CASE WsWrite
  <2>1. wp = "write" /\ (shown' = shown \/ shown' = Append(shown, taken)) /\ UNCHANGED <<epoch, born, delivered>>
    BY <1>3 DEF WsWrite
  <2>2. taken \in Chunks
    BY <1>t, <2>1 DEF TypeInv, PumpInv
  <2> QED
    BY <1>t, <2>1, <2>2, ShowStep DEF Link!Next
<1>4. CASE ExitFlush
  <2>1. (shown' = shown \/ shown' = shown \o pending) /\ UNCHANGED <<epoch, born, delivered>>
    BY <1>4 DEF ExitFlush
  <2> QED
    BY <1>t, <2>1, ShowStep DEF Link!Next
<1>5. CASE ForwardByte \/ BreakMatch
  <2>1. UNCHANGED <<epoch, born, shown>>
    BY <1>5 DEF ForwardByte, BreakMatch
  <2>2. \E s \in Seq(Positions) : Sent(s) \/ UNCHANGED delivered
    <3>1. CASE ForwardByte
      <4>1. pos \in Positions
        BY <1>t, <3>1, PosInRange DEF ForwardByte, Scanning
      <4>2. <<pos>> \in Seq(Positions)
        BY <4>1
      <4>3. Sent(<<pos>>) \/ UNCHANGED delivered
        BY <3>1 DEF ForwardByte, SendFails
      <4> QED
        BY <4>2, <4>3
    <3>2. CASE BreakMatch
      <4>1. held \in Seq(Positions)
        BY <1>t DEF TypeInv, TypeOK, TypeKeys
      <4>2. Sent(held) \/ UNCHANGED delivered
        BY <3>2 DEF BreakMatch, ReleaseHeld, SendFails
      <4> QED
        BY <4>1, <4>2
    <3> QED
      BY <1>5, <3>1, <3>2
  <2> QED
    BY <1>t, <2>1, <2>2, DeliverStep DEF Link!Next
<1> QED
  BY <1>1, <1>2, <1>3, <1>4, <1>5, LinkSteps

\* A session keeps the promise of ConsoleLink: output in order and at most once
\* per connection, keystrokes in order and at most once.
THEOREM ImplementsLink == Spec => LinkSpec
<1>1. Init => IInv
  <2>1. Init => FreshInv
    BY DEF Init, FreshInv, Chunks
  <2> QED
    BY <2>1, InitType, ControlInit, OrderInit, KeyInit DEF IInv
<1>2. IInv /\ [Next]_vars => IInv'
  BY TypeStep, ControlStep, OrderStep, KeyStep, FreshStep DEF IInv
<1>3. Init => Link!Init
  BY DEF Init, Link!Init, Chunks
<1>4. IInv /\ IInv' /\ [Next]_vars => [Link!Next]_(Link!vars)
  BY LinkStep
<1> QED
  BY <1>1, <1>2, <1>3, <1>4, PTL DEF Spec, LinkSpec, Link!Spec

--------------------------------------------------------------------------------
(* Screens, and the cause of an end.                                       *)

\* The alternate screen is shown only while somebody is about to leave it; the pump
\* that had decided to write when the TUI was opened has not done so before; a bridge
\* that waits for its second pump has the reason of the first.
ScreenInv ==
  /\ alt /\ client # "gone" => tui \/ tp = "exitRestore" \/ main = "restore"
  /\ leaked <= 1 /\ (tui /\ wp = "write" => leaked = 0)
  /\ main \in {"deadline", "collect"} => Len(reasonCh) > 0
  /\ Len(reasonCh) > 0 => reasonCh[1] # "stopped"

LEMMA FirstReasonKept ==
  ASSUME TypeInv, NEW r
  PROVE  /\ Len(Append(reasonCh, r)) > 0
         /\ Append(reasonCh, r)[1] = IF Len(reasonCh) > 0 THEN reasonCh[1] ELSE r
<1>1. reasonCh \in Seq(Reasons)
  BY DEF TypeInv, TypeOK, TypeThreads
<1> QED
  BY <1>1

\* A step that touches neither screens nor reasons.
LEMMA ScreenKept ==
  ASSUME ScreenInv, UNCHANGED <<alt, tui, leaked, main, reasonCh>>,
         client' = "gone" \/ UNCHANGED client,
         tp' = tp \/ tp # "exitRestore", wp' = wp \/ wp' # "write" \/ ~tui
  PROVE  ScreenInv'
BY DEF ScreenInv

LEMMA ScreenInit == Init => ScreenInv
BY DEF Init, ScreenInv

LEMMA ScreenEnvironment == ScreenInv /\ Environment => ScreenInv'
<1> SUFFICES ASSUME ScreenInv, Environment PROVE ScreenInv'
  OBVIOUS
<1>1. UNCHANGED <<alt, tui, leaked, main, reasonCh, tp, wp>>
  BY DEF Environment, ClientType, ClientClose, ClientStall, ClientResume, DeviceOutput, DeviceDrop,
         clientVars, bufVars, mainVars, tpVars, screenVars
<1>2. client = "gone" => client' = "gone"
  BY DEF Environment, ClientType, ClientClose, ClientStall, ClientResume, DeviceOutput, DeviceDrop, clientVars
<1> QED
  BY <1>1, <1>2 DEF ScreenInv

LEMMA ScreenMain == TypeInv /\ ControlInv /\ ScreenInv /\ Main => ScreenInv'
<1> SUFFICES ASSUME TypeInv, ControlInv, ScreenInv, Main PROVE ScreenInv'
  OBVIOUS
<1> USE DEF clientVars, wsVars, bufVars, tpVars, screenVars
<1>1. CASE DialFail \/ DialOK
  <2>1. UNCHANGED <<alt, tui, leaked, client, tp, wp>> /\ main = "dial" /\ main' \in {"between", "greet"}
    BY <1>1 DEF DialFail, DialOK
  <2>2. reasonCh' = <<"device unreachable">> \/ reasonCh' = <<>>
    BY <1>1 DEF DialFail, DialOK
  <2>3. Len(reasonCh') > 0 => reasonCh'[1] # "stopped"
    <3>1. CASE reasonCh' = <<"device unreachable">>
      BY <3>1
    <3>2. CASE reasonCh' = <<>>
      BY <3>2
    <3> QED
      BY <2>2, <3>1, <3>2
  <2> QED
    BY <2>1, <2>3 DEF ScreenInv
<1>2. CASE Greet
  <2>1. UNCHANGED <<alt, tui, leaked, client>> /\ main = "greet" /\ main' \in {"over", "wait"}
    BY <1>2 DEF Greet
  <2>2. reasonCh' = <<"client TCP write failed">> \/ UNCHANGED reasonCh
    BY <1>2 DEF Greet
  <2>3. ~tui /\ tp = "done"
    BY <2>1 DEF ControlInv, Pumping
  <2>4. Len(reasonCh') > 0 => reasonCh'[1] # "stopped"
    <3>1. CASE reasonCh' = <<"client TCP write failed">>
      BY <3>1
    <3>2. CASE UNCHANGED reasonCh
      BY <3>2 DEF ScreenInv
    <3> QED
      BY <2>2, <3>1, <3>2
  <2> QED
    BY <2>1, <2>3, <2>4 DEF ScreenInv
<1>3. CASE CollectFirst \/ SetDeadline
  <2>1. UNCHANGED <<alt, tui, leaked, client, tp, wp, reasonCh>> /\ main # "restore" /\ Len(reasonCh) > 0
    BY <1>3 DEF CollectFirst, SetDeadline, ScreenInv
  <2> QED
    BY <2>1 DEF ScreenInv
<1>4. CASE CollectSecond
  <2>1. /\ UNCHANGED <<alt, leaked, client, tp, wp, reasonCh>> /\ main = "collect" /\ ~tui'
        /\ main' = (IF tui THEN "restore" ELSE "between")
        /\ Len(reasonCh) = 2
    BY <1>4 DEF CollectSecond, AfterTeardown, PumpsEnded
  <2>2. tp = "done"
    BY <2>1 DEF ControlInv, Pumping, Finishing
  <2> QED
    BY <2>1, <2>2 DEF ScreenInv
<1>5. CASE RestoreScreen
  <2>1. UNCHANGED <<leaked, client, tp, wp, tui, reasonCh>> /\ main' = "between" /\ alt' = (alt /\ client = "gone")
    BY <1>5 DEF RestoreScreen
  <2> QED
    BY <2>1 DEF ScreenInv
<1>6. CASE EndSession \/ Retry
  <2>1. UNCHANGED <<alt, leaked, client, tp, wp, tui, reasonCh>> /\ main = "between" /\ main' \in {"over", "dial"}
    BY <1>6 DEF EndSession, Retry
  <2> QED
    BY <2>1 DEF ScreenInv
<1> QED
  BY <1>1, <1>2, <1>3, <1>4, <1>5, <1>6 DEF Main

LEMMA ScreenWsPump == TypeInv /\ ControlInv /\ ScreenInv /\ WsPump => ScreenInv'
<1> SUFFICES ASSUME TypeInv, ControlInv, ScreenInv, WsPump PROVE ScreenInv'
  OBVIOUS
<1> USE DEF clientVars, wsVars, bufVars, tpVars, screenVars, mainVars
<1>1. CASE WsRead \/ WsBuffer \/ WsPass
  <2>1. UNCHANGED <<alt, tui, leaked, main, reasonCh, client, tp>> /\ (wp' # "write" \/ ~tui)
    BY <1>1 DEF WsRead, WsBuffer, WsPass, MayWrite
  <2> QED
    BY <2>1, ScreenKept
<1>2. ASSUME NEW r \in Reasons, r # "stopped", WsPumpEnds(r), UNCHANGED <<alt, tui, leaked, client, tp>>
      PROVE  ScreenInv'
  <2>1. UNCHANGED main /\ wp' = "done" /\ Len(reasonCh') > 0
        /\ reasonCh'[1] = IF Len(reasonCh) > 0 THEN reasonCh[1] ELSE r
    BY <1>2, FirstReasonKept DEF WsPumpEnds
  <2> QED
    BY <1>2, <2>1 DEF ScreenInv
<1>3. CASE WsReadError
  BY <1>2, <1>3 DEF WsReadError, Reasons
<1>4. CASE WsWrite
  <2>1. UNCHANGED <<alt, tui, client, tp>> /\ wp = "write"
    BY <1>4 DEF WsWrite
  <2>2. CASE WsPumpEnds("client TCP write failed") /\ UNCHANGED leaked
    BY <1>2, <2>1, <2>2 DEF Reasons, ClientReasons
  <2>3. CASE wp' = "read" /\ UNCHANGED <<main, reasonCh>> /\ leaked' = IF tui THEN leaked + 1 ELSE leaked
    <3>1. leaked' <= 1
      BY <2>1, <2>3 DEF ScreenInv
    <3> QED
      BY <2>1, <2>3, <3>1 DEF ScreenInv
  <2> QED
    BY <1>4, <2>2, <2>3 DEF WsWrite
<1> QED
  BY <1>1, <1>3, <1>4 DEF WsPump

\* pumpTCPToWS ends with "stopped" only when runBridge waits for it.
LEMMA TcpPumpReasons ==
  ASSUME TypeInv,
         TcpRead \/ TcpReadError \/ TcpReply \/ ForwardByte \/ MatchByte \/ BreakMatch
  PROVE  /\ UNCHANGED <<alt, leaked, client>>
         /\ \/ UNCHANGED reasonCh
            \/ \E r \in Reasons : reasonCh' = Append(reasonCh, r) /\ (r = "stopped" => main = "collect")
<1>1. UNCHANGED <<alt, leaked, client>>
  BY DEF TcpRead, TcpReadError, TcpReply, ForwardByte, MatchByte, BreakMatch, clientVars, screenVars
<1>2. \/ UNCHANGED reasonCh
      \/ TcpPumpEnds("stopped") /\ DeadlineSet
      \/ TcpPumpEnds("client closed connection") \/ TcpPumpEnds("client TCP read failed")
      \/ TcpPumpEnds("client TCP write failed") \/ TcpPumpEnds("device WS closed")
  <2>1. CASE TcpRead \/ MatchByte
    BY <2>1 DEF TcpRead, MatchByte, mainVars
  <2>2. CASE TcpReadError
    BY <2>2 DEF TcpReadError
  <2>3. CASE TcpReply
    BY <2>3 DEF TcpReply, mainVars
  <2>4. CASE ForwardByte \/ BreakMatch
    BY <2>4 DEF ForwardByte, BreakMatch, SendFails, mainVars
  <2> QED
    BY <2>1, <2>2, <2>3, <2>4
<1>3. ASSUME NEW r \in Reasons, TcpPumpEnds(r), r = "stopped" => main = "collect"
      PROVE  \E q \in Reasons : reasonCh' = Append(reasonCh, q) /\ (q = "stopped" => main = "collect")
  BY <1>3 DEF TcpPumpEnds
<1>4. {"stopped", "client closed connection", "client TCP read failed", "client TCP write failed",
       "device WS closed"} \subseteq Reasons
  BY DEF Reasons, ClientReasons
<1>5. DeadlineSet => main = "collect"
  BY DEF DeadlineSet
<1> QED
  BY <1>1, <1>2, <1>3, <1>4, <1>5

LEMMA ScreenTcpPump == TypeInv /\ ControlInv /\ ScreenInv /\ TcpPump => ScreenInv'
<1> SUFFICES ASSUME TypeInv, ControlInv, ScreenInv, TcpPump PROVE ScreenInv'
  OBVIOUS
<1> USE DEF clientVars, wsVars, bufVars, tpVars, screenVars, mainVars
<1>1. CASE TcpRead \/ TcpReadError \/ TcpReply \/ ForwardByte \/ MatchByte \/ BreakMatch
  <2>1. UNCHANGED <<alt, leaked, client, main, wp, tui>> /\ tp # "exitRestore"
    BY <1>1, TcpPumpControl, TcpPumpReasons
  <2>2. CASE UNCHANGED reasonCh
    BY <2>1, <2>2, ScreenKept
  <2>3. CASE \E r \in Reasons : reasonCh' = Append(reasonCh, r) /\ (r = "stopped" => main = "collect")
    <3>1. PICK r \in Reasons : reasonCh' = Append(reasonCh, r) /\ (r = "stopped" => main = "collect")
      BY <2>3
    <3>2. Len(reasonCh') > 0 /\ reasonCh'[1] = IF Len(reasonCh) > 0 THEN reasonCh[1] ELSE r
      BY <3>1, FirstReasonKept
    <3>3. reasonCh'[1] # "stopped"
      BY <3>1, <3>2 DEF ScreenInv
    <3> QED
      BY <2>1, <3>2, <3>3 DEF ScreenInv
  <2> QED
    BY <1>1, <2>2, <2>3, TcpPumpReasons
<1>2. CASE EnterLock
  BY <1>2 DEF EnterLock, ScreenInv
<1>3. CASE EnterScreen
  <2>1. UNCHANGED <<leaked, client, main, wp, tui, reasonCh>> /\ tui
    BY <1>3 DEF EnterScreen, ControlInv
  <2> QED
    BY <2>1 DEF ScreenInv
<1>4. CASE EnterLoad \/ FeedTUI \/ DrawTUI \/ ExitFlush
  <2>1. UNCHANGED <<alt, tui, leaked, main, reasonCh, client, wp>> /\ tp # "exitRestore"
    BY <1>4 DEF EnterLoad, FeedTUI, DrawTUI, ExitFlush
  <2> QED
    BY <2>1, ScreenKept
<1>5. CASE ExitLock
  <2>1. UNCHANGED <<alt, leaked, main, reasonCh, client, wp>> /\ ~tui' /\ tp' = "exitRestore"
    BY <1>5 DEF ExitLock
  <2> QED
    BY <2>1 DEF ScreenInv
<1>6. CASE ExitRestore
  <2>1. UNCHANGED <<leaked, main, reasonCh, client, wp, tui>> /\ alt' = (alt /\ client = "gone")
    BY <1>6 DEF ExitRestore
  <2> QED
    BY <2>1 DEF ScreenInv
<1> QED
  BY <1>1, <1>2, <1>3, <1>4, <1>5, <1>6 DEF TcpPump

LEMMA ScreenStep == TypeInv /\ ControlInv /\ ScreenInv /\ [Next]_vars => ScreenInv'
<1> SUFFICES ASSUME TypeInv, ControlInv, ScreenInv, [Next]_vars PROVE ScreenInv'
  OBVIOUS
<1>1. CASE UNCHANGED vars \/ Finished
  <2>1. UNCHANGED <<alt, tui, leaked, main, reasonCh, client, tp, wp>>
    BY <1>1 DEF Finished, vars, clientVars, bufVars, mainVars, tpVars, screenVars
  <2> QED
    BY <2>1 DEF ScreenInv
<1> QED
  BY <1>1, ScreenEnvironment, ScreenMain, ScreenWsPump, ScreenTcpPump DEF Next

LEMMA ScreenHolds == Spec => [](TypeInv /\ ControlInv /\ ScreenInv)
<1>1. TypeInv /\ ControlInv /\ ScreenInv /\ [Next]_vars => (TypeInv /\ ControlInv /\ ScreenInv)'
  BY TypeStep, ControlStep, ScreenStep
<1> QED
  BY <1>1, InitType, ControlInit, ScreenInit, PTL DEF Spec

\* Whatever handleClient writes outside a bridge is on the console screen: exitTUI or
\* runBridge's teardown has left the alternate screen (bridge.go:333-337).
THEOREM ConsoleScreenBack == Spec => []ScreenRestored
<1>1. ControlInv /\ ScreenInv => ScreenRestored
  BY DEF ControlInv, ScreenInv, ScreenRestored, Pumping
<1> QED
  BY <1>1, ScreenHolds, PTL

\* One chunk at most is drawn over the TUI: the one that pumpWSToTCP had decided to
\* write before enterTUI took the lock (bridge.go:176-189).
THEOREM OneLeak == Spec => []AtMostOneLeak
<1>1. ScreenInv => AtMostOneLeak
  BY DEF ScreenInv, AtMostOneLeak
<1> QED
  BY <1>1, ScreenHolds, PTL

\* The answer to runBridge's own deadline is never the cause it returns (bridge.go:236).
THEOREM DeadlineNoCause == Spec => []StoppedIsNotACause
<1>1. TypeInv /\ ScreenInv => StoppedIsNotACause
  <2>1. TypeInv /\ reasonCh # <<>> => Len(reasonCh) > 0
    BY DEF TypeInv, TypeOK, TypeThreads
  <2> QED
    BY <2>1 DEF ScreenInv, StoppedIsNotACause
<1> QED
  BY <1>1, ScreenHolds, PTL

--------------------------------------------------------------------------------

(* No console output vanishes.                                             *)

\* Where the chunks are that have been read from /tty.
Accounted ==
  (IF InHand THEN {taken} ELSE {}) \cup Range(outBuf) \cup Range(pending) \cup Range(shown) \cup trimmed

LEMMA RangeAppend ==
  ASSUME NEW S, NEW s \in Seq(S), NEW e
  PROVE  Range(Append(s, e)) = Range(s) \cup {e}
<1>1. /\ DOMAIN Append(s, e) = 1..(Len(s) + 1) /\ DOMAIN s = 1..Len(s) /\ Len(s) \in Nat
      /\ Append(s, e)[Len(s) + 1] = e /\ \A i \in 1..Len(s) : Append(s, e)[i] = s[i]
  OBVIOUS
<1>2. 1..(Len(s) + 1) = 1..Len(s) \cup {Len(s) + 1}
  BY <1>1
<1> QED
  BY <1>1, <1>2 DEF Range

LEMMA RangeConcat ==
  ASSUME NEW S, NEW s \in Seq(S), NEW t \in Seq(S)
  PROVE  Range(s \o t) = Range(s) \cup Range(t)
<1>1. /\ DOMAIN (s \o t) = 1..(Len(s) + Len(t)) /\ DOMAIN s = 1..Len(s) /\ DOMAIN t = 1..Len(t)
      /\ Len(s) \in Nat /\ Len(t) \in Nat
      /\ \A i \in 1..Len(s) : (s \o t)[i] = s[i]
      /\ \A i \in 1..(Len(s) + Len(t)) : i > Len(s) => (s \o t)[i] = t[i - Len(s)]
  OBVIOUS
<1>2. ASSUME NEW i \in DOMAIN (s \o t) PROVE (s \o t)[i] \in Range(s) \cup Range(t)
  <2>1. CASE i \in 1..Len(s)
    BY <1>1, <2>1 DEF Range
  <2>2. CASE i > Len(s)
    <3>1. i - Len(s) \in DOMAIN t /\ (s \o t)[i] = t[i - Len(s)]
      BY <1>1, <1>2, <2>2
    <3> QED
      BY <3>1 DEF Range
  <2> QED
    BY <1>1, <1>2, <2>1, <2>2
<1>3. ASSUME NEW i \in DOMAIN s PROVE s[i] \in Range(s \o t)
  <2>1. i \in DOMAIN (s \o t) /\ (s \o t)[i] = s[i]
    BY <1>1, <1>3
  <2> QED
    BY <2>1 DEF Range
<1>4. ASSUME NEW i \in DOMAIN t PROVE t[i] \in Range(s \o t)
  <2>1. /\ Len(s) + i \in DOMAIN (s \o t) /\ Len(s) + i > Len(s) /\ Len(s) + i - Len(s) = i
        /\ Len(s) + i \in 1..(Len(s) + Len(t))
    BY <1>1, <1>4
  <2>2. (s \o t)[Len(s) + i] = t[i]
    BY <1>1, <2>1
  <2> QED
    BY <2>1, <2>2 DEF Range
<1> QED
  BY <1>2, <1>3, <1>4 DEF Range

LEMMA RangeTail ==
  ASSUME NEW S, NEW s \in Seq(S), Len(s) > 0
  PROVE  Range(s) = Range(Tail(s)) \cup {Head(s)}
<1>1. /\ DOMAIN s = 1..Len(s) /\ DOMAIN Tail(s) = 1..(Len(s) - 1) /\ Len(s) \in Nat /\ Head(s) = s[1]
      /\ \A i \in 1..(Len(s) - 1) : Tail(s)[i] = s[i + 1]
  OBVIOUS
<1>2. \A i \in 1..Len(s) : i = 1 \/ (i - 1 \in 1..(Len(s) - 1) /\ (i - 1) + 1 = i)
  BY <1>1
<1>3. 1 \in 1..Len(s) /\ \A i \in 1..(Len(s) - 1) : i + 1 \in 1..Len(s)
  BY <1>1
<1>4. ASSUME NEW i \in DOMAIN s PROVE s[i] \in Range(Tail(s)) \cup {Head(s)}
  <2>1. CASE i = 1
    BY <1>1, <2>1
  <2>2. CASE i - 1 \in 1..(Len(s) - 1) /\ (i - 1) + 1 = i
    <3>1. s[i] = Tail(s)[i - 1] /\ i - 1 \in DOMAIN Tail(s)
      BY <1>1, <2>2
    <3> QED
      BY <3>1 DEF Range
  <2> QED
    BY <1>1, <1>2, <1>4, <2>1, <2>2
<1>5. ASSUME NEW i \in DOMAIN Tail(s) PROVE Tail(s)[i] \in Range(s)
  BY <1>1, <1>3, <1>5 DEF Range
<1>6. Head(s) \in Range(s)
  BY <1>1, <1>3 DEF Range
<1> QED
  BY <1>4, <1>5, <1>6 DEF Range

\* A step that reads nothing loses nothing if all that was accounted for still is.
LEMMA NothingLost ==
  ASSUME OutputAccounted, UNCHANGED <<taken, born>>, client = "gone" => client' = "gone",
         client' # "gone" => Accounted \subseteq Accounted'
  PROVE  OutputAccounted'
BY DEF OutputAccounted, Accounted, InHand

LEMMA OutputKept ==
  ASSUME OutputAccounted, UNCHANGED <<taken, born, outBuf, pending, shown, trimmed>>,
         client = "gone" => client' = "gone", InHand' = InHand
  PROVE  OutputAccounted'
BY NothingLost DEF Accounted

LEMMA OutputInit == Init => OutputAccounted
BY DEF Init, OutputAccounted

LEMMA OutputEnvironment == OutputAccounted /\ Environment => OutputAccounted'
<1> SUFFICES ASSUME OutputAccounted, Environment PROVE OutputAccounted'
  OBVIOUS
<1>1. UNCHANGED <<taken, born, outBuf, pending, shown, trimmed, wp>> /\ (client = "gone" => client' = "gone")
  BY DEF Environment, ClientType, ClientClose, ClientStall, ClientResume, DeviceOutput, DeviceDrop,
         clientVars, wsVars, inVars, bufVars, tpVars, screenVars
<1>2. InHand' = InHand
  BY <1>1 DEF InHand
<1> QED
  BY <1>1, <1>2, OutputKept

LEMMA OutputMain == TypeInv /\ ControlInv /\ FreshInv /\ OutputAccounted /\ Main => OutputAccounted'
<1> SUFFICES ASSUME TypeInv, ControlInv, FreshInv, OutputAccounted, Main PROVE OutputAccounted'
  OBVIOUS
<1> USE DEF clientVars, wsVars, inVars, bufVars, tpVars, screenVars
<1>1. CASE DialOK
  <2>1. UNCHANGED <<client, born, outBuf, pending, shown, trimmed, wp>> /\ taken' = emitted /\ main = "dial"
    BY <1>1 DEF DialOK
  <2>2. ~InHand /\ ~InHand'
    BY <2>1 DEF ControlInv, Pumping, InHand
  <2>3. taken \in Nat /\ emitted \in Nat /\ emitted <= MaxOut /\ taken <= emitted /\ Chunks = 1..MaxOut
    BY DEF TypeInv, TypeOK, TypeDevice, Chunks
  <2>4. ASSUME NEW c \in 1..emitted, born[c] > 0 PROVE c \in 1..taken
    <3>0. c \in Chunks
      BY <2>3, BridgeAssumption DEF BridgeAssumption, Chunks
    <3>1. c > taken => born[c] = 0
      BY <3>0 DEF FreshInv
    <3> QED
      BY <2>3, <2>4, <3>1
  <2>5. Accounted' = Accounted
    BY <2>1, <2>2 DEF Accounted
  <2> QED
    BY <2>1, <2>2, <2>4, <2>5 DEF OutputAccounted, Accounted, InHand
<1>2. CASE Greet
  <2>1. UNCHANGED <<client, taken, born, outBuf, pending, shown, trimmed>> /\ main = "greet"
    BY <1>2 DEF Greet
  <2>2. wp = "done" /\ wp' \in {"done", "read"}
    BY <1>2, <2>1 DEF Greet, ControlInv, Pumping
  <2>3. InHand' = InHand
    BY <2>2 DEF InHand
  <2> QED
    BY <2>1, <2>3, OutputKept
<1>3. CASE DialFail \/ CollectFirst \/ SetDeadline \/ CollectSecond \/ RestoreScreen \/ EndSession \/ Retry
  <2>1. UNCHANGED <<client, taken, born, outBuf, pending, shown, trimmed, wp>>
    BY <1>3 DEF DialFail, CollectFirst, SetDeadline, CollectSecond, RestoreScreen, EndSession, Retry
  <2> QED
    BY <2>1, OutputKept DEF InHand
<1> QED
  BY <1>1, <1>2, <1>3 DEF Main

LEMMA OutputWsPump == TypeInv /\ OutputAccounted /\ WsPump => OutputAccounted'
<1> SUFFICES ASSUME TypeInv, OutputAccounted, WsPump PROVE OutputAccounted'
  OBVIOUS
<1>t. /\ outBuf \in Seq(Chunks) /\ shown \in Seq(Chunks) /\ taken \in Nat
      /\ born \in [Chunks -> 0..MaxConns] /\ emitted \in Nat /\ emitted <= MaxOut /\ Chunks = 1..MaxOut
      /\ InHand => taken \in Chunks
  BY DEF TypeInv, TypeOK, TypeOutput, TypeDevice, PumpInv, InHand, Chunks
<1> USE DEF clientVars, wsVars, bufVars, tpVars, screenVars, mainVars
<1>1. CASE WsRead
  <2>1. /\ UNCHANGED <<client, outBuf, pending, shown, trimmed>> /\ wp = "read" /\ wp' = "check"
        /\ taken' = taken + 1 /\ taken < emitted /\ born' = [born EXCEPT ![taken + 1] = epoch]
    BY <1>1 DEF WsRead
  <2>2. ~InHand /\ InHand'
    BY <2>1 DEF InHand
  <2>3. \A c \in 1..taken' : c = taken' \/ (c \in 1..taken /\ born'[c] = born[c])
    BY <2>1, <1>t
  <2>4. Accounted' = Accounted \cup {taken'}
    BY <2>1, <2>2 DEF Accounted
  <2> QED
    BY <2>1, <2>2, <2>3, <2>4 DEF OutputAccounted, Accounted, InHand
<1>2. CASE WsReadError \/ WsPass
  <2>1. UNCHANGED <<client, taken, born, outBuf, pending, shown, trimmed>>
    BY <1>2 DEF WsReadError, WsPass, inVars
  <2>2. (wp = "read" /\ wp' = "done") \/ (wp = "check" /\ wp' = "write")
    BY <1>2 DEF WsReadError, WsPass, WsPumpEnds
  <2>3. InHand' = InHand
    BY <2>2 DEF InHand
  <2> QED
    BY <2>1, <2>3, OutputKept
<1>3. CASE WsBuffer
  <2>1. /\ UNCHANGED <<client, taken, born, pending, shown>> /\ InHand /\ ~InHand'
        /\ \/ outBuf' = Append(outBuf, taken) /\ UNCHANGED trimmed
           \/ outBuf' = Tail(Append(outBuf, taken)) /\ trimmed' = trimmed \cup {Head(Append(outBuf, taken))}
    BY <1>3 DEF WsBuffer, inVars, InHand
  <2>2. Range(Append(outBuf, taken)) = Range(outBuf) \cup {taken}
    BY <1>t, RangeAppend
  <2>3. Append(outBuf, taken) \in Seq(Chunks) /\ Len(Append(outBuf, taken)) > 0
    BY <1>t, <2>1
  <2>4. Range(Append(outBuf, taken)) = Range(Tail(Append(outBuf, taken))) \cup {Head(Append(outBuf, taken))}
    BY <2>3, RangeTail
  <2>5. Range(outBuf)' \cup trimmed' = Range(outBuf) \cup {taken} \cup trimmed
    BY <2>1, <2>2, <2>4
  <2>6. Accounted \subseteq Accounted'
    BY <2>1, <2>5 DEF Accounted
  <2> QED
    BY <2>1, <2>6, NothingLost
<1>4. CASE WsWrite
  <2>1. UNCHANGED <<client, taken, born, outBuf, pending, trimmed>> /\ InHand
    BY <1>4 DEF WsWrite, inVars, InHand
  <2>2. ASSUME client' # "gone" PROVE Accounted \subseteq Accounted'
    <3>1. shown' = Append(shown, taken) /\ ~InHand'
      BY <1>4, <2>1, <2>2 DEF WsWrite, InHand
    <3>2. Range(shown') = Range(shown) \cup {taken}
      BY <1>t, <3>1, RangeAppend
    <3> QED
      BY <2>1, <3>1, <3>2 DEF Accounted
  <2> QED
    BY <2>1, <2>2, NothingLost
<1> QED
  BY <1>1, <1>2, <1>3, <1>4 DEF WsPump

LEMMA OutputTcpPump == TypeInv /\ ControlInv /\ OutputAccounted /\ TcpPump => OutputAccounted'
<1> SUFFICES ASSUME TypeInv, ControlInv, OutputAccounted, TcpPump PROVE OutputAccounted'
  OBVIOUS
<1> USE DEF clientVars, wsVars, bufVars, tpVars, screenVars, mainVars, inVars
<1>1. CASE ExitLock
  <2>1. /\ UNCHANGED <<client, taken, born, shown, trimmed, wp>> /\ tp = "exit"
        /\ pending' = outBuf /\ outBuf' = <<>>
    BY <1>1 DEF ExitLock, TakeBuffer
  <2>2. pending = <<>>
    BY <2>1 DEF ControlInv, MuFree
  <2>3. Range(pending) = {}
    BY <2>2 DEF Range
  <2>4. Accounted \subseteq Accounted'
    BY <2>1, <2>3 DEF Accounted, InHand
  <2> QED
    BY <2>1, <2>4, NothingLost
<1>2. CASE ExitFlush
  <2>1. UNCHANGED <<client, taken, born, outBuf, trimmed, wp>>
    BY <1>2 DEF ExitFlush
  <2>2. ASSUME client' # "gone" PROVE Accounted \subseteq Accounted'
    <3>1. shown' = shown \o pending
      BY <1>2, <2>1, <2>2 DEF ExitFlush
    <3>2. shown \in Seq(Chunks) /\ pending \in Seq(Chunks)
      BY DEF TypeInv, TypeOK, TypeOutput
    <3>3. Range(shown') = Range(shown) \cup Range(pending)
      BY <3>1, <3>2, RangeConcat
    <3> QED
      BY <2>1, <3>3 DEF Accounted, InHand
  <2> QED
    BY <2>1, <2>2, NothingLost
<1>3. CASE TcpRead \/ TcpReadError \/ TcpReply \/ ForwardByte \/ MatchByte \/ BreakMatch
  <2>1. UNCHANGED <<client, taken, born, outBuf, pending, shown, trimmed, wp>>
    BY <1>3 DEF TcpRead, TcpReadError, TcpReply, ForwardByte, MatchByte, BreakMatch
  <2> QED
    BY <2>1, OutputKept DEF InHand
<1>4. CASE EnterLock \/ EnterLoad \/ EnterScreen \/ FeedTUI \/ DrawTUI \/ ExitRestore
  <2>1. UNCHANGED <<client, taken, born, outBuf, pending, shown, trimmed, wp>>
    BY <1>4 DEF EnterLock, EnterLoad, EnterScreen, FeedTUI, DrawTUI, ExitRestore
  <2> QED
    BY <2>1, OutputKept DEF InHand
<1> QED
  BY <1>1, <1>2, <1>3, <1>4 DEF TcpPump

LEMMA OutputStep == TypeInv /\ ControlInv /\ FreshInv /\ OutputAccounted /\ [Next]_vars => OutputAccounted'
<1> SUFFICES ASSUME TypeInv, ControlInv, FreshInv, OutputAccounted, [Next]_vars PROVE OutputAccounted'
  OBVIOUS
<1>1. CASE UNCHANGED vars \/ Finished
  <2>1. UNCHANGED <<client, taken, born, outBuf, pending, shown, trimmed, wp>>
    BY <1>1 DEF Finished, vars, clientVars, inVars, bufVars, tpVars, screenVars
  <2> QED
    BY <2>1, OutputKept DEF InHand
<1> QED
  BY <1>1, OutputEnvironment, OutputMain, OutputWsPump, OutputTcpPump DEF Next

\* While the client is there no console output vanishes: what has been read from /tty is
\* in the pump's hands, held back, being replayed or shown, or was cut off by the
\* cap of outBuf (bridge.go:176-189, tui.go:300-310).
THEOREM OutputKeptThroughout == Spec => []OutputAccounted
<1> DEFINE I == TypeInv /\ ControlInv /\ FreshInv /\ OutputAccounted
<1>1. Init => I
  BY InitType, ControlInit, OutputInit DEF Init, FreshInv
<1>2. I /\ [Next]_vars => I'
  BY TypeStep, ControlStep, FreshStep, OutputStep
<1> QED
  BY <1>1, <1>2, PTL DEF Spec

--------------------------------------------------------------------------------

(* No keystroke vanishes on the first connection.                          *)

\* The keystroke was used, or dropped behind the key that closed the TUI.
Handled(i) == Used(i) \/ BehindQuit(i)

\* What is held has been passed, and only the matcher has it.
HeldMarked == \A i \in Range(held) : i \in 1..(pos - 1) /\ fate[i] = "held"

KeptInv ==
  /\ FirstLink => HeldMarked /\ \A i \in 1..(pos - 1) : Handled(i)
  /\ epoch = 0 => pos = 1 /\ held = <<>>

\* A dropped keystroke stays one while the TUI's marks are left alone.
LEMMA BehindKept ==
  ASSUME NEW i \in Nat, BehindQuit(i), \A k \in 1..i : typed'[k] = typed[k],
         \A j \in 1..i : fate[j] \in {"tui", "discarded"} => fate'[j] = fate[j]
  PROVE  BehindQuit(i)'
<1>1. PICK k \in 1..(i - 1) :
        typed[k] \in Quits /\ fate[k] = "tui" /\ \A j \in (k + 1)..i : fate[j] = "discarded"
  BY DEF BehindQuit
<1>2. k \in 1..i /\ \A j \in (k + 1)..i : j \in 1..i
  OBVIOUS
<1>3. typed'[k] \in Quits /\ fate'[k] = "tui" /\ \A j \in (k + 1)..i : fate'[j] = "discarded"
  BY <1>1, <1>2
<1> QED
  BY <1>3 DEF BehindQuit

\* A step that handles no keystroke and makes no first connection.
LEMMA KeysKept ==
  ASSUME KeptInv, pos \in Nat, UNCHANGED <<pos, held, fate, delivered>>,
         \A k \in 1..(pos - 1) : typed'[k] = typed[k],
         epoch' = 0 => epoch = 0, FirstLink' => FirstLink
  PROVE  KeptInv'
<1>1. ASSUME FirstLink PROVE HeldMarked'
  BY <1>1 DEF KeptInv, HeldMarked
<1>2. ASSUME FirstLink, NEW i \in 1..(pos - 1) PROVE Handled(i)'
  <2>1. CASE Used(i)
    BY <2>1 DEF Handled, Used
  <2>2. CASE BehindQuit(i)
    <3>1. i \in Nat /\ \A k \in 1..i : k \in 1..(pos - 1)
      OBVIOUS
    <3>2. BehindQuit(i)'
      BY <2>2, <3>1, BehindKept
    <3> QED
      BY <3>2 DEF Handled
  <2> QED
    BY <1>2, <2>1, <2>2 DEF KeptInv, Handled
<1> QED
  BY <1>1, <1>2 DEF KeptInv

\* A step after which the bridge is about to end.
LEMMA KeysEnded ==
  ASSUME KeptInv, ~FirstLink', epoch' > 0, epoch' \in Nat
  PROVE  KeptInv'
BY DEF KeptInv

\* A step of pumpTCPToWS that handles the keystrokes from pos to the new pos.
LEMMA KeysHandled ==
  ASSUME KeptInv, epoch' = epoch, epoch > 0, epoch \in Nat, ws' = ws, reasonCh' = reasonCh,
         pos \in Nat, pos' \in Nat,
         FirstLink /\ HeldMarked => HeldMarked',
         FirstLink /\ HeldMarked =>
           \A i \in 1..(pos' - 1) : (i < pos => Handled(i)) => Handled(i)'
  PROVE  KeptInv'
<1>1. FirstLink' => FirstLink
  BY DEF FirstLink
<1>2. ASSUME FirstLink PROVE HeldMarked' /\ \A i \in 1..(pos' - 1) : Handled(i)'
  <2>1. HeldMarked /\ \A i \in 1..(pos - 1) : Handled(i)
    BY <1>2 DEF KeptInv
  <2>2. \A i \in 1..(pos' - 1) : i < pos => Handled(i)
    BY <2>1
  <2> QED
    BY <1>2, <2>1, <2>2
<1>3. epoch' # 0
  OBVIOUS
<1> QED
  BY <1>1, <1>2, <1>3 DEF KeptInv

LEMMA KeptInit == Init => KeptInv
BY DEF Init, KeptInv, FirstLink

LEMMA KeptEnvironment == TypeInv /\ KeptInv /\ Environment => KeptInv'
<1> SUFFICES ASSUME TypeInv, KeptInv, Environment PROVE KeptInv'
  OBVIOUS
<1>t. typed \in Seq(Bytes) /\ pos \in Nat /\ nRead \in 0..Len(typed) /\ pos \in 1..(nRead + 1)
  BY PosInRange DEF TypeInv, TypeOK, TypeClient, TypeKeys
<1>1. UNCHANGED <<pos, held, fate, delivered, epoch, reasonCh>> /\ (ws' = "open" => ws = "open")
  BY DEF Environment, ClientType, ClientClose, ClientStall, ClientResume, DeviceOutput, DeviceDrop,
         wsVars, mainVars, tpVars, keyVars
<1>2. ASSUME NEW k \in 1..(pos - 1) PROVE typed'[k] = typed[k]
  <2>1. k \in 1..Len(typed)
    BY <1>t
  <2>2. typed' = typed \/ \E b \in Bytes : typed' = Append(typed, b)
    BY DEF Environment, ClientType, ClientClose, ClientStall, ClientResume, DeviceOutput, DeviceDrop,
           clientVars
  <2> QED
    BY <2>1, <2>2, <1>t
<1>3. FirstLink' => FirstLink
  BY <1>1 DEF FirstLink
<1> QED
  BY <1>1, <1>2, <1>3, <1>t, KeysKept

LEMMA KeptMain == TypeInv /\ KeptInv /\ Main => KeptInv'
<1> SUFFICES ASSUME TypeInv, KeptInv, Main PROVE KeptInv'
  OBVIOUS
<1> USE DEF wsVars, tpVars, keyVars, clientVars
<1>t. epoch \in Nat /\ pos \in Nat
  BY DEF TypeInv, TypeOK, TypeDevice, TypeKeys
<1>1. CASE DialOK
  <2>1. epoch' = epoch + 1 /\ pos' = pos
    BY <1>1 DEF DialOK
  <2>2. CASE epoch = 0
    <3>1. held' = <<>> /\ pos' = 1 /\ epoch' # 0
      BY <1>1, <2>1, <2>2, <1>t DEF KeptInv, DialOK
    <3>2. HeldMarked'
      BY <3>1 DEF HeldMarked, Range
    <3> QED
      BY <3>1, <3>2 DEF KeptInv
  <2>3. CASE epoch # 0
    <3>1. ~FirstLink' /\ epoch' > 0 /\ epoch' \in Nat
      BY <2>1, <2>3, <1>t DEF FirstLink
    <3> QED
      BY <3>1, KeysEnded
  <2> QED
    BY <2>2, <2>3
<1>2. CASE DialFail \/ Greet \/ CollectFirst
  <2>1. UNCHANGED <<pos, held, fate, delivered, epoch, typed>>
    BY <1>2 DEF DialFail, Greet, CollectFirst
  <2>2. UNCHANGED <<ws, reasonCh>> \/ Len(reasonCh') = 1 \/ ws' = "closed"
    <3>1. Len(<<"device unreachable">>) = 1
      OBVIOUS
    <3> QED
      BY <1>2, <3>1 DEF DialFail, Greet, CollectFirst
  <2>3. FirstLink' => FirstLink
    <3>1. Len(<<>>) = 0
      OBVIOUS
    <3> QED
      BY <2>1, <2>2, <3>1 DEF FirstLink
  <2> QED
    BY <2>1, <2>3, <1>t, KeysKept
<1>3. CASE SetDeadline \/ CollectSecond \/ RestoreScreen \/ EndSession \/ Retry
  <2>1. UNCHANGED <<pos, held, fate, delivered, epoch, ws, reasonCh, typed>>
    BY <1>3 DEF SetDeadline, CollectSecond, RestoreScreen, EndSession, Retry
  <2> QED
    BY <2>1, <1>t, KeysKept DEF FirstLink
<1> QED
  BY <1>1, <1>2, <1>3 DEF Main

LEMMA KeptWsPump == TypeInv /\ KeptInv /\ WsPump => KeptInv'
<1> SUFFICES ASSUME TypeInv, KeptInv, WsPump PROVE KeptInv'
  OBVIOUS
<1> USE DEF wsVars, tpVars, keyVars, mainVars, clientVars
<1>t. pos \in Nat
  BY PosInRange DEF TypeInv, TypeOK, TypeKeys
<1>1. UNCHANGED <<pos, held, fate, delivered, epoch, ws, typed>>
  BY DEF WsPump, WsRead, WsReadError, WsBuffer, WsPass, WsWrite
<1>2. UNCHANGED reasonCh \/ Len(reasonCh') > 0
  BY FirstReasonKept DEF WsPump, WsRead, WsReadError, WsBuffer, WsPass, WsWrite, WsPumpEnds
<1>3. FirstLink' => FirstLink
  BY <1>1, <1>2 DEF FirstLink
<1> QED
  BY <1>1, <1>3, <1>t, KeysKept

LEMMA KeptTcpPump == TypeInv /\ ControlInv /\ KeptInv /\ TcpPump => KeptInv'
<1> SUFFICES ASSUME TypeInv, ControlInv, KeptInv, TcpPump PROVE KeptInv'
  OBVIOUS
<1> USE DEF wsVars, keyVars, mainVars, clientVars
<1>t. /\ epoch \in Nat /\ pos \in Nat /\ nRead \in Nat /\ MaxKeys \in Nat
      /\ held \in Seq(Positions) /\ delivered \in Seq(Positions)
      /\ pos \in 1..(nRead + 1) /\ nRead <= MaxKeys /\ (tp = "scan" => pos <= nRead)
      /\ Positions = 1..MaxKeys
  BY BridgeAssumption DEF BridgeAssumption, TypeInv, TypeOK, TypeDevice, TypeClient, TypeKeys, PumpInv, Positions
<1>g. tp # "done" /\ epoch > 0
  <2>1. tp # "done"
    BY DEF TcpPump, TcpRead, TcpReadError, TcpReply, ForwardByte, MatchByte, BreakMatch, Scanning, EnterLock,
           EnterLoad, EnterScreen, FeedTUI, DrawTUI, ExitLock, ExitRestore, ExitFlush
  <2> QED
    BY <2>1, <1>t DEF ControlInv, Pumping
<1>w. UNCHANGED <<epoch, ws, typed>>
  BY DEF TcpPump, TcpRead, TcpReadError, TcpReply, ForwardByte, MatchByte, BreakMatch, EnterLock,
         EnterLoad, EnterScreen, FeedTUI, DrawTUI, ExitLock, ExitRestore, ExitFlush
<1>e. ASSUME NEW r, TcpPumpEnds(r) PROVE KeptInv'
  <2>1. Len(reasonCh') > 0
    BY <1>e, FirstReasonKept DEF TcpPumpEnds
  <2>2. ~FirstLink'
    BY <2>1 DEF FirstLink
  <2> QED
    BY <2>2, <1>t, <1>g, <1>w, KeysEnded
<1>k. ASSUME NEW i \in 1..(pos - 1), Handled(i),
             \A j \in 1..(pos - 1) : fate[j] \in {"tui", "discarded"} => fate'[j] = fate[j],
             Used(i) => Used(i)'
      PROVE  Handled(i)'
  <2>1. CASE BehindQuit(i)
    <3>1. i \in Nat /\ \A j \in 1..i : j \in 1..(pos - 1)
      BY <1>t
    <3>2. BehindQuit(i)'
      BY <2>1, <3>1, <1>k, <1>w, BehindKept
    <3> QED
      BY <3>2 DEF Handled
  <2> QED
    BY <2>1, <1>k DEF Handled
<1>m. \A S, f, i : i \in Positions => Mark(S, f)[i] = IF i \in S THEN f ELSE fate[i]
  BY DEF Mark
<1>p. /\ \A i \in 1..(pos - 1) : i \in Positions /\ i # pos
      /\ \A i \in 1..((pos + 1) - 1) : i < pos \/ i = pos
      /\ tp = "scan" => pos \in Positions /\ \A i \in 1..((nRead + 1) - 1) : i \in Positions /\ (i < pos \/ i \in pos..nRead)
  BY <1>t
<1>1. CASE ForwardByte
  <2>1. CASE SendFails
    BY <2>1, <1>e DEF SendFails
  <2>2. CASE Sent(<<pos>>) /\ Continue(pos + 1) /\ UNCHANGED <<mainVars, held>>
    <3>1. pos' = pos + 1 /\ tp = "scan" /\ UNCHANGED <<held, reasonCh>>
      BY <1>1, <2>2 DEF ForwardByte, Continue, Scanning
    <3>2. <<pos>> \in Seq(Positions) /\ Range(<<pos>>) = {pos}
      <4>1. pos \in Positions
        BY <1>p, <3>1
      <4>2. DOMAIN <<pos>> = {1} /\ <<pos>>[1] = pos
        OBVIOUS
      <4> QED
        BY <4>1, <4>2 DEF Range
    <3>3. ASSUME FirstLink, HeldMarked, NEW i \in 1..(pos' - 1), i < pos => Handled(i) PROVE Handled(i)'
      <4>1. delivered' = delivered \o <<pos>> /\ fate' = Mark({pos}, "device")
        BY <2>2, <3>2, <3>3 DEF Sent, FirstLink
      <4>2. Range(delivered') = Range(delivered) \cup {pos}
        <5>1. pos \in Positions
          BY <1>p, <3>1
        <5>2. delivered \o <<pos>> = Append(delivered, pos)
          BY <5>1, <1>t
        <5> QED
          BY <4>1, <5>1, <5>2, <1>t, RangeAppend
      <4>3. CASE i = pos
        BY <4>2, <4>3 DEF Handled, Used
      <4>4. CASE i < pos
        <5>1. i \in 1..(pos - 1)
          BY <4>4, <1>t, <3>1, <3>3
        <5>2. \A j \in 1..(pos - 1) : fate'[j] = fate[j]
          BY <4>1, <1>m, <1>p
        <5>3. Used(i) => Used(i)'
          BY <5>1, <5>2, <4>2, <3>1 DEF Used
        <5> QED
          BY <5>1, <5>2, <5>3, <4>4, <3>3, <1>k
      <4> QED
        BY <4>3, <4>4, <3>1, <3>3, <1>p
    <3>4. pos' \in Nat
      BY <3>1, <1>t
    <3>5. ASSUME FirstLink, HeldMarked, NEW i \in Range(held') PROVE i \in 1..(pos' - 1) /\ fate'[i] = "held"
      <4>1. i \in 1..(pos - 1) /\ fate[i] = "held"
        BY <3>1, <3>5 DEF HeldMarked
      <4>2. fate' = Mark({pos}, "device")
        BY <2>2, <3>2, <3>5 DEF Sent, FirstLink
      <4> QED
        BY <4>1, <4>2, <3>1, <1>m, <1>p, <1>t
    <3>6. FirstLink /\ HeldMarked => HeldMarked'
      BY <3>5 DEF HeldMarked
    <3> QED
      BY <3>1, <3>3, <3>4, <3>6, <1>t, <1>g, <1>w, KeysHandled
  <2> QED
    BY <1>1, <2>1, <2>2 DEF ForwardByte
<1>2. CASE MatchByte
  <2>1. tp = "scan" /\ pos' = pos + 1 /\ UNCHANGED <<delivered, reasonCh>> /\ pos' \in Nat
    BY <1>2, <1>t DEF MatchByte, Scanning, Continue
  <2>2. \/ held' = Append(held, pos) /\ fate' = Mark({pos}, "held")
        \/ held' = <<>> /\ fate' = Mark(Range(held) \cup {pos}, "hotkey")
    BY <1>2 DEF MatchByte
  <2>3. ASSUME FirstLink, HeldMarked, NEW i \in 1..(pos' - 1), i < pos => Handled(i) PROVE Handled(i)'
    <3>1. i \in Positions /\ (i < pos \/ i = pos)
      BY <2>1, <2>3, <1>p, <1>t
    <3>2. CASE held' = Append(held, pos) /\ fate' = Mark({pos}, "held")
      <4>1. Range(held') = Range(held) \cup {pos}
        BY <3>2, <1>t, RangeAppend
      <4>2. \A j \in 1..(pos - 1) : fate'[j] = fate[j]
        BY <3>2, <1>m, <1>p
      <4>3. CASE i = pos
        BY <4>1, <4>3 DEF Handled, Used
      <4>4. CASE i < pos
        <5>1. i \in 1..(pos - 1)
          BY <4>4, <1>t, <2>1, <2>3
        <5>2. Used(i) => Used(i)'
          BY <5>1, <4>1, <4>2, <2>1 DEF Used
        <5> QED
          BY <5>1, <5>2, <4>2, <4>4, <2>3, <1>k
      <4> QED
        BY <4>3, <4>4, <3>1
    <3>3. CASE held' = <<>> /\ fate' = Mark(Range(held) \cup {pos}, "hotkey")
      <4>1. \A j \in Positions : fate'[j] = IF j \in Range(held) \cup {pos} THEN "hotkey" ELSE fate[j]
        BY <3>3, <1>m
      <4>2. CASE i \in Range(held) \cup {pos}
        BY <4>1, <4>2, <3>1 DEF Handled, Used
      <4>3. CASE i \notin Range(held) \cup {pos}
        <5>1. i \in 1..(pos - 1) /\ i < pos
          BY <4>3, <3>1, <1>t, <2>1, <2>3
        <5>2. \A j \in 1..(pos - 1) : fate[j] \in {"tui", "discarded"} => fate'[j] = fate[j]
          BY <4>1, <1>p, <2>3 DEF HeldMarked
        <5>3. Used(i) => Used(i)'
          BY <4>1, <4>3, <3>1, <2>1 DEF Used
        <5> QED
          BY <5>1, <5>2, <5>3, <2>3, <1>k
      <4> QED
        BY <4>2, <4>3
    <3> QED
      BY <2>2, <3>2, <3>3
  <2>4. ASSUME FirstLink, HeldMarked, NEW i \in Range(held') PROVE i \in 1..(pos' - 1) /\ fate'[i] = "held"
    <3>1. CASE held' = Append(held, pos) /\ fate' = Mark({pos}, "held")
      <4>1. Range(held') = Range(held) \cup {pos}
        BY <3>1, <1>t, <2>1, <1>p, RangeAppend
      <4>2. pos \in Positions /\ pos \in 1..(pos' - 1)
        BY <2>1, <1>p, <1>t
      <4>3. CASE i = pos
        BY <4>2, <4>3, <3>1, <1>m
      <4>4. CASE i \in Range(held)
        <5>1. i \in 1..(pos - 1) /\ fate[i] = "held"
          BY <4>4, <2>4 DEF HeldMarked
        <5> QED
          BY <5>1, <3>1, <1>m, <1>p, <2>1, <1>t
      <4> QED
        BY <4>1, <4>3, <4>4, <2>4
    <3>2. CASE held' = <<>>
      BY <3>2, <2>4 DEF Range
    <3> QED
      BY <2>2, <3>1, <3>2
  <2>5. FirstLink /\ HeldMarked => HeldMarked'
    BY <2>4 DEF HeldMarked
  <2> QED
    BY <2>1, <2>3, <2>5, <1>t, <1>g, <1>w, KeysHandled
<1>3. CASE BreakMatch
  <2>1. CASE SendFails
    BY <2>1, <1>e DEF SendFails
  <2>2. CASE ReleaseHeld /\ UNCHANGED <<mainVars, tp, pos>>
    <3>1. UNCHANGED <<pos, reasonCh>> /\ Sent(held) /\ held' = <<>>
      BY <2>2 DEF ReleaseHeld
    <3>2. ASSUME FirstLink, HeldMarked, NEW i \in 1..(pos' - 1), i < pos => Handled(i) PROVE Handled(i)'
      <4>1. delivered' = delivered \o held /\ fate' = Mark(Range(held), "device")
        BY <3>1, <3>2 DEF Sent, FirstLink
      <4>2. Range(delivered') = Range(delivered) \cup Range(held)
        BY <4>1, <1>t, RangeConcat
      <4>3. i \in Positions /\ i < pos
        BY <3>1, <3>2, <1>p, <1>t
      <4>4. \A j \in Positions : j \notin Range(held) => fate'[j] = fate[j]
        BY <4>1, <1>m
      <4>5. i \in 1..(pos - 1)
        BY <3>1, <3>2
      <4>6. \A j \in 1..(pos - 1) : fate[j] \in {"tui", "discarded"} => fate'[j] = fate[j]
        BY <4>4, <1>p, <3>2 DEF HeldMarked
      <4>7. Used(i) => Used(i)'
        BY <4>2, <4>3, <4>4 DEF Used
      <4> QED
        BY <4>3, <4>5, <4>6, <4>7, <3>2, <1>k
    <3>3. HeldMarked'
      BY <3>1 DEF HeldMarked, Range
    <3> QED
      BY <3>1, <3>2, <3>3, <1>t, <1>g, <1>w, KeysHandled
  <2> QED
    BY <1>3, <2>1, <2>2 DEF BreakMatch
<1>4. CASE FeedTUI
  <2>1. tp = "scan" /\ pos' = nRead + 1 /\ UNCHANGED <<held, delivered, reasonCh>> /\ pos' \in Nat
    BY <1>4, <1>t DEF FeedTUI
  <2> DEFINE Closed(k) == [j \in Positions |-> IF j \in pos..k THEN "tui"
                                               ELSE IF j \in (k + 1)..nRead THEN "discarded" ELSE fate[j]]
  <2>4. \/ fate' = Mark(pos..nRead, "tui")
        \/ \E k \in pos..nRead : typed[k] \in Quits /\ fate' = Closed(k)
    BY <1>4, Zenon DEF FeedTUI
  <2> HIDE DEF Closed
  <2>3. \A j \in 1..(pos - 1) : fate'[j] = fate[j]
    <3> SUFFICES ASSUME NEW j \in 1..(pos - 1) PROVE fate'[j] = fate[j]
      OBVIOUS
    <3>1. j \in Positions /\ j \notin pos..nRead /\ \A k \in pos..nRead : j \notin pos..k /\ j \notin (k + 1)..nRead
      BY <1>t, <1>p
    <3>2. CASE fate' = Mark(pos..nRead, "tui")
      <4>1. Mark(pos..nRead, "tui")[j] = fate[j]
        BY <3>1 DEF Mark
      <4> QED
        BY <3>2, <4>1
    <3>3. ASSUME NEW k \in pos..nRead, fate' = Closed(k) PROVE fate'[j] = fate[j]
      BY <3>1, <3>3 DEF Closed
    <3> QED
      BY <2>4, <3>2, <3>3
  <2>2. ASSUME FirstLink, HeldMarked, NEW i \in 1..(pos' - 1), i < pos => Handled(i) PROVE Handled(i)'
    <3>1. i \in Positions /\ (i < pos \/ i \in pos..nRead)
      BY <2>1, <2>2, <1>p
    <3>2. CASE i < pos
      <4>1. i \in 1..(pos - 1)
        BY <3>2, <1>t, <2>2
      <4>2. \A j \in 1..(pos - 1) : fate'[j] = fate[j]
        BY <2>3
      <4>3. Used(i) => Used(i)'
        BY <4>1, <4>2, <2>1 DEF Used
      <4> QED
        BY <4>1, <4>2, <4>3, <3>2, <2>2, <1>k
    <3>3. CASE i \in pos..nRead
      <4>1. CASE fate' = Mark(pos..nRead, "tui")
        <5>1. Mark(pos..nRead, "tui")[i] = "tui"
          BY <3>1, <3>3 DEF Mark
        <5> QED
          BY <4>1, <5>1 DEF Handled, Used
      <4>2. ASSUME NEW k \in pos..nRead, typed[k] \in Quits, fate' = Closed(k) PROVE Handled(i)'
        <5>1. \A j \in Positions :
                fate'[j] = IF j \in pos..k THEN "tui" ELSE IF j \in (k + 1)..nRead THEN "discarded" ELSE fate[j]
          BY <4>2 DEF Closed
        <5>2. CASE i \in pos..k
          <6>1. fate'[i] = "tui"
            BY <5>1, <5>2, <3>1
          <6> QED
            BY <6>1 DEF Handled, Used
        <5>3. CASE i \notin pos..k
          <6>1. /\ k \in 1..(i - 1) /\ k \in Positions /\ k \in pos..k
                /\ \A j \in (k + 1)..i : j \in Positions /\ j \notin pos..k /\ j \in (k + 1)..nRead
            BY <5>3, <4>2, <3>3, <1>t
          <6>2. fate'[k] = "tui" /\ typed'[k] \in Quits /\ \A j \in (k + 1)..i : fate'[j] = "discarded"
            BY <6>1, <5>1, <4>2, <1>w
          <6>3. BehindQuit(i)'
            BY <6>1, <6>2 DEF BehindQuit
          <6> QED
            BY <6>3 DEF Handled
        <5> QED
          BY <5>2, <5>3
      <4> QED
        BY <2>4, <4>1, <4>2
    <3> QED
      BY <3>1, <3>2, <3>3
  <2>5. FirstLink /\ HeldMarked => HeldMarked'
    <3>1. ASSUME HeldMarked, NEW i \in Range(held) PROVE i \in 1..(pos' - 1) /\ fate'[i] = "held"
      <4>1. i \in 1..(pos - 1) /\ fate[i] = "held"
        BY <3>1 DEF HeldMarked
      <4> QED
        BY <4>1, <2>1, <2>3, <1>t
    <3> QED
      BY <3>1, <2>1 DEF HeldMarked
  <2> QED
    BY <2>1, <2>2, <2>5, <1>t, <1>g, <1>w, KeysHandled
<1>5. CASE TcpReadError
  BY <1>5, <1>e DEF TcpReadError
<1>6. CASE TcpReply
  <2>1. CASE TcpPumpEnds("client TCP write failed")
    BY <2>1, <1>e
  <2>2. CASE Continue(pos) /\ UNCHANGED <<mainVars, fate>>
    <3>1. UNCHANGED <<pos, held, fate, delivered, reasonCh>>
      BY <1>6, <2>2 DEF TcpReply, Continue
    <3> QED
      BY <3>1, <1>t, <1>w, KeysKept DEF FirstLink
  <2> QED
    BY <1>6, <2>1, <2>2 DEF TcpReply
<1>7. CASE TcpRead \/ EnterLock \/ EnterLoad \/ EnterScreen \/ DrawTUI \/ ExitLock \/ ExitRestore \/ ExitFlush
  <2>1. UNCHANGED <<pos, held, fate, delivered, reasonCh>>
    BY <1>7 DEF TcpRead, EnterLock, EnterLoad, EnterScreen, Continue, DrawTUI, ExitLock, ExitRestore, ExitFlush
  <2> QED
    BY <2>1, <1>t, <1>w, KeysKept DEF FirstLink
<1> QED
  BY <1>1, <1>2, <1>3, <1>4, <1>5, <1>6, <1>7 DEF TcpPump

LEMMA KeptStep == TypeInv /\ ControlInv /\ KeptInv /\ [Next]_vars => KeptInv'
<1> SUFFICES ASSUME TypeInv, ControlInv, KeptInv, [Next]_vars PROVE KeptInv'
  OBVIOUS
<1>1. CASE UNCHANGED vars \/ Finished
  <2>1. UNCHANGED <<pos, held, fate, delivered, epoch, ws, reasonCh, typed>>
    BY <1>1 DEF Finished, vars, clientVars, wsVars, mainVars, tpVars, keyVars
  <2>2. pos \in Nat
    BY PosInRange DEF TypeInv, TypeOK, TypeKeys
  <2> QED
    BY <2>1, <2>2, KeysKept DEF FirstLink
<1> QED
  BY <1>1, KeptEnvironment, KeptMain, KeptWsPump, KeptTcpPump DEF Next

\* While the first /tty connection is there, every keystroke that handleInput has passed
\* reached the device, is part of a hotkey, is held, or went to the TUI, whatever partial
\* matches have been broken (bridge.go:249-309); the one exception are the keystrokes read
\* together with the key that closed the TUI, behind it (tui.go:319-322).
THEOREM KeysKeptThroughout == Spec => []KeystrokesAccounted
<1> DEFINE I == TypeInv /\ ControlInv /\ KeptInv
<1>1. Init => I
  BY InitType, ControlInit, KeptInit
<1>2. I /\ [Next]_vars => I'
  BY TypeStep, ControlStep, KeptStep
<1>3. I => KeystrokesAccounted
  BY DEF KeptInv, Handled, KeystrokesAccounted
<1> QED
  BY <1>1, <1>2, <1>3, PTL DEF Spec

================================================================================
