------------------------------ MODULE ConsoleLink ------------------------------
(***************************************************************************)
(* What one client session promises, whatever pumps, buffers, hotkeys and  *)
(* reconnects are behind it: console output reaches the client in the      *)
(* order of the /tty connection it came from and at most once, and         *)
(* keystrokes reach the device in the order they were typed and at most    *)
(* once.  Both directions may lose data when a connection ends.            *)
(***************************************************************************)
EXTENDS Naturals, Sequences

CONSTANTS
  MaxKeys,  \* bound: keystrokes typed in the session
  MaxOut    \* bound: chunks of console output

VARIABLES
  conn,       \* number of /tty connections so far
  born,       \* born[c] = the connection chunk c was received from, 0 = not received
  shown,      \* the chunks shown to the client, in order
  delivered   \* the keystrokes (their positions) the device received, in order

vars == <<conn, born, shown, delivered>>

Extends(s, t) == Len(s) <= Len(t) /\ \A i \in 1..Len(s) : t[i] = s[i]

InOrder(out) ==
  \A i, j \in 1..Len(out) : i < j /\ born[out[i]] = born[out[j]] => out[i] < out[j]

Increasing(s) == \A i, j \in 1..Len(s) : i < j => s[i] < s[j]

Init ==
  /\ conn = 0
  /\ born = [c \in 1..MaxOut |-> 0]
  /\ shown = <<>> /\ delivered = <<>>

Connect ==
  /\ conn' = conn + 1
  /\ UNCHANGED <<born, shown, delivered>>

\* A chunk is received, after every chunk received before it.
Receive ==
  /\ \E c \in 1..MaxOut :
       /\ \A d \in c..MaxOut : born[d] = 0
       /\ born' = [born EXCEPT ![c] = conn]
  /\ UNCHANGED <<conn, shown, delivered>>

\* One or more received chunks are shown.
Show ==
  /\ Extends(shown, shown') /\ InOrder(shown')
  /\ \A i \in 1..Len(shown') : shown'[i] \in 1..MaxOut /\ born[shown'[i]] > 0
  /\ UNCHANGED <<conn, born, delivered>>

\* One or more keystrokes arrive at the device.
Deliver ==
  /\ Extends(delivered, delivered') /\ Increasing(delivered')
  /\ \A i \in 1..Len(delivered') : delivered'[i] \in 1..MaxKeys
  /\ UNCHANGED <<conn, born, shown>>

Next == Connect \/ Receive \/ Show \/ Deliver

Spec == Init /\ [][Next]_vars
================================================================================
