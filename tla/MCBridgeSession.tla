---------------------------- MODULE MCBridgeSession ----------------------------
(* Values for the model-checking runs of BridgeSession.                    *)
EXTENDS BridgeSession

CONSTANTS Esc, M

\* The default hotkey Alt+M: a partial match can be broken, and a TUI can be
\* opened and closed with three keystrokes.
MCAltHotkey == {<<Esc, M>>}

\* A one-byte hotkey such as Ctrl+].
MCShortHotkey == {<<M>>}

\* Either: with the one-byte hotkey a third keystroke can follow the one that
\* closes the TUI.
MCHotkeys == MCAltHotkey \cup MCShortHotkey
================================================================================
