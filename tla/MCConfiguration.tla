----------------------------- MODULE MCConfiguration -----------------------------
(* Values for the model-checking run of Configuration.                     *)
EXTENDS Configuration

MCWords ==
  [host      |-> {"imsai", ""},
   eol       |-> {"raw", "crlf", "lf", "CR"},
   cols      |-> {"132", "0x50", "wide"},
   cr_delay  |-> {"1", "0.5"},
   tui       |-> {"1", "F", "t", "false", "Yes"},
   hotkey    |-> {"Ctrl+J", "Ctrl+M", "Ctrl+@", "Ctrl+Alt+J", "Alt+P", "Shift+Alt+x", "P", "Ctrl+5", "Hyper+x", "F1"},
   resize    |-> {"OFF", "0x24"},
   log_level |-> {"Info", "warning", "none"}]

MCNumerals ==
  "1"    :> [form |-> "decimal", says |-> "1"] @@
  "132"  :> [form |-> "decimal", says |-> "132"] @@
  "0x50" :> [form |-> "based", says |-> "80"] @@
  "0.5"  :> [form |-> "fraction", says |-> "0.500"]

\* Of every word above that has another case and is read without regard to it.
MCSpellings ==
  {[all |-> {"f", "F"}, lower |-> "f", upper |-> "F"],
   [all |-> {"t", "T"}, lower |-> "t", upper |-> "T"],
   [all |-> {"yes", "Yes", "YES"}, lower |-> "yes", upper |-> "YES"],
   [all |-> {"false", "False", "FALSE"}, lower |-> "false", upper |-> "FALSE"],
   [all |-> {"off", "Off", "OFF"}, lower |-> "off", upper |-> "OFF"],
   [all |-> {"none", "None", "NONE"}, lower |-> "none", upper |-> "NONE"],
   [all |-> {"info", "Info", "INFO"}, lower |-> "info", upper |-> "INFO"],
   [all |-> {"warning", "Warning", "WARNING"}, lower |-> "warning", upper |-> "WARNING"]}

MCHotkeySpec ==
  "Ctrl+\\"     :> [mods |-> <<"CTRL">>, key |-> <<92>>] @@
  "Ctrl+J"      :> [mods |-> <<"CTRL">>, key |-> <<74>>] @@
  "Ctrl+M"      :> [mods |-> <<"CTRL">>, key |-> <<77>>] @@
  "Ctrl+@"      :> [mods |-> <<"CTRL">>, key |-> <<64>>] @@
  "Ctrl+Alt+J"  :> [mods |-> <<"CTRL", "ALT">>, key |-> <<74>>] @@
  "Alt+P"       :> [mods |-> <<"ALT">>, key |-> <<80>>] @@
  "Shift+Alt+x" :> [mods |-> <<"SHIFT", "ALT">>, key |-> <<120>>] @@
  "P"           :> [mods |-> <<>>, key |-> <<80>>] @@
  "Ctrl+5"      :> [mods |-> <<"CTRL">>, key |-> <<53>>] @@
  "Hyper+x"     :> [mods |-> <<"HYPER">>, key |-> <<120>>] @@
  "F1"          :> [mods |-> <<>>, key |-> <<70, 49>>]

MCResizeSpec ==
  "80x24" :> <<80, 24>> @@ "0x24" :> <<0, 24>>
================================================================================
