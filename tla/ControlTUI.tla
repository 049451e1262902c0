------------------------------- MODULE ControlTUI -------------------------------
(***************************************************************************)
(* The control TUI of one session: type tuiModel of gateway-go/tui.go, the *)
(* handlers tuiKey dispatches to, and the REST API of device.go they call. *)
(* It runs in the goroutine of pumpTCPToWS: one key at a time, every HTTP  *)
(* request waited for.  How it is opened and closed, and what that does to *)
(* the console, is module BridgeSession's.                                 *)
(*                                                                         *)
(* The IMSAI device is the environment: its drives and its library.  Its   *)
(* WebUI, or another session of the gateway, may change both between any   *)
(* two requests, and a request may fail before or after it took effect.    *)
(*                                                                         *)
(* Drive ids and file names are numbers, in the order the code sorts them. *)
(* Indices count from 0, as in the code.                                   *)
(***************************************************************************)
EXTENDS Integers, Sequences, FiniteSets, Sorting

CONSTANTS
  Drives,       \* the ids of the drive slots
  HardDrives,   \* the slot "I"
  Dsk, Hdd,     \* file names that end in .dsk, in .hdd ...
  OtherFiles,   \* ... and in neither (disk.map)
  PageSteps,    \* the values m.pageStep takes
  Lines,        \* the lengths of a SYS or preview listing
  MaxUsers,     \* the most users of an image the preview can show
  MaxOthers,    \* bound: changes others make to the device
  MaxFailures   \* bound: requests that fail

Files  == Dsk \cup Hdd \cup OtherFiles
NoFile == 0

ASSUME TUIAssumption ==
  /\ Drives \subseteq Nat \ {0} /\ IsFiniteSet(Drives) /\ HardDrives \subseteq Drives
  /\ Files \subseteq Nat \ {NoFile} /\ IsFiniteSet(Files)
  /\ Dsk \cap Hdd = {} /\ Dsk \cap OtherFiles = {} /\ Hdd \cap OtherFiles = {}
  /\ PageSteps \subseteq Nat \ {0} /\ Lines \subseteq Nat \ {0}
  /\ MaxUsers \in Nat \ {0} /\ MaxOthers \in Nat /\ MaxFailures \in Nat

VARIABLES
  slots,      \* the drive slots the device has at present
  drive,      \* the image in each drive, NoFile: empty
  library,    \* the files on the device
  others,     \* auxiliary: changes made by others
  failures,   \* auxiliary: requests that failed
  pc,         \* "closed", "key": tuiKey may be called, or the request in progress
  after,      \* what the handler sets m.status to after its refresh
  mode,       \* m.mode
  disks,      \* m.disks
  sel,        \* m.sel
  libLoaded,  \* m.libLoaded
  libCache,   \* m.library
  libItems,   \* m.libItems
  libItemSel, \* m.libItemSel
  view,       \* the cursor of the pane in use, see NoView
  machine,    \* m.machine # ""
  confirm,    \* m.confirm
  target,     \* the file the overlay names, captured by m.confirmAct; or doMount's
              \* drive and file
  status      \* m.status

deviceVars  == <<slots, drive, library>>
auxVars     == <<others, failures>>
diskVars    == <<disks, sel>>
pickVars    == <<libLoaded, libCache>>
itemVars    == <<libItems, libItemSel, machine>>
confirmVars == <<confirm, target>>

vars == <<deviceVars, auxVars, pc, after, mode, diskVars, pickVars, itemVars, view, confirmVars,
          status>>

\* m.selSw, m.sysScroll, m.prevScroll or m.libSel: each is set anew when its
\* pane is entered.  n is the length of the list it moves in, for is m.libFor of
\* the picker, users and user are len(m.prevUsers) and m.prevUserIdx of the preview.
NoView == [at |-> 0, n |-> 0, for |-> 0, users |-> 0, user |-> 0]

ViewOf(length) == [NoView EXCEPT !.n = length]

NoTarget == [drive |-> 0, file |-> NoFile]

\* m.status by what it says, "note" standing for every other message; drive and
\* file are the names in it.
Says(kind)       == [kind |-> kind, drive |-> 0, file |-> NoFile]
Ejected(d)       == [kind |-> "ejected", drive |-> d, file |-> NoFile]
Mounted(d, f)    == [kind |-> "mounted", drive |-> d, file |-> f]
NotFound(f)      == [kind |-> "not found", drive |-> 0, file |-> f]
Deleted(f)       == [kind |-> "deleted", drive |-> 0, file |-> f]

\* What GET /disks and getDisks make of the drives.
DiskList == LET ids == Sorted(slots)
            IN [i \in 1..Len(ids) |-> [id |-> ids[i], image |-> drive[ids[i]]]]

IsHardDisk(d) == d.id \in HardDrives \/ d.image \in Hdd

filterDsk(all)        == Sorted(all \cap Dsk)
filterDiskImages(all) == Sorted(all \cap (Dsk \cup Hdd))

LibView  == filterDsk(libCache)
Selected == disks[sel + 1]

SelectedItem == libItemSel < Len(libItems)
ItemName     == libItems[libItemSel + 1]

\* Mutant: no lower bound.
clampIndex_NoFloor(i, n) == IF i > n - 1 THEN n - 1 ELSE i

\* The nearest valid index, 0 in an empty list.
clampIndex(i, n) == IF n <= 0 \/ i < 0 THEN 0 ELSE IF i > n - 1 THEN n - 1 ELSE i

\* Where a navigation key may take index i of a list of n items.
Moved(k, i, n) ==
  CASE k = "up"   -> {IF i > 0 THEN i - 1 ELSE i}
    [] k = "down" -> {IF i < n - 1 THEN i + 1 ELSE i}
    [] k = "pgup" -> {clampIndex(i - s, n) : s \in PageSteps}
    [] k = "pgdn" -> {clampIndex(i + s, n) : s \in PageSteps}

\* A removable drive holds a floppy image, the hard-disk slot a .hdd image, and
\* the firmware mounts no image twice.
DriveStates ==
  {m \in [Drives -> {NoFile} \cup Dsk \cup Hdd] :
     /\ \A d \in Drives : m[d] # NoFile => (m[d] \in Hdd <=> d \in HardDrives)
     /\ \A d, e \in Drives : m[d] = m[e] /\ d # e => m[d] = NoFile}

\* &tuiModel{mode: tmDisks}.
NewModel ==
  /\ mode' = "disks" /\ disks' = <<>> /\ sel' = 0
  /\ libLoaded' = FALSE /\ libCache' = {}
  /\ libItems' = <<>> /\ libItemSel' = 0 /\ machine' = FALSE
  /\ view' = NoView /\ confirm' = FALSE /\ target' = NoTarget
  /\ status' = Says("")

Init ==
  /\ slots = Drives /\ library = Files /\ drive \in DriveStates
  /\ others = 0 /\ failures = 0
  /\ pc = "closed" /\ after = Says("") /\ mode = "disks"
  /\ disks = <<>> /\ sel = 0
  /\ libLoaded = FALSE /\ libCache = {}
  /\ libItems = <<>> /\ libItemSel = 0 /\ machine = FALSE
  /\ view = NoView /\ confirm = FALSE /\ target = NoTarget
  /\ status = Says("")

--------------------------------------------------------------------------------
(* The device, and those who share it.                                     *)

Inserted(f) == {d \in Drives : drive[d] = f}

\* PUT /disks?d:DSK: with f: the slot is there and empty, the image is in the
\* library and in no drive.
Mountable(d, f) == d \in slots /\ drive[d] = NoFile /\ f \in library /\ Inserted(f) = {}

\* The WebUI or another session mounts, ejects, uploads or deletes; or the
\* machine loses a drive.
OthersChange ==
  /\ others < MaxOthers
  /\ others' = others + 1
  /\ \/ /\ \/ \E d \in slots \ HardDrives, f \in library \cap Dsk :
                Mountable(d, f) /\ drive' = [drive EXCEPT ![d] = f]
           \/ \E d \in slots \ HardDrives : drive[d] # NoFile /\ drive' = [drive EXCEPT ![d] = NoFile]
        /\ UNCHANGED <<slots, library>>
     \/ \E f \in Dsk \cup Hdd :
          /\ library' = IF f \in library THEN library \ {f} ELSE library \cup {f}
          /\ UNCHANGED <<slots, drive>>
     \/ \E d \in slots : slots' = slots \ {d} /\ UNCHANGED <<drive, library>>
  /\ UNCHANGED <<failures, pc, after, mode, diskVars, pickVars, itemVars, view, confirmVars, status>>

\* A request fails: a timeout, a dropped connection, an answer that is no JSON.
Fails == failures < MaxFailures /\ failures' = failures + 1

Works == UNCHANGED failures

--------------------------------------------------------------------------------
(* Keys.  tuiFeed hands the keys of a chunk to tuiKey and then draws.       *)

\* The panes q and Esc close the TUI from, and Tab cycles through.
TopLevel == {"disks", "panel", "system", "lib"}

NavigationKeys == {"up", "down", "left", "right", "pgup", "pgdn"}

\* Mutant: Escape does not leave the front panel.
PanelCases_NoEscape == {"left", "right", "up", "down", "q", "tab", "r", "u", "d"}

PanelCases == {"left", "right", "up", "down", "esc", "q", "tab", "r", "u", "d"}

\* The keys a pane's switch has a case for.
Cases ==
  LET list == {"up", "down", "pgup", "pgdn", "esc", "q"}
  IN [disks   |-> list \cup {"enter", "tab", "r", "e", "m"},
      panel   |-> PanelCases,
      system  |-> list \cup {"tab", "r"},
      lib     |-> list \cup {"enter", "tab", "r", "v", "d"},
      preview |-> list \cup {"left", "right"},
      library |-> list \cup {"enter"}]

\* m.confirm is off: tuiKey dispatches on the pane, which has a case for the key.
Key(k) == pc = "key" /\ ~confirm /\ k \in Cases[mode]

\* Navigation clears the status message.
Cleared(k) == IF k \in NavigationKeys THEN Says("") ELSE status

NoRequest == UNCHANGED <<deviceVars, auxVars, after>>

EnterTUI ==
  /\ pc = "closed"
  /\ pc' = "disks" /\ after' = Says("")
  /\ UNCHANGED <<deviceVars, auxVars, mode, diskVars, pickVars, itemVars, view, confirmVars, status>>

\* tuiDraw, after the last key of a chunk: the scroll position of SYS and of the
\* preview is pulled back into the listing.
Draw ==
  /\ pc = "key" /\ mode \in {"system", "preview"} /\ view.at >= view.n
  /\ view' = [view EXCEPT !.at = clampIndex(view.n - 1, view.n)]
  /\ NoRequest
  /\ UNCHANGED <<pc, mode, diskVars, pickVars, itemVars, confirmVars, status>>

\* q or Esc in a top-level pane: tuiM = nil, the next EnterTUI makes a new one.
Leave(k) ==
  /\ Key(k) /\ k \in {"esc", "q"} /\ mode \in TopLevel
  /\ pc' = "closed" /\ NewModel
  /\ NoRequest

\* Mutant: tmLibrary for tmLib.
BackTo_Library == IF mode = "library" THEN "disks" ELSE "library"

BackTo == IF mode = "library" THEN "disks" ELSE "lib"

\* q or Esc in the picker or the preview.
Back(k) ==
  /\ Key(k) /\ k \in {"esc", "q"} /\ mode \in {"library", "preview"}
  /\ mode' = BackTo
  /\ view' = NoView /\ status' = Says("") /\ pc' = "key"
  /\ NoRequest
  /\ UNCHANGED <<diskVars, pickVars, itemVars, confirmVars>>

\* Up, Down and the page keys in a list.
Move(k) ==
  /\ Key(k) /\ k \in {"up", "down", "pgup", "pgdn"} /\ mode # "panel"
  /\ \/ /\ mode = "disks"
        /\ sel' \in Moved(k, sel, Len(disks))
        /\ UNCHANGED <<libItemSel, view>>
     \/ /\ mode = "lib"
        /\ libItemSel' \in Moved(k, libItemSel, Len(libItems))
        /\ UNCHANGED <<sel, view>>
     \/ /\ mode \in {"library", "system", "preview"}
        /\ \E i \in Moved(k, view.at, view.n) : view' = [view EXCEPT !.at = i]
        /\ UNCHANGED <<sel, libItemSel>>
  /\ status' = Says("") /\ pc' = "key"
  /\ NoRequest
  /\ UNCHANGED <<mode, disks, pickVars, libItems, machine, confirmVars>>

\* Left and Right in the panel: the command switches.
SelectSwitch(k) ==
  /\ Key(k) /\ k \in {"left", "right"} /\ mode = "panel"
  /\ \E i \in Moved(IF k = "left" THEN "up" ELSE "down", view.at, view.n) : view' = [view EXCEPT !.at = i]
  /\ status' = Says("") /\ pc' = "key"
  /\ NoRequest
  /\ UNCHANGED <<mode, diskVars, pickVars, itemVars, confirmVars>>

\* previewSetUser: Left and Right in the preview.
SelectUser(k) ==
  /\ Key(k) /\ k \in {"left", "right"} /\ mode = "preview"
  /\ LET u == IF k = "left" THEN view.user - 1 ELSE view.user + 1
     IN IF u \in 0..(view.users - 1)
          THEN \E n \in Lines : view' = [view EXCEPT !.user = u, !.at = 0, !.n = n]
          ELSE UNCHANGED view
  /\ status' = Says("") /\ pc' = "key"
  /\ NoRequest
  /\ UNCHANGED <<mode, diskVars, pickVars, itemVars, confirmVars>>

\* No case of the pane's switch applies.
Ignored(k) ==
  /\ pc = "key" /\ ~confirm /\ k \notin Cases[mode]
  /\ status' = Cleared(k) /\ pc' = "key"
  /\ NoRequest
  /\ UNCHANGED <<mode, diskVars, pickVars, itemVars, view, confirmVars>>

--------------------------------------------------------------------------------
(* Front panel and tabs.                                                   *)

Switches == 6   \* len(panelSwitches)

TabKey ==
  /\ Key("tab") /\ mode \in TopLevel
  /\ \/ /\ mode = "disks" /\ mode' = "panel" /\ view' = ViewOf(Switches)
        /\ status' \in {Says(""), Says("note")} /\ pc' = "key"
     \/ mode = "panel" /\ mode' = "system" /\ view' = NoView /\ status' = Says("") /\ pc' = "system"
     \/ mode = "system" /\ mode' = "lib" /\ view' = NoView /\ status' = Says("") /\ pc' = "items"
     \/ mode = "lib" /\ mode' = "disks" /\ UNCHANGED view /\ status' = Says("") /\ pc' = "key"
  /\ NoRequest
  /\ UNCHANGED <<diskVars, pickVars, itemVars, confirmVars>>

RefreshKey ==
  /\ Key("r") /\ mode \in {"disks", "system", "lib"}
  /\ pc' = CASE mode = "disks" -> "disks" [] mode = "system" -> "system" [] mode = "lib" -> "items"
  /\ NoRequest
  /\ UNCHANGED <<mode, diskVars, pickVars, itemVars, view, confirmVars, status>>

\* refreshPanel and doActuate.  s.cpa may be nil, and s.cpa.send may fail; the
\* last switch, power, has no code.  Neither changes anything but the message.
RefreshPanel ==
  /\ Key("r") /\ mode = "panel"
  /\ status' \in {status, Says("note")} /\ pc' = "key"
  /\ NoRequest
  /\ UNCHANGED <<mode, diskVars, pickVars, itemVars, view, confirmVars>>

Actuate(k) ==
  /\ Key(k) /\ k \in {"up", "down", "u", "d"} /\ mode = "panel"
  /\ status' = Says("note") /\ pc' = "key"
  /\ NoRequest
  /\ UNCHANGED <<mode, diskVars, pickVars, itemVars, view, confirmVars>>

\* refreshSystem; an error is a listing of one line.
GetSystem ==
  /\ pc = "system"
  /\ \/ Works /\ \E n \in Lines : view' = [view EXCEPT !.n = n]
     \/ Fails /\ view' = [view EXCEPT !.n = 1]
  /\ pc' = "key"
  /\ UNCHANGED <<deviceVars, others, after, mode, diskVars, pickVars, itemVars, confirmVars, status>>

--------------------------------------------------------------------------------
(* Disks and the picker.                                                   *)

\* The end of a refresh: a message of the handler that refreshed wins.
Refreshed(st) ==
  /\ status' = IF after = Says("") THEN st ELSE after
  /\ after' = Says("") /\ pc' = "key"

\* Mutant: the selection is not pulled back into a shorter list.
SelIn_Kept(n) == sel

SelIn(n) == IF sel >= n THEN clampIndex(n - 1, n) ELSE sel

\* refreshDisks.
GetDisks ==
  /\ pc = "disks"
  /\ \/ Works /\ disks' = DiskList /\ sel' = SelIn(Len(DiskList)) /\ Refreshed(Says(""))
     \/ Fails /\ Refreshed(Says("note")) /\ UNCHANGED diskVars
  /\ UNCHANGED <<deviceVars, others, mode, pickVars, itemVars, view, confirmVars>>

\* The end of openLibrary, with cache in m.library.
OpenPicker(cache) ==
  IF filterDsk(cache) = <<>>
    THEN status' = Says("note") /\ UNCHANGED <<mode, view>>
    ELSE /\ view' = [ViewOf(Len(filterDsk(cache))) EXCEPT !.for = Selected.id]
         /\ mode' = "library" /\ status' = Says("")

Refused(d) == IsHardDisk(d) \/ d.image # NoFile

openLibrary(k) ==
  /\ Key(k) /\ k \in {"enter", "m"} /\ mode = "disks"
  /\ \/ disks = <<>> /\ pc' = "key" /\ UNCHANGED <<mode, view, status>>
     \/ /\ disks # <<>> /\ Refused(Selected)
        /\ status' = Says("note") /\ pc' = "key" /\ UNCHANGED <<mode, view>>
     \/ /\ disks # <<>> /\ ~Refused(Selected) /\ libLoaded
        /\ OpenPicker(libCache) /\ pc' = "key"
     \/ /\ disks # <<>> /\ ~Refused(Selected) /\ ~libLoaded
        /\ pc' = "library" /\ UNCHANGED <<mode, view, status>>
  /\ NoRequest
  /\ UNCHANGED <<diskVars, libLoaded, libCache, itemVars, confirmVars>>

GetLibrary ==
  /\ pc = "library"
  /\ \/ Works /\ libLoaded' = TRUE /\ libCache' = library /\ OpenPicker(library)
     \/ Fails /\ status' = Says("note") /\ UNCHANGED <<mode, view, pickVars>>
  /\ pc' = "key"
  /\ UNCHANGED <<deviceVars, others, after, diskVars, itemVars, confirmVars>>

doEject ==
  /\ Key("e") /\ mode = "disks"
  /\ \/ disks = <<>> /\ pc' = "key" /\ UNCHANGED status
     \/ /\ disks # <<>> /\ (IsHardDisk(Selected) \/ Selected.image = NoFile)
        /\ status' = Says("note") /\ pc' = "key"
     \/ disks # <<>> /\ ~IsHardDisk(Selected) /\ Selected.image # NoFile /\ pc' = "eject" /\ UNCHANGED status
  /\ NoRequest
  /\ UNCHANGED <<mode, diskVars, pickVars, itemVars, view, confirmVars>>

\* Mutant: the success message is set, the list is not read again.
AfterDiskChange_NoRefresh(st) == pc' = "key" /\ status' = st /\ UNCHANGED after

\* s.refreshDisks(); m.status = st.
AfterDiskChange(st) == pc' = "disks" /\ after' = st /\ UNCHANGED status

\* The handler gives up with message st.
GivesUp(st) == pc' = "key" /\ status' = st /\ UNCHANGED after

\* Mutant: the answer of the device is not looked at.
EjectAnswer_Unchecked(ok, st) == AfterDiskChange(st)

\* ejectDisk returns an error unless the device answered 200.
EjectAnswer(ok, st) == IF ok THEN AfterDiskChange(st) ELSE GivesUp(Says("note"))

\* ejectDisk: DELETE /disks.  The device has nothing to eject from an empty
\* drive; a request that fails may have taken effect.
Eject ==
  /\ pc = "eject"
  /\ LET d       == Selected.id
         emptied == [drive EXCEPT ![d] = NoFile]
     IN \/ d \in slots /\ drive[d] # NoFile /\ Works /\ drive' = emptied /\ EjectAnswer(TRUE, Ejected(d))
        \/ ~(d \in slots /\ drive[d] # NoFile) /\ Works /\ EjectAnswer(FALSE, Ejected(d)) /\ UNCHANGED drive
        \/ /\ Fails /\ EjectAnswer(FALSE, Ejected(d))
           /\ drive' \in {drive, IF d \in slots THEN emptied ELSE drive}
  /\ UNCHANGED <<slots, library, others, mode, diskVars, pickVars, itemVars, view, confirmVars>>

InOtherDrive(f) == \E i \in 1..Len(disks) : disks[i].id # view.for /\ disks[i].image = f

\* doMount, up to the request.
doMount ==
  /\ Key("enter") /\ mode = "library"
  /\ LET file == LibView[view.at + 1]
     IN IF InOtherDrive(file)
          THEN status' = Says("note") /\ pc' = "key" /\ UNCHANGED target
          ELSE pc' = "mount" /\ target' = [drive |-> view.for, file |-> file] /\ UNCHANGED status
  /\ mode' = "disks" /\ view' = NoView
  /\ NoRequest
  /\ UNCHANGED <<diskVars, pickVars, itemVars, confirm>>

\* mountDisk: PUT /disks.  A file that is missing or in another drive is
\* answered with 404, an occupied or absent drive with another error.
Mount ==
  /\ pc = "mount"
  /\ LET d        == target.drive
         f        == target.file
         inserted == [drive EXCEPT ![d] = f]
     IN \/ Mountable(d, f) /\ Works /\ drive' = inserted /\ AfterDiskChange(Mounted(d, f))
        \/ /\ ~Mountable(d, f) /\ Works /\ UNCHANGED drive
           /\ GivesUp(IF f \notin library \/ Inserted(f) \ {d} # {} THEN NotFound(f) ELSE Says("note"))
        \/ Fails /\ GivesUp(Says("note")) /\ drive' \in {drive, IF Mountable(d, f) THEN inserted ELSE drive}
  /\ target' = NoTarget
  /\ UNCHANGED <<slots, library, others, mode, diskVars, pickVars, itemVars, view, confirm>>

--------------------------------------------------------------------------------
(* LIB: the device's library.                                              *)

\* refreshLib.  The bound of the selection is the length of the unfiltered list.
GetItems ==
  /\ pc = "items"
  /\ \/ /\ Works /\ libItems' = filterDiskImages(library)
        /\ LET n == Cardinality(library)
           IN libItemSel' = IF libItemSel >= n THEN clampIndex(n - 1, n) ELSE libItemSel
        /\ Refreshed(Says(""))
     \/ Fails /\ Refreshed(Says("note")) /\ UNCHANGED <<libItems, libItemSel>>
  /\ UNCHANGED <<deviceVars, others, mode, diskVars, pickVars, machine, view, confirmVars>>

doPreview(k) ==
  /\ Key(k) /\ k \in {"enter", "v"} /\ mode = "lib"
  /\ IF SelectedItem
       THEN status' = Says("note") /\ pc' = IF machine THEN "download" ELSE "machine"
       ELSE pc' = "key" /\ UNCHANGED status
  /\ NoRequest
  /\ UNCHANGED <<mode, diskVars, pickVars, itemVars, view, confirmVars>>

GetMachine ==
  /\ pc = "machine"
  /\ \/ Works /\ machine' = TRUE /\ pc' = "download" /\ UNCHANGED status
     \/ Fails /\ status' = Says("note") /\ pc' = "key" /\ UNCHANGED machine
  /\ UNCHANGED <<deviceVars, others, after, mode, diskVars, pickVars, libItems, libItemSel, view,
                 confirmVars>>

\* downloadImage and listCPMByUser.  User 0 is always listed; the preview opens
\* on the first user that has files.
Download ==
  /\ pc = "download"
  /\ \/ /\ ItemName \in library /\ Works
        /\ \E n \in 1..MaxUsers, start \in {0, 1}, length \in Lines :
             /\ start < n
             /\ view' = [ViewOf(length) EXCEPT !.users = n, !.user = start]
        /\ mode' = "preview" /\ status' = Says("")
     \/ (Works \/ Fails) /\ status' = Says("note") /\ UNCHANGED <<mode, view>>
  /\ pc' = "key"
  /\ UNCHANGED <<deviceVars, others, after, diskVars, pickVars, itemVars, confirmVars>>

\* Mutant: the overlay names the first image.
Named_First == libItems[1]

Named == ItemName

askDeleteLib ==
  /\ Key("d") /\ mode = "lib"
  /\ IF SelectedItem THEN confirm' = TRUE /\ target' = [NoTarget EXCEPT !.file = Named] ELSE UNCHANGED confirmVars
  /\ pc' = "key"
  /\ NoRequest
  /\ UNCHANGED <<mode, diskVars, pickVars, itemVars, view, status>>

SaysNo(k) == k \in {"n", "esc"}

\* The overlay captures every key until it is answered.
Confirm(k) ==
  /\ pc = "key" /\ confirm
  /\ \/ k = "y" /\ confirm' = FALSE /\ pc' = "delete" /\ UNCHANGED <<target, status>>
     \/ SaysNo(k) /\ confirm' = FALSE /\ target' = NoTarget /\ status' = Says("note") /\ pc' = "key"
     \/ k # "y" /\ ~SaysNo(k) /\ pc' = "key" /\ UNCHANGED <<confirmVars, status>>
  /\ NoRequest
  /\ UNCHANGED <<mode, diskVars, pickVars, itemVars, view>>

\* deleteLibraryImage: DELETE /library, then refreshLib.
DeleteImage ==
  /\ pc = "delete"
  /\ LET f == target.file
     IN \/ f \in library /\ Works /\ library' = library \ {f} /\ pc' = "items" /\ after' = Deleted(f) /\ UNCHANGED status
        \/ f \notin library /\ Works /\ GivesUp(Says("note")) /\ UNCHANGED library
        \/ Fails /\ GivesUp(Says("note")) /\ library' \in {library, library \ {f}}
  /\ target' = NoTarget
  /\ UNCHANGED <<slots, drive, others, mode, diskVars, pickVars, itemVars, view, confirm>>

Keys == NavigationKeys \cup {"enter", "esc", "q", "tab", "r", "e", "m", "u", "d", "v", "y", "n", "other"}

\* The keys handled the same way in several panes, or by one that has two of them.
Pressed(k) ==
  \/ Leave(k) \/ Back(k) \/ Move(k) \/ SelectSwitch(k) \/ SelectUser(k) \/ Ignored(k)
  \/ Actuate(k) \/ openLibrary(k) \/ doPreview(k) \/ Confirm(k)

tuiKey ==
  \/ \E k \in Keys : Pressed(k)
  \/ TabKey \/ RefreshKey \/ RefreshPanel \/ doEject \/ doMount \/ askDeleteLib

Request == GetSystem \/ GetDisks \/ GetLibrary \/ Eject \/ Mount \/ GetItems \/ GetMachine \/ Download \/ DeleteImage

Next == EnterTUI \/ Draw \/ tuiKey \/ Request \/ OthersChange

Spec == Init /\ [][Next]_vars

--------------------------------------------------------------------------------
(* Properties.                                                             *)

Entries == [id : Drives, image : Files \cup {NoFile}]

Kinds == {"", "note", "mounted", "ejected", "not found", "deleted"}
Messages == [kind : Kinds, drive : Drives \cup {0}, file : Files \cup {NoFile}]

Requests == {"disks", "system", "items", "library", "eject", "mount", "machine", "download", "delete"}

TypeOK ==
  /\ slots \subseteq Drives /\ drive \in DriveStates /\ library \subseteq Files
  /\ others \in 0..MaxOthers /\ failures \in 0..MaxFailures
  /\ pc \in {"closed", "key"} \cup Requests
  /\ mode \in {"disks", "library", "panel", "system", "lib", "preview"}
  /\ disks \in Seq(Entries) /\ sel \in Nat
  /\ libLoaded \in BOOLEAN /\ libCache \subseteq Files 
  /\ libItems \in Seq(Dsk \cup Hdd) /\ libItemSel \in Nat /\ machine \in BOOLEAN
  /\ view \in [at : Nat, n : Nat, for : Drives \cup {0}, users : 0..MaxUsers, user : Nat]
  /\ confirm \in BOOLEAN /\ target \in [drive : Drives \cup {0}, file : Files \cup {NoFile}]
  /\ status \in Messages /\ after \in Messages

\* Whatever the device reported in the meantime, the selections that openLibrary,
\* doEject, doActuate and doMount index their lists with are in those lists.
SelectionsValid ==
  /\ pc = "key" /\ disks # <<>> => sel < Len(disks)
  /\ mode \in {"panel", "library"} => view.at < view.n
  /\ mode = "library" => view.n = Len(LibView)

\* The overlay that asks to delete an image is on the LIB pane, and the image it
\* names, which is the one that will be deleted, is the one highlighted there.
ConfirmNamesSelection ==
  confirm \/ pc = "delete" => mode = "lib" /\ SelectedItem /\ target.file = ItemName

\* How many Escapes, and how many requests at most, are left until the TUI is
\* closed, until a key is awaited.
EscapesLeft  == IF pc = "closed" THEN 0 ELSE IF confirm \/ mode \notin TopLevel THEN 2 ELSE 1
RequestsLeft == IF pc \in {"closed", "key"} THEN 0 ELSE IF pc \in {"eject", "mount", "machine", "delete"} THEN 2 ELSE 1

\* There always is a way out (tuiKey has six panes and an overlay): every key
\* awaited may be Escape, which no pane or overlay lets fall through; each Escape
\* brings the end closer, two close the TUI; it starts no request, and every
\* request in progress, whatever it answers, is at most one away from the next key.
TwoEscapesLeave ==
  /\ [](pc = "key" => IF confirm THEN SaysNo("esc") ELSE "esc" \in Cases[mode])
  /\ [][/\ Pressed("esc") => EscapesLeft' < EscapesLeft /\ RequestsLeft' = 0
        /\ Request => RequestsLeft' < RequestsLeft]_vars

\* If nobody else uses the device, a success message is true as long as it stands,
\* lost answers included.
StatusTruthful ==
  others = 0 /\ pc = "key" =>
    /\ status.kind = "mounted" => drive[status.drive] = status.file
    /\ status.kind = "ejected" => drive[status.drive] = NoFile
    /\ status.kind = "deleted" => status.file \notin library

\* If nobody else uses the device and no request has failed, the drive list is
\* the device's whenever a key is awaited.
DisksCurrent == others = 0 /\ failures = 0 /\ pc = "key" => disks = DiskList

================================================================================
