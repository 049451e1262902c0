---------------------------- MODULE ControlTUIProofs ----------------------------
(***************************************************************************)
(* The control TUI, proved for every device: its lists are indexed inside  *)
(* their bounds, what it asks about is what it does, what it says is true, *)
(* and Escape leads out.                                                   *)
(***************************************************************************)
EXTENDS ControlTUI, LibraryProofs

(* The pane a request belongs to, and the messages that wait for it.       *)
Placed ==
  /\ pc \in {"closed", "disks", "library", "eject", "mount"} => mode = "disks"
  /\ pc = "system" => mode = "system"
  /\ pc \in {"items", "machine", "download", "delete"} => mode = "lib"
  /\ pc \notin {"disks", "items"} => after = Says("")
  /\ confirm => pc = "key" /\ mode = "lib"

(* The selections, and that what was selected is what a handler was called *)
(* for: an empty or a full removable drive, an image of a kind it takes.   *)
Chosen ==
  /\ disks # <<>> => sel < Len(disks)
  /\ pc = "eject" => disks # <<>> /\ ~IsHardDisk(Selected)
  /\ pc = "library" => disks # <<>> /\ ~Refused(Selected)
  /\ mode \in {"panel", "library"} => view.at < view.n
  /\ mode = "library" => view.n = Len(LibView) /\ view.for \in Drives \ HardDrives
  /\ pc = "mount" => target.drive \in Drives \ HardDrives /\ target.file \in Dsk
  /\ confirm \/ pc = "delete" => SelectedItem /\ target.file = ItemName

Inv == TypeOK /\ Placed /\ Chosen

--------------------------------------------------------------------------------
(* Lists and indices.                                                      *)

LEMMA DiskListIs ==
  ASSUME TypeOK
  PROVE  DiskList \in Seq(Entries) /\ Len(DiskList) \in Nat
<1>1. slots \subseteq Drives /\ IsFiniteSet(slots) /\ slots \subseteq Nat
  BY TUIAssumption, FS_Subset DEF TUIAssumption, TypeOK
<1>2. Sorted(slots) \in Seq(slots) /\ Len(Sorted(slots)) \in Nat
  BY <1>1, SortedIs
<1>3. \A x \in slots : drive[x] \in Files \cup {NoFile}
  BY <1>1 DEF TypeOK, DriveStates, Files
<1>4. \A i \in 1..Len(Sorted(slots)) : Sorted(slots)[i] \in slots
  BY <1>2
<1>5. \A i \in 1..Len(Sorted(slots)) :
        [id |-> Sorted(slots)[i], image |-> drive[Sorted(slots)[i]]] \in Entries
  BY <1>1, <1>3, <1>4 DEF Entries
<1>6. DiskList = [i \in 1..Len(Sorted(slots)) |->
                    [id |-> Sorted(slots)[i], image |-> drive[Sorted(slots)[i]]]]
  BY DEF DiskList
<1>7. DiskList \in [1..Len(Sorted(slots)) -> Entries]
  BY <1>5, <1>6
<1> QED
  BY <1>2, <1>7

LEMMA FilteredIs ==
  ASSUME NEW S \in SUBSET Files
  PROVE  /\ filterDsk(S) \in Seq(Dsk) /\ Len(filterDsk(S)) \in Nat
         /\ filterDiskImages(S) \in Seq(Dsk \cup Hdd) /\ Cardinality(S) \in Nat
<1>1. IsFiniteSet(S) /\ S \subseteq Nat
  BY TUIAssumption, FS_Subset DEF TUIAssumption
<1>2. /\ IsFiniteSet(S \cap Dsk) /\ S \cap Dsk \subseteq Nat
      /\ IsFiniteSet(S \cap (Dsk \cup Hdd)) /\ S \cap (Dsk \cup Hdd) \subseteq Nat
  BY <1>1, FS_Subset
<1>3. /\ Sorted(S \cap Dsk) \in Seq(S \cap Dsk) /\ Len(Sorted(S \cap Dsk)) \in Nat
      /\ Sorted(S \cap (Dsk \cup Hdd)) \in Seq(S \cap (Dsk \cup Hdd))
  BY <1>2, SortedIs
<1>4. \A A, B : A \subseteq B => Seq(A) \subseteq Seq(B)
  OBVIOUS
<1> QED
  BY <1>1, <1>3, <1>4, FS_CardinalityType DEF filterDsk, filterDiskImages

\* A list that has an element has a first one.
LEMMA NotEmpty ==
  ASSUME NEW S, NEW q \in Seq(S), q # <<>>
  PROVE  Len(q) > 0
BY EmptySeq

LEMMA ClampIs ==
  ASSUME NEW i \in Int, NEW n \in Int
  PROVE  clampIndex(i, n) \in Nat /\ (n > 0 => clampIndex(i, n) < n)
BY DEF clampIndex

LEMMA MovedIs ==
  ASSUME NEW k \in {"up", "down", "pgup", "pgdn"}, NEW i \in Nat, NEW n \in Nat, NEW x \in Moved(k, i, n)
  PROVE  x \in Nat /\ (i < n => x < n)
<1>1. PageSteps \subseteq Nat
  BY TUIAssumption DEF TUIAssumption
<1>2. CASE k = "up"
  BY <1>2 DEF Moved
<1>3. CASE k = "down"
  BY <1>3 DEF Moved
<1>4. CASE k = "pgup"
  <2>1. PICK s \in PageSteps : x = clampIndex(i - s, n)
    BY <1>4 DEF Moved
  <2> QED
    BY <1>1, <2>1, ClampIs
<1>5. CASE k = "pgdn"
  <2>1. PICK s \in PageSteps : x = clampIndex(i + s, n)
    BY <1>5 DEF Moved
  <2> QED
    BY <1>1, <2>1, ClampIs
<1> QED
  BY <1>2, <1>3, <1>4, <1>5

LEMMA SelInIs ==
  ASSUME TypeOK, NEW n \in Nat
  PROVE  SelIn(n) \in Nat /\ (n > 0 => SelIn(n) < n)
<1>1. sel \in Nat
  BY DEF TypeOK
<1> QED
  BY <1>1, ClampIs DEF SelIn

--------------------------------------------------------------------------------
(* Steps that keep most of the state.                                      *)

Views == [at : Nat, n : Nat, for : Drives \cup {0}, users : 0..MaxUsers, user : Nat]

LEMMA MessagesAre ==
  /\ Says("") \in Messages /\ Says("note") \in Messages
  /\ \A d \in Drives : Ejected(d) \in Messages
  /\ \A d \in Drives, f \in Files : Mounted(d, f) \in Messages
  /\ \A f \in Files : NotFound(f) \in Messages /\ Deleted(f) \in Messages
BY DEF Messages, Kinds, Says, Ejected, Mounted, NotFound, Deleted

LEMMA ViewsAre ==
  /\ NoView \in Views
  /\ \A n \in Nat : ViewOf(n) \in Views /\ ViewOf(n).at = 0 /\ ViewOf(n).n = n
BY TUIAssumption DEF TUIAssumption, Views, NoView, ViewOf

\* What is selected in a list depends on the list and the selection only.
LEMMA SelectionSame ==
  /\ UNCHANGED <<disks, sel>> => UNCHANGED Selected
  /\ UNCHANGED libCache => UNCHANGED LibView
  /\ UNCHANGED <<libItems, libItemSel>> => UNCHANGED ItemName /\ (SelectedItem' <=> SelectedItem)
BY DEF Selected, LibView, ItemName, SelectedItem

\* A step that changes the message at most, and goes on to the next key or to a request.
LEMMA OnlyMessage ==
  ASSUME Inv, UNCHANGED <<deviceVars, auxVars, mode, diskVars, pickVars, itemVars, view, confirmVars, after>>,
         status' \in Messages, after = Says(""),
         pc' \in {"key"} \cup Requests, confirm => pc' = "key",
         pc' \in {"disks", "library", "eject"} => mode = "disks", pc' = "system" => mode = "system",
         pc' \in {"items", "machine", "download"} => mode = "lib", pc' \notin {"mount", "delete"},
         pc' = "eject" => disks # <<>> /\ ~IsHardDisk(Selected),
         pc' = "library" => disks # <<>> /\ ~Refused(Selected)
  PROVE  Inv'
<1> USE DEF deviceVars, auxVars, diskVars, pickVars, itemVars, confirmVars
<1>1. TypeOK'
  BY DEF Inv, TypeOK
<1>2. Placed'
  BY DEF Inv, Placed, Requests
<1>3. Chosen'
  <2>1. (IsHardDisk(Selected)' <=> IsHardDisk(Selected)) /\ (Refused(Selected)' <=> Refused(Selected))
    BY SelectionSame DEF IsHardDisk, Refused
  <2> QED
    BY <2>1, SelectionSame DEF Inv, Chosen
<1> QED
  BY <1>1, <1>2, <1>3 DEF Inv

\* A step that does not touch the model, but what others may change, and the failures.
LEMMA OnlyDevice ==
  ASSUME Inv, UNCHANGED <<pc, after, mode, diskVars, pickVars, itemVars, view, confirmVars, status>>,
         slots' \subseteq Drives, drive' \in DriveStates, library' \subseteq Files,
         others' \in 0..MaxOthers, failures' \in 0..MaxFailures
  PROVE  Inv'
<1> USE DEF diskVars, pickVars, itemVars, confirmVars
<1>1. TypeOK'
  BY DEF Inv, TypeOK
<1>2. Placed'
  BY DEF Inv, Placed
<1>3. Chosen'
  <2>1. (IsHardDisk(Selected)' <=> IsHardDisk(Selected)) /\ (Refused(Selected)' <=> Refused(Selected))
    BY SelectionSame DEF IsHardDisk, Refused
  <2> QED
    BY <2>1, SelectionSame DEF Inv, Chosen
<1> QED
  BY <1>1, <1>2, <1>3 DEF Inv

\* An image goes into an empty removable drive, or out of a drive.
LEMMA DrivesChange ==
  ASSUME drive \in DriveStates, NEW d \in Drives
  PROVE  /\ [drive EXCEPT ![d] = NoFile] \in DriveStates
         /\ \A f \in Dsk : d \notin HardDrives /\ Inserted(f) = {} =>
              [drive EXCEPT ![d] = f] \in DriveStates
<1>1. Dsk \cap Hdd = {} /\ NoFile \notin Dsk
  BY TUIAssumption DEF TUIAssumption, Files
<1>2. drive \in [Drives -> {NoFile} \cup Dsk \cup Hdd]
  BY DEF DriveStates
<1>3. /\ \A e \in Drives : drive[e] # NoFile => (drive[e] \in Hdd <=> e \in HardDrives)
      /\ \A e, g \in Drives : drive[e] = drive[g] /\ e # g => drive[e] = NoFile
  BY DEF DriveStates
<1>4. [drive EXCEPT ![d] = NoFile] \in DriveStates
  BY <1>2, <1>3 DEF DriveStates
<1>5. ASSUME NEW f \in Dsk, d \notin HardDrives, Inserted(f) = {}
      PROVE  [drive EXCEPT ![d] = f] \in DriveStates
  <2>1. \A e \in Drives : drive[e] # f
    BY <1>5 DEF Inserted
  <2> QED
    BY <1>1, <1>2, <1>3, <1>5, <2>1 DEF DriveStates
<1> QED
  BY <1>4, <1>5

--------------------------------------------------------------------------------
(* The invariant.                                                          *)

LEMMA InvInit == Init => Inv
<1> SUFFICES ASSUME Init PROVE Inv
  OBVIOUS
<1>1. view \in [at : Nat, n : Nat, for : Drives \cup {0}, users : 0..MaxUsers, user : Nat]
  BY ViewsAre DEF Init, Views
<1>2. target \in [drive : Drives \cup {0}, file : Files \cup {NoFile}] /\ NoFile \notin Files
  BY TUIAssumption DEF TUIAssumption, Init, NoTarget
<1>3. status \in Messages /\ after \in Messages
  BY MessagesAre DEF Init
<1>4. disks \in Seq(Entries) /\ libItems \in Seq(Dsk \cup Hdd)
  <2>1. \A S : <<>> \in Seq(S)
    OBVIOUS
  <2>2. disks = <<>> /\ libItems = <<>>
    BY DEF Init
  <2> QED
    BY <2>1, <2>2
<1>5. slots \subseteq Drives /\ drive \in DriveStates /\ library \subseteq Files
      /\ others \in 0..MaxOthers /\ failures \in 0..MaxFailures
  <2>1. MaxOthers \in Nat /\ MaxFailures \in Nat
    BY TUIAssumption DEF TUIAssumption
  <2>2. others = 0 /\ failures = 0 /\ slots = Drives /\ library = Files /\ drive \in DriveStates
    BY DEF Init
  <2>3. 0 \in 0..MaxOthers /\ 0 \in 0..MaxFailures
    BY <2>1
  <2> QED
    BY <2>2, <2>3
<1>6. TypeOK
  BY <1>1, <1>2, <1>3, <1>4, <1>5 DEF Init, TypeOK
<1>7. Placed /\ Chosen
  BY DEF Init, Placed, Chosen
<1> QED
  BY <1>6, <1>7 DEF Inv

LEMMA InvOthers == Inv /\ OthersChange => Inv'
<1> SUFFICES ASSUME Inv, OthersChange PROVE Inv'
  OBVIOUS
<1>1. TypeOK /\ others' \in 0..MaxOthers /\ failures' \in 0..MaxFailures
  BY TUIAssumption DEF TUIAssumption, Inv, TypeOK, OthersChange
<1>2. slots' \subseteq Drives /\ library' \subseteq Files
  BY <1>1 DEF TypeOK, OthersChange, Files
<1>3. drive' \in DriveStates
  <2>1. CASE UNCHANGED drive
    BY <1>1, <2>1 DEF TypeOK
  <2>2. CASE \E d \in slots \ HardDrives, f \in library \cap Dsk :
               Mountable(d, f) /\ drive' = [drive EXCEPT ![d] = f]
    <3>1. PICK d \in slots \ HardDrives, f \in library \cap Dsk :
                 Mountable(d, f) /\ drive' = [drive EXCEPT ![d] = f]
      BY <2>2
    <3>2. d \in Drives \ HardDrives /\ f \in Dsk /\ Inserted(f) = {} /\ drive \in DriveStates
      BY <1>1, <3>1 DEF TypeOK, Mountable
    <3> QED
      BY <3>1, <3>2, DrivesChange
  <2>3. CASE \E d \in slots \ HardDrives : drive' = [drive EXCEPT ![d] = NoFile]
    <3>1. PICK d \in slots \ HardDrives : drive' = [drive EXCEPT ![d] = NoFile]
      BY <2>3
    <3>2. d \in Drives /\ drive \in DriveStates
      BY <1>1, <3>1 DEF TypeOK
    <3> QED
      BY <3>1, <3>2, DrivesChange
  <2>4. UNCHANGED drive \/ (\E d \in slots \ HardDrives, f \in library \cap Dsk :
                              Mountable(d, f) /\ drive' = [drive EXCEPT ![d] = f])
        \/ (\E d \in slots \ HardDrives : drive' = [drive EXCEPT ![d] = NoFile])
    BY DEF OthersChange
  <2> QED
    BY <2>1, <2>2, <2>3, <2>4
<1> QED
  BY <1>1, <1>2, <1>3, OnlyDevice DEF OthersChange

LEMMA InvTurns == Inv /\ (EnterTUI \/ Draw) => Inv'
<1> SUFFICES ASSUME Inv PROVE EnterTUI \/ Draw => Inv'
  OBVIOUS
<1>1. CASE EnterTUI
  <2>1. after = Says("") /\ mode = "disks" /\ ~confirm
    BY <1>1 DEF EnterTUI, Inv, Placed
  <2>2. status' \in Messages /\ pc' = "disks" /\ UNCHANGED <<deviceVars, auxVars, mode, diskVars, pickVars,
                                     itemVars, view, confirmVars, after>>
    BY <1>1, <2>1 DEF EnterTUI, Inv, TypeOK
  <2> QED
    BY <2>1, <2>2, OnlyMessage DEF Requests
<1>2. CASE Draw
  <2>1. view' \in Views /\ mode \in {"system", "preview"}
    <3>1. view \in Views /\ view.n \in Int /\ view.n - 1 \in Int
      BY DEF Inv, TypeOK, Views
    <3>2. clampIndex(view.n - 1, view.n) \in Nat
      BY <3>1, ClampIs
    <3> QED
      BY <1>2, <3>1, <3>2 DEF Draw, Views
  <2>2. UNCHANGED <<deviceVars, auxVars, pc, after, mode, diskVars, pickVars, itemVars, confirmVars, status>>
    BY <1>2 DEF Draw, NoRequest
  <2> USE DEF deviceVars, auxVars, diskVars, pickVars, itemVars, confirmVars
  <2>3. TypeOK'
    BY <2>1, <2>2 DEF Inv, TypeOK, Views
  <2>4. Placed'
    BY <2>2 DEF Inv, Placed
  <2>5. Chosen'
    <3>1. UNCHANGED <<IsHardDisk(Selected), Refused(Selected)>>
      BY <2>2, SelectionSame DEF IsHardDisk, Refused
    <3> QED
      BY <2>1, <2>2, <3>1, SelectionSame DEF Inv, Chosen
  <2> QED
    BY <2>3, <2>4, <2>5 DEF Inv
<1> QED
  BY <1>1, <1>2

\* What holds when tuiKey dispatches on the pane.
LEMMA KeyState ==
  ASSUME Inv, NEW k, Key(k) \/ Ignored(k)
  PROVE  pc = "key" /\ ~confirm /\ after = Says("") /\ status \in Messages /\ Cleared(k) \in Messages
BY MessagesAre DEF Key, Ignored, Inv, Placed, TypeOK, Cleared

\* Keys that change a selection at most.
LEMMA InvMoves ==
  ASSUME Inv, NEW k, Move(k) \/ SelectSwitch(k) \/ SelectUser(k)
  PROVE  Inv'
<1> USE DEF deviceVars, auxVars, diskVars, pickVars, itemVars, confirmVars
<1>k. pc = "key" /\ ~confirm /\ after = Says("")
  BY KeyState DEF Move, SelectSwitch, SelectUser
<1>t. /\ sel \in Nat /\ libItemSel \in Nat /\ view \in Views /\ Len(disks) \in Nat /\ Len(libItems) \in Nat
      /\ view.at \in Nat /\ view.n \in Nat
  BY DEF Inv, TypeOK, Views
<1>c. UNCHANGED <<deviceVars, auxVars, after, mode, disks, pickVars, libItems, machine, confirmVars>>
      /\ pc' = "key" /\ status' = Says("")
  BY DEF Move, SelectSwitch, SelectUser, NoRequest
<1>1. /\ sel' \in Nat /\ libItemSel' \in Nat /\ view' \in Views
      /\ disks # <<>> => sel' < Len(disks)
      /\ mode \in {"panel", "library"} => view'.at < view'.n
      /\ view'.for = view.for /\ (mode # "preview" => view'.n = view.n)
  <2>0. /\ disks # <<>> => sel < Len(disks)
        /\ mode \in {"panel", "library"} => view.at < view.n
    BY DEF Inv, Chosen
  <2>1. CASE Move(k)
    <3>k. k \in {"up", "down", "pgup", "pgdn"}
      BY <2>1 DEF Move
    <3>1. CASE mode = "disks" /\ sel' \in Moved(k, sel, Len(disks)) /\ UNCHANGED <<libItemSel, view>>
      BY <1>t, <2>0, <3>k, <3>1, MovedIs
    <3>2. CASE mode = "lib" /\ libItemSel' \in Moved(k, libItemSel, Len(libItems)) /\ UNCHANGED <<sel, view>>
      BY <1>t, <2>0, <3>k, <3>2, MovedIs
    <3>3. CASE /\ mode \in {"library", "system", "preview"} /\ UNCHANGED <<sel, libItemSel>>
               /\ \E i \in Moved(k, view.at, view.n) : view' = [view EXCEPT !.at = i]
      <4>1. PICK i \in Moved(k, view.at, view.n) : view' = [view EXCEPT !.at = i]
        BY <3>3
      <4>2. i \in Nat /\ (view.at < view.n => i < view.n)
        BY <1>t, <3>k, MovedIs
      <4> QED
        BY <1>t, <2>0, <3>3, <4>1, <4>2 DEF Views
    <3> QED
      BY <2>1, <3>1, <3>2, <3>3 DEF Move
  <2>2. CASE SelectSwitch(k)
    <3>1. PICK i \in Moved(IF k = "left" THEN "up" ELSE "down", view.at, view.n) : view' = [view EXCEPT !.at = i]
      BY <2>2 DEF SelectSwitch
    <3>2. i \in Nat /\ (view.at < view.n => i < view.n)
      BY <1>t, MovedIs
    <3>3. UNCHANGED <<sel, libItemSel>>
      BY <2>2 DEF SelectSwitch
    <3> QED
      BY <1>t, <2>0, <3>1, <3>2, <3>3 DEF Views
  <2>3. CASE SelectUser(k)
    <3>1. mode = "preview" /\ UNCHANGED <<sel, libItemSel>>
      BY <2>3 DEF SelectUser
    <3>2. \/ UNCHANGED view
          \/ \E u \in 0..(view.users - 1), n \in Lines : view' = [view EXCEPT !.user = u, !.at = 0, !.n = n]
      BY <2>3 DEF SelectUser
    <3>3. Lines \subseteq Nat /\ view.users \in Nat
      BY <1>t, TUIAssumption DEF TUIAssumption, Views
    <3>4. view' \in Views /\ view'.for = view.for
      <4>1. CASE UNCHANGED view
        BY <1>t, <4>1
      <4>2. CASE \E u \in 0..(view.users - 1), n \in Lines : view' = [view EXCEPT !.user = u, !.at = 0, !.n = n]
        <5>1. PICK u \in 0..(view.users - 1), n \in Lines : view' = [view EXCEPT !.user = u, !.at = 0, !.n = n]
          BY <4>2
        <5>2. u \in Nat /\ n \in Nat
          BY <3>3, <5>1
        <5> QED
          BY <1>t, <5>1, <5>2 DEF Views
      <4> QED
        BY <3>2, <4>1, <4>2
    <3> QED
      BY <1>t, <2>0, <3>1, <3>4
  <2> QED
    BY <2>1, <2>2, <2>3
<1>2. TypeOK'
  BY <1>c, <1>1, MessagesAre DEF Inv, TypeOK, Views
<1>3. Placed'
  BY <1>k, <1>c DEF Inv, Placed
<1>4. Chosen'
  BY <1>k, <1>c, <1>1, SelectionSame DEF Inv, Chosen
<1> QED
  BY <1>2, <1>3, <1>4 DEF Inv

\* Keys that change the message at most, or ask for something.
LEMMA InvQuietKeys ==
  ASSUME Inv,
         (\E k \in Keys : Ignored(k) \/ Actuate(k) \/ doPreview(k)) \/ RefreshKey \/ RefreshPanel \/ doEject
  PROVE  Inv'
<1>m. Says("note") \in Messages /\ Says("") \in Messages
  BY MessagesAre
<1>1. ASSUME NEW k \in Keys, Ignored(k) \/ Actuate(k) PROVE Inv'
  <2>1. pc = "key" /\ ~confirm /\ after = Says("") /\ Cleared(k) \in Messages
    BY <1>1, KeyState DEF Actuate
  <2>2. /\ UNCHANGED <<deviceVars, auxVars, mode, diskVars, pickVars, itemVars, view, confirmVars, after>>
        /\ status' \in Messages /\ pc' = "key"
    BY <1>1, <1>m, <2>1 DEF Ignored, Actuate, NoRequest
  <2> QED
    BY <2>1, <2>2, OnlyMessage DEF Requests
<1>2. ASSUME NEW k \in Keys, doPreview(k) PROVE Inv'
  <2>1. pc = "key" /\ ~confirm /\ after = Says("") /\ status \in Messages
    BY <1>2, KeyState DEF doPreview
  <2>2. /\ UNCHANGED <<deviceVars, auxVars, mode, diskVars, pickVars, itemVars, view, confirmVars, after>>
        /\ status' \in Messages /\ pc' \in {"key", "download", "machine"} /\ mode = "lib"
    BY <1>2, <1>m, <2>1 DEF doPreview, NoRequest
  <2> QED
    BY <2>1, <2>2, OnlyMessage DEF Requests
<1>3. CASE RefreshKey
  <2>1. pc = "key" /\ ~confirm /\ after = Says("") /\ status \in Messages
    BY <1>3, KeyState DEF RefreshKey
  <2>2. /\ UNCHANGED <<deviceVars, auxVars, mode, diskVars, pickVars, itemVars, view, confirmVars, after>>
        /\ status' \in Messages
        /\ (pc' = "disks" /\ mode = "disks") \/ (pc' = "system" /\ mode = "system")
           \/ (pc' = "items" /\ mode = "lib")
    BY <1>3, <2>1 DEF RefreshKey, NoRequest
  <2> QED
    BY <2>1, <2>2, OnlyMessage DEF Requests
<1>4. CASE RefreshPanel
  <2>1. pc = "key" /\ ~confirm /\ after = Says("") /\ status \in Messages
    BY <1>4, KeyState DEF RefreshPanel
  <2>2. /\ UNCHANGED <<deviceVars, auxVars, mode, diskVars, pickVars, itemVars, view, confirmVars, after>>
        /\ status' \in Messages /\ pc' = "key"
    BY <1>4, <1>m, <2>1 DEF RefreshPanel, NoRequest
  <2> QED
    BY <2>1, <2>2, OnlyMessage DEF Requests
<1>5. CASE doEject
  <2>1. pc = "key" /\ ~confirm /\ after = Says("") /\ status \in Messages
    BY <1>5, KeyState DEF doEject
  <2>2. /\ UNCHANGED <<deviceVars, auxVars, mode, diskVars, pickVars, itemVars, view, confirmVars, after>>
        /\ status' \in Messages /\ mode = "disks"
        /\ pc' = "key" \/ (pc' = "eject" /\ disks # <<>> /\ ~IsHardDisk(Selected))
    BY <1>5, <1>m, <2>1 DEF doEject, NoRequest
  <2> QED
    BY <2>1, <2>2, OnlyMessage DEF Requests
<1> QED
  BY <1>1, <1>2, <1>3, <1>4, <1>5

\* Keys that change the pane or open the overlay.
LEMMA InvLeave ==
  ASSUME Inv, NEW k, Leave(k)
  PROVE  Inv'
<1>1. /\ UNCHANGED <<deviceVars, auxVars, after>> /\ pc' = "closed" /\ NewModel /\ after = Says("")
  BY KeyState DEF Leave, NoRequest
<1>2. TypeOK'
  <2>1. \A S : <<>> \in Seq(S)
    OBVIOUS
  <2>2. disks' \in Seq(Entries) /\ libItems' \in Seq(Dsk \cup Hdd)
    BY <1>1, <2>1 DEF NewModel
  <2>3. view' \in [at : Nat, n : Nat, for : Drives \cup {0}, users : 0..MaxUsers, user : Nat]
    BY <1>1, ViewsAre DEF NewModel, Views
  <2>4. target' \in [drive : Drives \cup {0}, file : Files \cup {NoFile}]
    BY <1>1 DEF NewModel, NoTarget
  <2>5. status' \in Messages /\ after' \in Messages
    BY <1>1, MessagesAre DEF NewModel
  <2> QED
    BY <1>1, <2>2, <2>3, <2>4, <2>5 DEF NewModel, Inv, TypeOK, deviceVars, auxVars
<1>3. Placed' /\ Chosen'
  BY <1>1 DEF NewModel, Placed, Chosen
<1> QED
  BY <1>2, <1>3 DEF Inv

LEMMA InvBack ==
  ASSUME Inv, NEW k, Back(k)
  PROVE  Inv'
<1> USE DEF deviceVars, auxVars, diskVars, pickVars, itemVars, confirmVars
<1>1. /\ UNCHANGED <<deviceVars, auxVars, after, diskVars, pickVars, itemVars, confirmVars>>
      /\ pc' = "key" /\ mode' \in {"disks", "lib"} /\ view' = NoView /\ status' = Says("")
      /\ after = Says("") /\ ~confirm
  BY KeyState DEF Back, BackTo, NoRequest
<1>2. TypeOK'
  BY <1>1, MessagesAre, ViewsAre DEF Inv, TypeOK, Views
<1>3. Placed' /\ Chosen'
  BY <1>1, SelectionSame DEF Inv, Placed, Chosen
<1> QED
  BY <1>2, <1>3 DEF Inv

LEMMA InvTab ==
  ASSUME Inv, TabKey
  PROVE  Inv'
<1> USE DEF deviceVars, auxVars, diskVars, pickVars, itemVars, confirmVars
<1>1. /\ UNCHANGED <<deviceVars, auxVars, after, diskVars, pickVars, itemVars, confirmVars>>
      /\ status' \in {Says(""), Says("note")} /\ after = Says("") /\ ~confirm
      /\ \/ mode' = "panel" /\ view' = ViewOf(6) /\ pc' = "key"
         \/ mode' = "system" /\ view' = NoView /\ pc' = "system"
         \/ mode' = "lib" /\ view' = NoView /\ pc' = "items"
         \/ mode' = "disks" /\ UNCHANGED view /\ pc' = "key"
  BY KeyState DEF TabKey, NoRequest, Switches
<1>2. view' \in Views /\ (mode' = "panel" => view'.at < view'.n)
  <2>1. ViewOf(6) \in Views /\ ViewOf(6).at = 0 /\ ViewOf(6).n = 6 /\ NoView \in Views /\ view \in Views
    BY ViewsAre DEF Inv, TypeOK, Views
  <2>2. CASE mode' = "panel" /\ view' = ViewOf(6)
    BY <2>1, <2>2
  <2>3. CASE mode' # "panel" /\ (view' = NoView \/ view' = view)
    BY <2>1, <2>3
  <2> QED
    BY <1>1, <2>2, <2>3
<1>3. TypeOK'
  BY <1>1, <1>2, MessagesAre DEF Inv, TypeOK, Views, Requests
<1>4. Placed'
  BY <1>1 DEF Placed
<1>5. Chosen'
  BY <1>1, <1>2, SelectionSame DEF Inv, Chosen
<1> QED
  BY <1>3, <1>4, <1>5 DEF Inv

LEMMA InvAskDelete ==
  ASSUME Inv, askDeleteLib
  PROVE  Inv'
<1> USE DEF deviceVars, auxVars, diskVars, pickVars, itemVars, confirmVars
<1>1. /\ UNCHANGED <<deviceVars, auxVars, after, mode, diskVars, pickVars, itemVars, view, status>>
      /\ pc = "key" /\ pc' = "key" /\ mode = "lib" /\ after = Says("") /\ ~confirm
      /\ \/ UNCHANGED confirmVars
         \/ SelectedItem /\ confirm' = TRUE /\ target' = [drive |-> 0, file |-> ItemName]
  BY KeyState DEF askDeleteLib, NoRequest, NoTarget, Named
<1>2. CASE UNCHANGED confirmVars
  <2>1. status' \in Messages
    BY <1>1 DEF Inv, TypeOK
  <2> QED
    BY <1>1, <1>2, <2>1, OnlyMessage DEF Requests
<1>3. CASE SelectedItem /\ confirm' = TRUE /\ target' = [drive |-> 0, file |-> ItemName]
  <2>1. ItemName \in Files
    BY <1>3 DEF Inv, TypeOK, SelectedItem, ItemName, Files
  <2>2. TypeOK'
    BY <1>1, <1>3, <2>1 DEF Inv, TypeOK
  <2>3. Placed'
    BY <1>1 DEF Inv, Placed
  <2>4. Chosen'
    BY <1>1, <1>3, SelectionSame DEF Inv, Chosen
  <2> QED
    BY <2>2, <2>3, <2>4 DEF Inv
<1> QED
  BY <1>1, <1>2, <1>3

LEMMA SelectedIs ==
  ASSUME Inv, disks # <<>>
  PROVE  Selected \in Entries /\ (~IsHardDisk(Selected) => Selected.id \in Drives \ HardDrives)
<1>1. disks \in Seq(Entries) /\ sel \in Nat /\ sel < Len(disks)
  BY DEF Inv, TypeOK, Chosen
<1>2. Selected \in Entries
  BY <1>1 DEF Selected
<1> QED
  BY <1>2 DEF IsHardDisk, Entries

\* The picker opens on a list that is not empty, for a removable drive; or a message says
\* why it does not.
LEMMA PickerOpens ==
  ASSUME Inv, NEW cache \in SUBSET Files, disks # <<>>, ~Refused(Selected), mode = "disks", ~confirm,
         OpenPicker(cache), libCache' = cache, libLoaded' \in BOOLEAN, pc' = "key", after = Says(""),
         UNCHANGED <<deviceVars, others, after, diskVars, itemVars, confirmVars>>,
         failures' \in 0..MaxFailures
  PROVE  Inv'
<1> USE DEF deviceVars, diskVars, itemVars, confirmVars
<1>1. LibView' = filterDsk(cache) /\ Len(filterDsk(cache)) \in Nat /\ filterDsk(cache) \in Seq(Dsk)
  BY FilteredIs DEF LibView
<1>2. Selected.id \in Drives \ HardDrives
  BY SelectedIs DEF Refused
<1>3. CASE filterDsk(cache) = <<>>
  <2>1. status' = Says("note") /\ UNCHANGED <<mode, view>>
    BY <1>3 DEF OpenPicker
  <2>2. TypeOK'
    BY <2>1, MessagesAre DEF Inv, TypeOK
  <2>3. Placed' /\ Chosen'
    BY <2>1, SelectionSame DEF Inv, Placed, Chosen
  <2> QED
    BY <2>2, <2>3 DEF Inv
<1>4. CASE filterDsk(cache) # <<>>
  <2>1. /\ view' = [ViewOf(Len(filterDsk(cache))) EXCEPT !.for = Selected.id]
        /\ mode' = "library" /\ status' = Says("")
    BY <1>4 DEF OpenPicker
  <2>2. Len(filterDsk(cache)) > 0
    BY <1>1, <1>4, NotEmpty
  <2>3. /\ view' \in Views /\ view'.at = 0 /\ view'.n = Len(filterDsk(cache)) /\ view'.for = Selected.id
    BY <1>1, <1>2, <2>1, ViewsAre DEF Views
  <2>4. TypeOK'
    BY <2>1, <2>3, MessagesAre DEF Inv, TypeOK, Views
  <2>5. Placed'
    BY <2>1 DEF Inv, Placed
  <2>6. Chosen'
    BY <1>1, <1>2, <2>1, <2>2, <2>3, SelectionSame DEF Inv, Chosen
  <2> QED
    BY <2>4, <2>5, <2>6 DEF Inv
<1> QED
  BY <1>3, <1>4

LEMMA InvOpenLibrary ==
  ASSUME Inv, NEW k, openLibrary(k)
  PROVE  Inv'
<1>1. /\ UNCHANGED <<deviceVars, auxVars, after, diskVars, pickVars, itemVars, confirmVars>>
      /\ mode = "disks" /\ pc = "key" /\ ~confirm /\ after = Says("") /\ status \in Messages
  BY KeyState DEF openLibrary, NoRequest, pickVars
<1>2. CASE pc' = "key" /\ status' \in {status, Says("note")} /\ UNCHANGED <<mode, view>>
  BY <1>1, <1>2, MessagesAre, OnlyMessage
<1>3. CASE disks # <<>> /\ ~Refused(Selected) /\ OpenPicker(libCache) /\ pc' = "key"
  <2>1. /\ libCache \in SUBSET Files /\ libLoaded \in BOOLEAN /\ failures \in 0..MaxFailures
        /\ libCache' = libCache /\ libLoaded' = libLoaded /\ failures' = failures /\ others' = others
    BY <1>1 DEF Inv, TypeOK, pickVars, auxVars
  <2> QED
    BY <1>1, <1>3, <2>1, PickerOpens
<1>4. CASE disks # <<>> /\ ~Refused(Selected) /\ pc' = "library" /\ UNCHANGED <<mode, view, status>>
  BY <1>1, <1>4, OnlyMessage DEF Requests
<1> QED
  BY <1>2, <1>3, <1>4 DEF openLibrary

LEMMA InvMount ==
  ASSUME Inv, doMount
  PROVE  Inv'
<1> USE DEF deviceVars, auxVars, diskVars, pickVars, itemVars, confirmVars
<1> DEFINE file == LibView[view.at + 1]
<1>1. /\ UNCHANGED <<deviceVars, auxVars, after, diskVars, pickVars, itemVars, confirm>>
      /\ mode' = "disks" /\ view' = NoView /\ mode = "library" /\ after = Says("") /\ ~confirm
      /\ status \in Messages
  BY KeyState DEF doMount, NoRequest
<1>2. \/ status' = Says("note") /\ pc' = "key" /\ UNCHANGED target
      \/ pc' = "mount" /\ target' = [drive |-> view.for, file |-> file] /\ UNCHANGED status
  BY DEF doMount
<1>3. view.for \in Drives \ HardDrives /\ file \in Dsk
  <2>1. view.for \in Drives \ HardDrives /\ view.n = Len(LibView) /\ view.at < view.n /\ view.at \in Nat
    BY <1>1 DEF Inv, TypeOK, Chosen
  <2>2. LibView \in Seq(Dsk)
    BY FilteredIs DEF LibView, Inv, TypeOK
  <2>3. \A S : \A q \in Seq(S), i \in Nat : i < Len(q) => q[i + 1] \in S
    OBVIOUS
  <2> QED
    BY <2>1, <2>2, <2>3
<1> HIDE DEF file
<1>4. TypeOK'
  <2>1. target' \in [drive : Drives \cup {0}, file : Files \cup {NoFile}]
    <3>1. target \in [drive : Drives \cup {0}, file : Files \cup {NoFile}]
      BY DEF Inv, TypeOK
    <3>2. view.for \in Drives /\ file \in Files
      BY <1>3 DEF Files
    <3> QED
      BY <1>2, <3>1, <3>2
  <2>2. view' \in [at : Nat, n : Nat, for : Drives \cup {0}, users : 0..MaxUsers, user : Nat]
    BY <1>1, ViewsAre DEF Views
  <2>3. status' \in Messages /\ pc' \in {"closed", "key"} \cup Requests
    BY <1>1, <1>2, MessagesAre DEF Requests
  <2> QED
    BY <1>1, <2>1, <2>2, <2>3 DEF Inv, TypeOK
<1>5. Placed'
  BY <1>1, <1>2 DEF Placed
<1>6. Chosen'
  <2>1. /\ disks' # <<>> => sel' < Len(disks')
        /\ ~confirm' /\ pc' \in {"key", "mount"} /\ mode' = "disks"
    BY <1>1, <1>2 DEF Inv, Chosen
  <2>2. pc' = "mount" => target'.drive \in Drives \ HardDrives /\ target'.file \in Dsk
    BY <1>2, <1>3
  <2> QED
    BY <2>1, <2>2 DEF Chosen
<1> QED
  BY <1>4, <1>5, <1>6 DEF Inv

LEMMA InvConfirm ==
  ASSUME Inv, NEW k, Confirm(k)
  PROVE  Inv'
<1> USE DEF deviceVars, auxVars, diskVars, pickVars, itemVars, confirmVars
<1>1. /\ UNCHANGED <<deviceVars, auxVars, after, mode, diskVars, pickVars, itemVars, view>>
      /\ mode = "lib" /\ pc = "key" /\ confirm /\ after = Says("")
      /\ \/ confirm' = FALSE /\ pc' = "delete" /\ UNCHANGED <<target, status>>
         \/ confirm' = FALSE /\ target' = NoTarget /\ status' = Says("note") /\ pc' = "key"
         \/ pc' = "key" /\ UNCHANGED <<confirm, target, status>>
  BY DEF Confirm, NoRequest, Inv, Placed
<1>2. NoTarget \in [drive : Drives \cup {0}, file : Files \cup {NoFile}]
  BY DEF NoTarget
<1>3. TypeOK'
  BY <1>1, <1>2, MessagesAre DEF Inv, TypeOK, Requests
<1>4. Placed'
  BY <1>1 DEF Placed
<1>5. Chosen'
  BY <1>1, SelectionSame DEF Inv, Chosen
<1> QED
  BY <1>3, <1>4, <1>5 DEF Inv

LEMMA InvKeys == Inv /\ tuiKey => Inv'
BY InvMoves, InvQuietKeys, InvLeave, InvBack, InvTab, InvAskDelete, InvOpenLibrary, InvMount, InvConfirm
   DEF tuiKey, Pressed

--------------------------------------------------------------------------------
(* The requests.                                                           *)

LEMMA FailuresCounted ==
  ASSUME Inv, Works \/ Fails
  PROVE  failures' \in 0..MaxFailures
BY TUIAssumption DEF TUIAssumption, Inv, TypeOK, Works, Fails

\* The requests that end a handler, with a message at most and without a change of the model.
LEMMA RequestEnds ==
  ASSUME Inv, UNCHANGED <<others, mode, diskVars, pickVars, itemVars, view, confirmVars>>,
         slots' \subseteq Drives, drive' \in DriveStates, library' \subseteq Files,
         failures' \in 0..MaxFailures, status' \in Messages, after' = Says(""),
         pc' = "key", ~confirm
  PROVE  Inv'
<1> USE DEF diskVars, pickVars, itemVars, confirmVars
<1>1. TypeOK'
  BY MessagesAre DEF Inv, TypeOK
<1>2. Placed'
  BY DEF Inv, Placed
<1>3. Chosen'
  BY SelectionSame DEF Inv, Chosen
<1> QED
  BY <1>1, <1>2, <1>3 DEF Inv

LEMMA InvGetSystem ==
  ASSUME Inv, GetSystem
  PROVE  Inv'
<1> USE DEF deviceVars, diskVars, pickVars, itemVars, confirmVars
<1>1. /\ UNCHANGED <<deviceVars, others, after, mode, diskVars, pickVars, itemVars, confirmVars, status>>
      /\ pc' = "key" /\ mode = "system" /\ after = Says("") /\ ~confirm
  BY DEF GetSystem, Inv, Placed
<1>2. failures' \in 0..MaxFailures
  BY FailuresCounted DEF GetSystem
<1>3. view' \in Views
  <2>1. Lines \subseteq Nat /\ view \in Views
    BY TUIAssumption DEF TUIAssumption, Inv, TypeOK, Views
  <2>2. PICK n \in Nat : view' = [view EXCEPT !.n = n]
    BY <2>1 DEF GetSystem
  <2> QED
    BY <2>1, <2>2 DEF Views
<1>4. TypeOK'
  BY <1>1, <1>2, <1>3 DEF Inv, TypeOK, Views
<1>5. Placed'
  BY <1>1 DEF Placed
<1>6. Chosen'
  BY <1>1, SelectionSame DEF Inv, Chosen
<1> QED
  BY <1>4, <1>5, <1>6 DEF Inv

\* The end of a refresh.
LEMMA RefreshEnds ==
  ASSUME Inv, NEW st \in Messages, Refreshed(st)
  PROVE  status' \in Messages /\ after' = Says("") /\ after' \in Messages /\ pc' = "key"
BY MessagesAre DEF Refreshed, Inv, TypeOK

LEMMA InvGetDisks ==
  ASSUME Inv, GetDisks
  PROVE  Inv'
<1> USE DEF deviceVars, diskVars, pickVars, itemVars, confirmVars
<1>1. /\ UNCHANGED <<deviceVars, others, mode, pickVars, itemVars, view, confirmVars>>
      /\ mode = "disks" /\ ~confirm
  BY DEF GetDisks, Inv, Placed
<1>2. failures' \in 0..MaxFailures
  BY FailuresCounted DEF GetDisks
<1>3. status' \in Messages /\ after' = Says("") /\ after' \in Messages /\ pc' = "key"
  BY MessagesAre, RefreshEnds DEF GetDisks
<1>4. disks' \in Seq(Entries) /\ sel' \in Nat /\ (disks' # <<>> => sel' < Len(disks'))
  <2>1. CASE UNCHANGED diskVars
    BY <2>1 DEF Inv, TypeOK, Chosen
  <2>2. CASE disks' = DiskList /\ sel' = SelIn(Len(DiskList))
    <3>1. DiskList \in Seq(Entries) /\ Len(DiskList) \in Nat /\ TypeOK
      BY DiskListIs DEF Inv
    <3>2. SelIn(Len(DiskList)) \in Nat /\ (Len(DiskList) > 0 => SelIn(Len(DiskList)) < Len(DiskList))
      BY <3>1, SelInIs
    <3> QED
      BY <2>2, <3>1, <3>2, NotEmpty
  <2> QED
    BY <2>1, <2>2 DEF GetDisks
<1>5. TypeOK'
  BY <1>1, <1>2, <1>3, <1>4 DEF Inv, TypeOK
<1>6. Placed'
  BY <1>1, <1>3 DEF Placed
<1>7. Chosen'
  BY <1>1, <1>3, <1>4 DEF Chosen
<1> QED
  BY <1>5, <1>6, <1>7 DEF Inv

LEMMA InvGetLibrary ==
  ASSUME Inv, GetLibrary
  PROVE  Inv'
<1> USE DEF deviceVars, diskVars, pickVars, itemVars, confirmVars
<1>1. /\ UNCHANGED <<deviceVars, others, after, diskVars, itemVars, confirmVars>>
      /\ mode = "disks" /\ ~confirm /\ after = Says("") /\ pc' = "key" /\ disks # <<>> /\ ~Refused(Selected)
  BY DEF GetLibrary, Inv, Placed, Chosen
<1>2. failures' \in 0..MaxFailures
  BY FailuresCounted DEF GetLibrary
<1>3. CASE libLoaded' = TRUE /\ libCache' = library /\ OpenPicker(library)
  <2>1. library \in SUBSET Files /\ libLoaded' \in BOOLEAN
    BY <1>3 DEF Inv, TypeOK
  <2> QED
    BY <1>1, <1>2, <1>3, <2>1, PickerOpens
<1>4. CASE status' = Says("note") /\ UNCHANGED <<mode, view, pickVars>>
  <2>1. slots \subseteq Drives /\ drive \in DriveStates /\ library \subseteq Files
    BY DEF Inv, TypeOK
  <2> QED
    BY <1>1, <1>2, <1>4, <2>1, MessagesAre, RequestEnds
<1> QED
  BY <1>3, <1>4 DEF GetLibrary

\* The end of a request that changes the device: the handler gives up with a message, or
\* the list is read again and the message waits for it.
LEMMA ChangeEnds ==
  ASSUME Inv, UNCHANGED <<slots, others, mode, diskVars, pickVars, itemVars, view, confirm>>,
         target' \in [drive : Drives \cup {0}, file : Files \cup {NoFile}],
         drive' \in DriveStates, library' \subseteq Files, failures' \in 0..MaxFailures, ~confirm, after = Says(""),
         NEW st \in Messages,
         \/ pc' = "key" /\ status' = st /\ UNCHANGED after
         \/ pc' = "disks" /\ mode = "disks" /\ after' = st /\ UNCHANGED status
         \/ pc' = "items" /\ mode = "lib" /\ after' = st /\ UNCHANGED status
  PROVE  Inv'
<1> USE DEF diskVars, pickVars, itemVars
<1>1. TypeOK'
  BY MessagesAre DEF Inv, TypeOK, Requests
<1>2. Placed'
  BY DEF Inv, Placed
<1>3. Chosen'
  BY SelectionSame DEF Inv, Chosen
<1> QED
  BY <1>1, <1>2, <1>3 DEF Inv

LEMMA InvEject ==
  ASSUME Inv, Eject
  PROVE  Inv'
<1> DEFINE d == Selected.id
<1>1. /\ UNCHANGED <<slots, library, others, mode, diskVars, pickVars, itemVars, view, confirmVars>>
      /\ mode = "disks" /\ ~confirm /\ after = Says("") /\ disks # <<>>
  BY DEF Eject, Inv, Placed, Chosen
<1>2. failures' \in 0..MaxFailures
  BY FailuresCounted DEF Eject
<1>3. d \in Drives
  BY <1>1, SelectedIs DEF Entries
<1> HIDE DEF d
<1>4. drive' \in DriveStates
  <2>1. drive' = drive \/ drive' = [drive EXCEPT ![d] = NoFile]
    BY DEF Eject, d
  <2>2. drive \in DriveStates
    BY DEF Inv, TypeOK
  <2> QED
    BY <1>3, <2>1, <2>2, DrivesChange
<1>5. \E st \in Messages : \/ pc' = "key" /\ status' = st /\ UNCHANGED after
                           \/ pc' = "disks" /\ after' = st /\ UNCHANGED status
  <2>1. EjectAnswer(TRUE, Ejected(d)) \/ EjectAnswer(FALSE, Ejected(d))
    BY DEF Eject, d
  <2> QED
    BY <1>3, <2>1, MessagesAre DEF EjectAnswer, AfterDiskChange, GivesUp
<1>6. /\ target' \in [drive : Drives \cup {0}, file : Files \cup {NoFile}] /\ library' \subseteq Files
      /\ UNCHANGED confirm
  BY <1>1 DEF Inv, TypeOK, confirmVars
<1> QED
  BY <1>1, <1>2, <1>4, <1>5, <1>6, ChangeEnds

LEMMA InvMountRequest ==
  ASSUME Inv, Mount
  PROVE  Inv'
<1> DEFINE d == target.drive
           f == target.file
<1>1. /\ UNCHANGED <<slots, library, others, mode, diskVars, pickVars, itemVars, view, confirm>>
      /\ mode = "disks" /\ ~confirm /\ after = Says("") /\ target' = NoTarget
  BY DEF Mount, Inv, Placed
<1>2. failures' \in 0..MaxFailures
  BY FailuresCounted DEF Mount
<1>3. d \in Drives /\ d \notin HardDrives /\ f \in Dsk /\ f \in Files
  BY DEF Mount, Inv, Chosen, Files
<1> HIDE DEF d, f
<1>4. drive' \in DriveStates
  <2>1. drive' = drive \/ (Mountable(d, f) /\ drive' = [drive EXCEPT ![d] = f])
    BY DEF Mount, d, f
  <2>2. drive \in DriveStates
    BY DEF Inv, TypeOK
  <2> QED
    BY <1>3, <2>1, <2>2, DrivesChange DEF Mountable
<1>5. \E st \in Messages : \/ pc' = "key" /\ status' = st /\ UNCHANGED after
                           \/ pc' = "disks" /\ after' = st /\ UNCHANGED status
  <2>1. \/ AfterDiskChange(Mounted(d, f))
        \/ GivesUp(NotFound(f)) \/ GivesUp(Says("note"))
    BY DEF Mount, d, f
  <2> QED
    BY <1>3, <2>1, MessagesAre DEF AfterDiskChange, GivesUp
<1>6. target' \in [drive : Drives \cup {0}, file : Files \cup {NoFile}] /\ library' \subseteq Files
  BY <1>1 DEF Inv, TypeOK, NoTarget
<1> QED
  BY <1>1, <1>2, <1>4, <1>5, <1>6, ChangeEnds

LEMMA InvDeleteImage ==
  ASSUME Inv, DeleteImage
  PROVE  Inv'
<1> DEFINE f == target.file
<1>1. /\ UNCHANGED <<slots, drive, others, mode, diskVars, pickVars, itemVars, view, confirm>>
      /\ mode = "lib" /\ ~confirm /\ after = Says("") /\ target' = NoTarget
  BY DEF DeleteImage, Inv, Placed
<1>2. failures' \in 0..MaxFailures
  BY FailuresCounted DEF DeleteImage
<1>3. f \in Files
  BY DEF DeleteImage, Inv, TypeOK, Chosen, SelectedItem, ItemName, Files
<1> HIDE DEF f
<1>4. library' \subseteq Files /\ drive' \in DriveStates
  BY <1>1 DEF DeleteImage, f, Inv, TypeOK
<1>5. \E st \in Messages : \/ pc' = "key" /\ status' = st /\ UNCHANGED after
                           \/ pc' = "items" /\ after' = st /\ UNCHANGED status
  <2>1. (pc' = "items" /\ after' = Deleted(f) /\ UNCHANGED status) \/ GivesUp(Says("note"))
    BY DEF DeleteImage, f
  <2> QED
    BY <1>3, <2>1, MessagesAre DEF GivesUp
<1>6. target' \in [drive : Drives \cup {0}, file : Files \cup {NoFile}]
  BY <1>1 DEF NoTarget
<1> QED
  BY <1>1, <1>2, <1>4, <1>5, <1>6, ChangeEnds

LEMMA InvGetItems ==
  ASSUME Inv, GetItems
  PROVE  Inv'
<1> USE DEF deviceVars, diskVars, pickVars, confirmVars
<1>1. /\ UNCHANGED <<deviceVars, others, mode, diskVars, pickVars, machine, view, confirmVars>>
      /\ mode = "lib" /\ ~confirm
  BY DEF GetItems, Inv, Placed
<1>2. failures' \in 0..MaxFailures
  BY FailuresCounted DEF GetItems
<1>3. status' \in Messages /\ after' = Says("") /\ after' \in Messages /\ pc' = "key"
  BY MessagesAre, RefreshEnds DEF GetItems
<1>4. libItems' \in Seq(Dsk \cup Hdd) /\ libItemSel' \in Nat
  <2>1. CASE UNCHANGED <<libItems, libItemSel>>
    BY <2>1 DEF Inv, TypeOK
  <2>2. CASE /\ libItems' = filterDiskImages(library)
             /\ \/ libItemSel' = libItemSel
                \/ libItemSel' = clampIndex(Cardinality(library) - 1, Cardinality(library))
    <3>1. filterDiskImages(library) \in Seq(Dsk \cup Hdd) /\ Cardinality(library) \in Nat /\ libItemSel \in Nat
      BY FilteredIs DEF Inv, TypeOK
    <3>2. \A n \in Nat : clampIndex(n - 1, n) \in Nat
      BY ClampIs
    <3>3. clampIndex(Cardinality(library) - 1, Cardinality(library)) \in Nat
      BY <3>1, <3>2
    <3> QED
      BY <2>2, <3>1, <3>3
  <2> QED
    BY <2>1, <2>2 DEF GetItems
<1>5. TypeOK'
  BY <1>1, <1>2, <1>3, <1>4 DEF Inv, TypeOK
<1>6. Placed'
  BY <1>1, <1>3 DEF Placed
<1>7. Chosen'
  BY <1>1, <1>3, SelectionSame DEF Inv, Chosen
<1> QED
  BY <1>5, <1>6, <1>7 DEF Inv

LEMMA InvGetMachine ==
  ASSUME Inv, GetMachine
  PROVE  Inv'
<1> USE DEF deviceVars, diskVars, pickVars, confirmVars
<1>1. /\ UNCHANGED <<deviceVars, others, after, mode, diskVars, pickVars, libItems, libItemSel, view, confirmVars>>
      /\ mode = "lib" /\ ~confirm /\ after = Says("")
      /\ pc' \in {"key", "download"} /\ machine' \in {TRUE, machine} /\ status' \in {status, Says("note")}
  BY DEF GetMachine, Inv, Placed
<1>2. failures' \in 0..MaxFailures
  BY FailuresCounted DEF GetMachine
<1>3. TypeOK'
  BY <1>1, <1>2, MessagesAre DEF Inv, TypeOK, Requests
<1>4. Placed'
  BY <1>1 DEF Placed
<1>5. Chosen'
  BY <1>1, SelectionSame DEF Inv, Chosen
<1> QED
  BY <1>3, <1>4, <1>5 DEF Inv

LEMMA InvDownload ==
  ASSUME Inv, Download
  PROVE  Inv'
<1> USE DEF deviceVars, diskVars, pickVars, itemVars, confirmVars
<1>1. /\ UNCHANGED <<deviceVars, others, after, diskVars, pickVars, itemVars, confirmVars>>
      /\ mode = "lib" /\ ~confirm /\ after = Says("") /\ pc' = "key"
  BY DEF Download, Inv, Placed
<1>2. failures' \in 0..MaxFailures
  BY FailuresCounted DEF Download
<1>3. CASE /\ mode' = "preview" /\ status' = Says("")
           /\ \E n \in 1..MaxUsers, start \in {0, 1}, length \in Lines :
                view' = [ViewOf(length) EXCEPT !.users = n, !.user = start]
  <2>1. PICK n \in 1..MaxUsers, start \in {0, 1}, length \in Lines :
               view' = [ViewOf(length) EXCEPT !.users = n, !.user = start]
    BY <1>3
  <2>2. ViewOf(length) \in Views /\ n \in 0..MaxUsers /\ start \in Nat
    BY <2>1, TUIAssumption, ViewsAre DEF TUIAssumption
  <2>3. view' \in Views
    BY <2>1, <2>2 DEF Views
  <2>4. TypeOK'
    BY <1>1, <1>2, <1>3, <2>3, MessagesAre DEF Inv, TypeOK, Views
  <2>5. Placed'
    BY <1>1 DEF Placed
  <2>6. Chosen'
    BY <1>1, <1>3, SelectionSame DEF Inv, Chosen
  <2> QED
    BY <2>4, <2>5, <2>6 DEF Inv
<1>4. CASE status' = Says("note") /\ UNCHANGED <<mode, view>>
  <2>1. slots \subseteq Drives /\ drive \in DriveStates /\ library \subseteq Files
    BY DEF Inv, TypeOK
  <2> QED
    BY <1>1, <1>2, <1>4, <2>1, MessagesAre, RequestEnds
<1> QED
  BY <1>3, <1>4 DEF Download

LEMMA InvStep == Inv /\ [Next]_vars => Inv'
<1> SUFFICES ASSUME Inv, [Next]_vars PROVE Inv'
  OBVIOUS
<1>1. CASE Next
  <2>1. CASE Request
    BY <2>1, InvGetSystem, InvGetDisks, InvGetLibrary, InvEject, InvMountRequest, InvGetItems, InvGetMachine,
       InvDownload, InvDeleteImage DEF Request
  <2> QED
    BY <1>1, <2>1, InvTurns, InvKeys, InvOthers DEF Next
<1>2. CASE UNCHANGED vars
  <2>1. UNCHANGED <<deviceVars, auxVars, mode, diskVars, pickVars, itemVars, view, confirmVars, after, pc, status>>
    BY <1>2 DEF vars
  <2> QED
    BY <2>1, OnlyDevice DEF Inv, TypeOK, deviceVars, auxVars
<1> QED
  BY <1>1, <1>2

LEMMA InvAlways == Spec => []Inv
BY InvInit, InvStep, PTL DEF Spec

--------------------------------------------------------------------------------
(* What follows from the invariant.                                        *)

\* Whatever the device and its other users do, the state of the control TUI is one its
\* code has a case for: tuiModel of gateway-go/tui.go.
THEOREM TypeCorrect == Spec => []TypeOK
<1>1. Inv => TypeOK
  BY DEF Inv
<1> QED
  BY <1>1, InvAlways, PTL

\* openLibrary, doEject, doActuate and doMount index their lists inside their bounds,
\* although lists are read again, filtered and emptied between two keys.
THEOREM SelectionsInBounds == Spec => []SelectionsValid
<1>1. Inv => SelectionsValid
  BY DEF Inv, Chosen, SelectionsValid
<1> QED
  BY <1>1, InvAlways, PTL

\* deleteLibraryImage deletes the image the overlay of askDeleteLib asked about, which is
\* the one highlighted.
THEOREM ConfirmNames == Spec => []ConfirmNamesSelection
<1>1. Inv => ConfirmNamesSelection
  BY DEF Inv, Placed, Chosen, ConfirmNamesSelection
<1> QED
  BY <1>1, InvAlways, PTL

\* There is a way out of every pane and overlay: every key awaited may be Escape, two
\* Escapes close the TUI, and a request in progress ends with at most one more
\* (tui.go:329-532).
THEOREM EscapesLeave == Spec => TwoEscapesLeave
<1> USE DEF confirmVars
<1>1. ASSUME Inv, pc = "key" PROVE IF confirm THEN SaysNo("esc") ELSE "esc" \in Cases[mode]
  <2>1. mode \in {"disks", "library", "panel", "system", "lib", "preview"}
    BY <1>1 DEF Inv, TypeOK
  <2>2. "esc" \in Cases[mode]
    BY <2>1 DEF Cases, PanelCases
  <2> QED
    BY <2>2 DEF SaysNo
<1>2. ASSUME Inv, Pressed("esc") PROVE EscapesLeft' < EscapesLeft /\ RequestsLeft' = 0
  <2>1. CASE Leave("esc")
    <3>1. pc = "key" /\ pc' = "closed"
      BY <2>1 DEF Leave, Key
    <3> QED
      BY <3>1 DEF EscapesLeft, RequestsLeft
  <2>2. CASE Back("esc")
    <3>1. pc = "key" /\ pc' = "key" /\ ~confirm' /\ mode \notin TopLevel /\ mode' \in TopLevel
      BY <2>2 DEF Back, BackTo, Key, TopLevel
    <3> QED
      BY <3>1 DEF EscapesLeft, RequestsLeft
  <2>3. CASE Confirm("esc")
    <3>1. pc = "key" /\ confirm /\ mode' = "lib" /\ confirm' = FALSE /\ pc' = "key"
      BY <1>2, <2>3 DEF Confirm, SaysNo, Inv, Placed
    <3> QED
      BY <3>1 DEF EscapesLeft, RequestsLeft, TopLevel
  <2>4. ~Ignored("esc")
    BY <1>1, <1>2 DEF Ignored
  <2>5. ~(Move("esc") \/ SelectSwitch("esc") \/ SelectUser("esc") \/ Actuate("esc") \/ openLibrary("esc") \/ doPreview("esc"))
    BY DEF Move, SelectSwitch, SelectUser, Actuate, openLibrary, doPreview
  <2> QED
    BY <1>2, <2>1, <2>2, <2>3, <2>4, <2>5 DEF Pressed
<1>3. ASSUME Request PROVE RequestsLeft' < RequestsLeft
  <2>1. CASE GetSystem \/ GetDisks \/ GetLibrary \/ GetItems \/ Download
    <3>1. pc \in {"system", "disks", "library", "items", "download"} /\ pc' = "key"
      BY <2>1 DEF GetSystem, GetDisks, GetLibrary, GetItems, Download, Refreshed
    <3> QED
      BY <3>1 DEF RequestsLeft
  <2>2. CASE Eject \/ Mount
    <3>1. pc \in {"eject", "mount"} /\ pc' \in {"disks", "key"}
      BY <2>2 DEF Eject, EjectAnswer, Mount, AfterDiskChange, GivesUp
    <3> QED
      BY <3>1 DEF RequestsLeft
  <2>3. CASE GetMachine \/ DeleteImage
    <3>1. pc \in {"machine", "delete"} /\ pc' \in {"download", "items", "key"}
      BY <2>3 DEF GetMachine, DeleteImage, GivesUp
    <3> QED
      BY <3>1 DEF RequestsLeft
  <2> QED
    BY <1>3, <2>1, <2>2, <2>3 DEF Request
<1> DEFINE Accepted == pc = "key" => IF confirm THEN SaysNo("esc") ELSE "esc" \in Cases[mode]
<1> DEFINE Closer == /\ Pressed("esc") => EscapesLeft' < EscapesLeft /\ RequestsLeft' = 0
                     /\ Request => RequestsLeft' < RequestsLeft
<1>4. Inv => Accepted
  BY <1>1
<1>5. Inv /\ [Next]_vars => [Closer]_vars
  BY <1>2, <1>3
<1>6. Spec => []Accepted
  BY <1>4, InvAlways, PTL
<1>7. Spec => [][Closer]_vars
  BY <1>5, InvAlways, PTL DEF Spec
<1> QED
  BY <1>6, <1>7 DEF TwoEscapesLeave

--------------------------------------------------------------------------------
(* What the status line says.                                              *)

TrueNow(st) ==
  /\ st.kind = "mounted" => drive[st.drive] = st.file
  /\ st.kind = "ejected" => drive[st.drive] = NoFile
  /\ st.kind = "deleted" => st.file \notin library

(* A message that a request made false is about to be replaced by one that *)
(* waits for the list to be read again, and that one is true.              *)
StatusInv ==
  others = 0 =>
    /\ TrueNow(after)
    /\ TrueNow(status) \/ (pc = "disks" /\ after # Says(""))

\* What the messages say.
LEMMA KindsAre ==
  /\ Says("").kind = "" /\ Says("note").kind = "note"
  /\ \A d, f : /\ Ejected(d).kind = "ejected" /\ Ejected(d).drive = d
              /\ Mounted(d, f).kind = "mounted" /\ Mounted(d, f).drive = d /\ Mounted(d, f).file = f
              /\ NotFound(f).kind = "not found" /\ Deleted(f).kind = "deleted" /\ Deleted(f).file = f
BY DEF Says, Ejected, Mounted, NotFound, Deleted

LEMMA KindsDiffer ==
  \A d, f : Ejected(d) # Says("") /\ Mounted(d, f) # Says("")
BY DEF Says, Ejected, Mounted

\* Every step but the requests that change the device and the two refreshes.
LEMMA QuietStep ==
  ASSUME Inv, EnterTUI \/ Draw \/ tuiKey \/ GetSystem \/ GetLibrary \/ GetMachine \/ Download
  PROVE  /\ UNCHANGED <<slots, drive, library, others, after>> /\ status' \in {status, Says(""), Says("note")}
         /\ pc # "disks" /\ (failures' = 0 => failures = 0)
         /\ pc' \notin {"closed", "disks"} => pc # "closed" /\ UNCHANGED disks
<1> USE DEF deviceVars, auxVars, diskVars
<1>1. \A n \in Nat : n + 1 # 0
  OBVIOUS
<1>2. failures \in Nat
  BY TUIAssumption DEF TUIAssumption, Inv, TypeOK
<1>3. CASE EnterTUI
  BY <1>3 DEF EnterTUI, Inv, Placed
<1>4. CASE Draw
  BY <1>4 DEF Draw, NoRequest
<1>5. CASE GetSystem
  BY <1>1, <1>2, <1>5 DEF GetSystem, Works, Fails
<1>6. CASE GetLibrary
  BY <1>1, <1>2, <1>6 DEF GetLibrary, OpenPicker, Works, Fails
<1>7. CASE GetMachine
  BY <1>1, <1>2, <1>7 DEF GetMachine, Works, Fails
<1>8. CASE Download
  BY <1>1, <1>2, <1>8 DEF Download, Works, Fails
<1>9. ASSUME NEW k \in Keys,
             Leave(k) \/ Back(k) \/ Move(k) \/ SelectSwitch(k) \/ SelectUser(k) \/ Ignored(k) \/ Actuate(k)
             \/ openLibrary(k) \/ doPreview(k) \/ Confirm(k)
      PROVE  /\ NoRequest /\ pc = "key" /\ status' \in {status, Says(""), Says("note")}
             /\ pc' # "closed" => UNCHANGED disks
  <2>1. CASE Leave(k)
    BY <2>1 DEF Leave, Key, NewModel
  <2>2. CASE Back(k) \/ Move(k) \/ SelectSwitch(k) \/ SelectUser(k)
    BY <2>2 DEF Back, Move, SelectSwitch, SelectUser, Key
  <2>3. CASE Ignored(k) \/ Actuate(k)
    BY <2>3 DEF Ignored, Actuate, Key, Cleared
  <2>4. CASE openLibrary(k)
    BY <2>4 DEF openLibrary, OpenPicker, Key
  <2>5. CASE doPreview(k) \/ Confirm(k)
    BY <2>5 DEF doPreview, Confirm, Key
  <2> QED
    BY <1>9, <2>1, <2>2, <2>3, <2>4, <2>5
<1>10. ASSUME TabKey \/ RefreshKey \/ RefreshPanel \/ doEject \/ doMount \/ askDeleteLib
       PROVE  NoRequest /\ pc = "key" /\ status' \in {status, Says(""), Says("note")} /\ UNCHANGED disks
  <2>1. CASE TabKey \/ RefreshKey \/ RefreshPanel
    BY <2>1 DEF TabKey, RefreshKey, RefreshPanel, Key
  <2>2. CASE doEject \/ doMount \/ askDeleteLib
    BY <2>2 DEF doEject, doMount, askDeleteLib, Key
  <2> QED
    BY <1>10, <2>1, <2>2
<1>11. CASE tuiKey
  BY <1>9, <1>10, <1>11 DEF tuiKey, Pressed, NoRequest
<1> QED
  BY <1>3, <1>4, <1>5, <1>6, <1>7, <1>8, <1>11

LEMMA StatusStep ==
  ASSUME Inv, StatusInv, [Next]_vars
  PROVE  StatusInv'
<1> SUFFICES ASSUME others' = 0
             PROVE  TrueNow(after)' /\ (TrueNow(status)' \/ (pc' = "disks" /\ after' # Says("")))
  BY DEF StatusInv
<1>0. others = 0 => TrueNow(after) /\ (TrueNow(status) \/ (pc = "disks" /\ after # Says("")))
  BY DEF StatusInv
<1>1. ~OthersChange
  <2>1. others \in Nat
    BY TUIAssumption DEF TUIAssumption, Inv, TypeOK
  <2>2. \A n \in Nat : n + 1 # 0
    OBVIOUS
  <2> QED
    BY <2>1, <2>2 DEF OthersChange
<1>2. ASSUME status' \in {Says(""), Says("note")} \/ (\E f : status' = NotFound(f)) PROVE TrueNow(status)'
  BY <1>2, KindsAre DEF TrueNow
<1>3. CASE UNCHANGED <<drive, library, others, after>> /\ status' \in {status, Says(""), Says("note")} /\ pc # "disks"
  BY <1>0, <1>2, <1>3 DEF TrueNow
<1>4. CASE GetDisks \/ GetItems
  <2>1. UNCHANGED <<drive, library, others>> /\ after' = Says("") /\ status' \in {after, Says(""), Says("note")}
    BY <1>4 DEF GetDisks, GetItems, Refreshed, deviceVars
  <2> QED
    BY <1>0, <1>2, <2>1, KindsAre DEF TrueNow
<1>5. CASE Eject
  <2> DEFINE d == Selected.id
  <2>1. d \in Drives /\ drive \in [Drives -> {NoFile} \cup Dsk \cup Hdd] /\ after = Says("")
    BY <1>5, SelectedIs DEF Eject, Inv, Placed, Chosen, Entries, TypeOK, DriveStates
  <2>2. \/ drive' = [drive EXCEPT ![d] = NoFile] /\ pc' = "disks" /\ after' = Ejected(d)
        \/ status' = Says("note") /\ UNCHANGED after
    BY <1>5 DEF Eject, EjectAnswer, AfterDiskChange, GivesUp
  <2> HIDE DEF d
  <2>3. [drive EXCEPT ![d] = NoFile][d] = NoFile
    BY <2>1
  <2>4. CASE drive' = [drive EXCEPT ![d] = NoFile] /\ pc' = "disks" /\ after' = Ejected(d)
    BY <2>3, <2>4, KindsAre, KindsDiffer DEF TrueNow
  <2>5. CASE status' = Says("note") /\ UNCHANGED after
    BY <1>2, <2>1, <2>5, KindsAre DEF TrueNow
  <2> QED
    BY <2>2, <2>4, <2>5
<1>6. CASE Mount
  <2> DEFINE d == target.drive
             f == target.file
  <2>1. d \in Drives /\ drive \in [Drives -> {NoFile} \cup Dsk \cup Hdd] /\ after = Says("")
    BY <1>6 DEF Mount, Inv, Placed, Chosen, TypeOK, DriveStates
  <2>2. \/ drive' = [drive EXCEPT ![d] = f] /\ pc' = "disks" /\ after' = Mounted(d, f)
        \/ status' \in {Says("note"), NotFound(f)} /\ UNCHANGED after
    BY <1>6 DEF Mount, AfterDiskChange, GivesUp
  <2> HIDE DEF d, f
  <2>3. [drive EXCEPT ![d] = f][d] = f
    BY <2>1
  <2>4. CASE drive' = [drive EXCEPT ![d] = f] /\ pc' = "disks" /\ after' = Mounted(d, f)
    <3>0. after' = [kind |-> "mounted", drive |-> d, file |-> f]
      BY <2>4 DEF Mounted
    <3>1. after'.kind = "mounted" /\ after'.drive = d /\ after'.file = f /\ drive'[d] = f
      BY <2>3, <2>4, <3>0
    <3>2. TrueNow(after)'
      BY <3>1 DEF TrueNow
    <3> QED
      BY <2>4, <3>2, KindsDiffer
  <2>5. CASE status' \in {Says("note"), NotFound(f)} /\ UNCHANGED after
    BY <1>2, <2>1, <2>5, KindsAre DEF TrueNow
  <2> QED
    BY <2>2, <2>4, <2>5
<1>7. CASE DeleteImage
  <2> DEFINE f == target.file
  <2>1. after = Says("") /\ pc # "disks" /\ UNCHANGED <<drive, others>>
    BY <1>7 DEF DeleteImage, Inv, Placed
  <2>2. \/ library' = library \ {f} /\ after' = Deleted(f) /\ UNCHANGED status
        \/ status' = Says("note") /\ UNCHANGED after
    BY <1>7 DEF DeleteImage, GivesUp
  <2> HIDE DEF f
  <2>3. CASE library' = library \ {f} /\ after' = Deleted(f) /\ UNCHANGED status
    <3>1. TrueNow(status) /\ f \notin library' /\ library' \subseteq library
      BY <1>0, <2>1, <2>3
    <3>2. TrueNow(after)'
      BY <2>3, <3>1, KindsAre DEF TrueNow
    <3>3. TrueNow(status)'
      BY <2>1, <2>3, <3>1 DEF TrueNow
    <3> QED
      BY <3>2, <3>3
  <2>4. CASE status' = Says("note") /\ UNCHANGED after
    BY <1>2, <2>1, <2>4, KindsAre DEF TrueNow
  <2> QED
    BY <2>2, <2>3, <2>4
<1>8. CASE UNCHANGED vars
  BY <1>0, <1>8 DEF vars, TrueNow, deviceVars, auxVars
<1> QED
  BY <1>1, <1>3, <1>4, <1>5, <1>6, <1>7, <1>8, QuietStep DEF Next, Request

\* Without others, a success message of doMount, doEject or deleteLibraryImage is true as
\* long as it stands: it is shown only after an answer, and what would make it false, the
\* next change, puts another message in its place, or one for its failure.
THEOREM StatusTrue == Spec => []StatusTruthful
<1>1. Init => StatusInv
  BY KindsAre DEF Init, StatusInv, TrueNow
<1>2. Inv /\ StatusInv => StatusTruthful
  BY DEF StatusInv, StatusTruthful, TrueNow
<1> QED
  BY <1>1, <1>2, StatusStep, InvAlways, PTL DEF Spec

--------------------------------------------------------------------------------
(* The drive list.                                                         *)

(* A change of the device leads to a refresh before the next key.          *)
DisksInv == others = 0 /\ failures = 0 /\ pc \notin {"closed", "disks"} => disks = DiskList

LEMMA DisksStep ==
  ASSUME Inv, DisksInv, [Next]_vars
  PROVE  DisksInv'
<1> SUFFICES ASSUME others' = 0, failures' = 0, pc' \notin {"closed", "disks"}
             PROVE  disks' = DiskList'
  BY DEF DisksInv
<1>1. others \in Nat /\ failures \in Nat /\ \A n \in Nat : n + 1 # 0
  BY TUIAssumption DEF TUIAssumption, Inv, TypeOK
<1>2. ~OthersChange /\ ~Fails
  BY <1>1 DEF OthersChange, Fails
<1>3. UNCHANGED <<slots, drive>> => UNCHANGED DiskList
  BY DEF DiskList
<1>4. CASE GetDisks
  BY <1>2, <1>3, <1>4 DEF GetDisks, deviceVars
<1>5. ASSUME UNCHANGED <<slots, drive, others, disks>>, pc \notin {"closed", "disks"}, failures = 0 PROVE disks' = DiskList'
  BY <1>3, <1>5 DEF DisksInv
<1>6. CASE GetItems
  BY <1>2, <1>5, <1>6 DEF GetItems, Works, deviceVars, diskVars
<1>7. CASE Eject
  BY <1>2, <1>5, <1>7 DEF Eject, EjectAnswer, AfterDiskChange, Works, diskVars
<1>8. CASE Mount
  BY <1>2, <1>5, <1>8 DEF Mount, AfterDiskChange, Works, diskVars
<1>9. CASE DeleteImage
  BY <1>2, <1>5, <1>9 DEF DeleteImage, Works, diskVars
<1>10. CASE UNCHANGED vars
  BY <1>5, <1>10 DEF vars, deviceVars, auxVars, diskVars
<1>11. CASE EnterTUI \/ Draw \/ tuiKey \/ GetSystem \/ GetLibrary \/ GetMachine \/ Download
  BY <1>5, <1>11, QuietStep
<1> QED
  BY <1>2, <1>4, <1>6, <1>7, <1>8, <1>9, <1>10, <1>11 DEF Next, Request

\* Without others and without a request that fails, the drive list of refreshDisks is the
\* device's whenever a key is awaited: doMount and doEject read it again.
THEOREM DisksAreCurrent == Spec => []DisksCurrent
<1>1. Init => DisksInv
  BY DEF Init, DisksInv
<1>2. DisksInv => DisksCurrent
  BY DEF DisksInv, DisksCurrent
<1> QED
  BY <1>1, <1>2, DisksStep, InvAlways, PTL DEF Spec

================================================================================
