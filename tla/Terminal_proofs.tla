-------------------------- MODULE Terminal_proofs --------------------------
(***************************************************************************)
(* Proofs about Terminal, for all sticks, users and files: what holds      *)
(* wherever a stick is pulled, a copy fails or the power is cut, and what  *)
(* the configuration that is left prints above the next bill.              *)
(***************************************************************************)
EXTENDS Terminal, SumTheorems, TLAPS

-----------------------------------------------------------------------------
(* Data *)

\* There is always a device to try first.
LEMMA DevicesToTry == \A o : Len(Devices(o)) \in Nat /\ 1 <= Len(Devices(o))
BY DEF Devices

\* None stands for no content at all.
LEMMA NoneIsNoContent == None \notin DbFiles /\ Torn \in DbFiles /\ Missing \in DbFiles
BY ContentAssumption DEF DbFiles

\* The parts of the type invariant.
UsbType ==
    /\ flash \in Files
    /\ media \in [Sticks -> Files]
    /\ port \in Plugged \cup {None} /\ mounted \in Plugged \cup {None}
    /\ cache \in DbFiles \cup {None}
    /\ op \in Operations \cup {None}
    /\ flag \in BOOLEAN /\ pulled \in BOOLEAN /\ refused \in BOOLEAN
    /\ tries \in 1..Len(Devices(op))

SessionType ==
    /\ pc \in SessionPcs \cup {"username", "password", "shutdown"}
    /\ imported \in BOOLEAN
    /\ user \in Names \cup {None} /\ gUserId \in Names \cup {None}

\* Together they are all of it.
LEMMA TypeParts == TypeOK <=> UsbType /\ SessionType
BY DEF TypeOK, UsbType, SessionType

\* What is mounted has a stick, whose files have the types of files.
LEMMA StickFiles ==
    ASSUME UsbType, NEW p \in Plugged
    PROVE  /\ p.stick \in Sticks
           /\ media[p.stick].db \in DbFiles /\ media[p.stick].cfg \in CfgFiles
BY DEF UsbType, Plugged, Files

\* So it is with the stick that is mounted, and with the database in its cache.
LEMMA MountedFiles ==
    ASSUME UsbType, mounted # None
    PROVE  /\ mounted \in Plugged /\ mounted.stick \in Sticks
           /\ media[mounted.stick].db \in DbFiles /\ media[mounted.stick].cfg \in CfgFiles
           /\ StickDb \in DbFiles
<1>1. mounted \in Plugged
  BY DEF UsbType
<1>2. /\ mounted.stick \in Sticks
      /\ media[mounted.stick].db \in DbFiles /\ media[mounted.stick].cfg \in CfgFiles
  BY <1>1, StickFiles
<1>3. StickDb \in DbFiles
  BY <1>2 DEF StickDb, UsbType
<1> QED BY <1>1, <1>2, <1>3

\* A stick gets one of the contents it may have when writing to it stops.
LEMMA WrittenFiles ==
    ASSUME UsbType, NEW p \in Plugged
    PROVE  Written(p.stick) \subseteq DbFiles
<1>1. media[p.stick].db \in DbFiles
  BY StickFiles
<1>2. cache # None => cache \in DbFiles
  BY DEF UsbType
<1> QED BY <1>1, <1>2, NoneIsNoContent DEF Written

\* A file can be replaced on a stick.
LEMMA PutDb ==
    ASSUME UsbType, NEW s \in Sticks, NEW d \in DbFiles
    PROVE  [media EXCEPT ![s].db = d] \in [Sticks -> Files]
<1>1. media \in [Sticks -> Files] /\ media[s] \in Files
  BY DEF UsbType
<1>2. [media[s] EXCEPT !.db = d] \in Files
  BY <1>1 DEF Files
<1> QED BY <1>1, <1>2

\* And in the flash.
LEMMA FlashDb ==
    ASSUME UsbType, NEW d \in DbFiles
    PROVE  /\ [flash EXCEPT !.db = d] \in Files
           /\ [flash EXCEPT !.db = d].db = d
BY DEF UsbType, Files

\* Another configuration in the flash leaves its database alone.
LEMMA FlashCfg ==
    ASSUME UsbType, NEW c \in CfgFiles
    PROVE  /\ [flash EXCEPT !.cfg = c] \in Files
           /\ [flash EXCEPT !.cfg = c].db = flash.db
           /\ [flash EXCEPT !.cfg = c].cfg = c
BY DEF UsbType, Files

\* What cp reads can be written.
LEMMA SourceFiles ==
    ASSUME UsbType, CanRead, op \in Operations
    PROVE  /\ op \in {"Export", "Import"} => Source \in DbFiles
           /\ op = "Upload" => Source \in Configs
<1>1. CASE op = "Export"
  BY <1>1 DEF Source, UsbType, Files
<1>2. CASE op = "Import"
  <2>1. Source = StickDb /\ mounted # None
    BY <1>2 DEF Source, CanRead, Alive
  <2> QED BY <1>2, <2>1, MountedFiles
<1>3. CASE op = "Upload"
  <2>1. Source = media[mounted.stick].cfg /\ mounted # None /\ Source # Missing
    BY <1>3 DEF Source, CanRead, Alive
  <2>2. Source \in CfgFiles
    BY <2>1, MountedFiles
  <2> QED BY <1>3, <2>1, <2>2 DEF CfgFiles
<1> QED BY <1>1, <1>2, <1>3 DEF Operations

\* Every part of a configuration that is copied is a configuration.
LEMMA ConfigParts ==
    ASSUME NEW c \in Configs, NEW n \in 0..Len(c)
    PROVE  SubSeq(c, 1, n) \in CfgFiles /\ c \in CfgFiles
BY ConfigsAssumption DEF CfgFiles

\* A change keeps the accounts, and the database can still be read.
LEMMA ChangeKeeps ==
    ASSUME UsbType, NEW short \in BOOLEAN, Change(short)
    PROVE  /\ flash' \in Files /\ flash'.db \in Databases
           /\ Readable' /\ flash'.db.accounts = flash.db.accounts
           /\ flash'.db.short = short /\ flash'.db.items = flash.db.items
           /\ flash'.cfg = flash.cfg
<1>1. flash \in Files /\ flash.db \in Databases
  BY DEF UsbType, Files, Change, Readable, DbFiles
<1> DEFINE n == flash.db.changes + 1
           db == Changed(flash.db, short)
<1>2. n \in 0..MaxChanges
  BY <1>1, ChangesAssumption DEF Change, Databases
<1>3. /\ db \in Databases
      /\ db.accounts = flash.db.accounts /\ db.short = short /\ db.items = flash.db.items
  <2> QED BY <1>1, <1>2 DEF Databases, Changed
<1>4. flash' = [flash EXCEPT !.db = db]
  BY DEF Change
<1>5. flash'.db = db /\ flash' \in Files /\ flash'.cfg = flash.cfg
  <2> HIDE DEF db
  <2> QED BY <1>1, <1>3, <1>4 DEF Files, DbFiles
<1>6. Readable'
  BY <1>3, <1>5, ContentAssumption DEF Readable
<1> QED BY <1>3, <1>5, <1>6

\* Which steps change the database, and which leave all files and devices alone.
LEMMA WorkCases ==
    ASSUME Work, UsbType
    PROVE  UNCHANGED usb \/ \E short \in BOOLEAN : Change(short)
<1>1. flash.db \in Databases => flash.db.short \in BOOLEAN
  BY DEF Databases
<1>2. CASE Save
  <2>1. flash.db \in Databases
    BY <1>2 DEF Save, Change, Readable, UsbType, Files, DbFiles
  <2> QED BY <1>1, <1>2, <2>1 DEF Save
<1>3. CASE DeleteBill
  <2>1. flash.db \in Databases
    BY <1>3 DEF DeleteBill, Change, Readable, UsbType, Files, DbFiles
  <2> QED BY <1>1, <1>3, <2>1 DEF DeleteBill
<1>4. CASE ClearBill
  BY <1>4 DEF ClearBill
<1> QED
  BY <1>2, <1>3, <1>4
  DEF Work, EnterUsername, EnterPassword, EnterWrongPassword, OpenSettings, EnterAdminPassword,
      DismissWrong, LeaveAdmin, DeleteBillThrows, TotalSoldThrows

-----------------------------------------------------------------------------
(* Type correctness *)

\* Every step keeps the types of the files and of the devices.
LEMMA UsbTypeStep ==
    ASSUME UsbType, MountOK, Next
    PROVE  UsbType'
<1>1. CASE Work
  <2>1. CASE UNCHANGED usb
    BY <2>1 DEF UsbType, usb
  <2>2. ASSUME NEW short \in BOOLEAN, Change(short) PROVE UsbType'
    <3>1. flash' \in Files
      BY <2>2, ChangeKeeps
    <3> QED BY <2>2, <3>1 DEF UsbType, Change
  <2> QED BY <1>1, <2>1, <2>2, WorkCases
<1>2. CASE Copying
  <2> PICK o \in Operations : Ask(o)
    BY <1>2 DEF Copying
  <2>1. 1 \in 1..Len(Devices(o))
    BY DevicesToTry
  <2> QED BY <2>1 DEF Ask, UsbType
<1>3. CASE CopyStep
  <2>1. CASE StartMount \/ MountErrs \/ CopyRefused \/ CopyFails
    BY <2>1 DEF StartMount, MountErrs, CopyRefused, CopyFails, usb, UsbType
  <2>2. CASE LeaveUsb \/ DismissFailed
    <3>1. 1 \in 1..Len(Devices(None))
      BY DevicesToTry
    <3> QED BY <2>2, <3>1 DEF LeaveUsb, DismissFailed, Return, UsbType
  <2>3. CASE Mount
    BY <2>3 DEF Mount, UsbType
  <2>4. CASE MountFails
    <3>1. tries' \in 1..Len(Devices(op))
      BY <2>4, DevicesToTry DEF MountFails, UsbType
    <3> QED BY <2>4, <3>1 DEF MountFails, UsbType
  <2>5. CASE StartCopy
    <3>1. op \in Operations
      BY <2>5 DEF StartCopy, MountOK, UsbPcs
    <3>2. cache' \in DbFiles \cup {None}
      BY <2>5, NoneIsNoContent DEF StartCopy, UsbType
    <3>3. flash' \in Files
      <4>1. CASE op = "Export"
        BY <2>5, <4>1 DEF StartCopy, UsbType
      <4>2. CASE op = "Import"
        <5>1. flash' = [flash EXCEPT !.db = Torn]
          BY <2>5, <4>2 DEF StartCopy
        <5> QED BY <5>1, FlashDb, NoneIsNoContent
      <4>3. CASE op = "Upload"
        <5>1. PICK n \in 0..Len(Source) : flash' = [flash EXCEPT !.cfg = SubSeq(Source, 1, n)]
          BY <2>5, <4>3 DEF StartCopy
        <5>2. Source \in Configs
          BY <2>5, <3>1, <4>3, SourceFiles DEF StartCopy
        <5>3. SubSeq(Source, 1, n) \in CfgFiles
          BY <5>2, ConfigParts
        <5> QED BY <5>1, <5>3, FlashCfg
      <4> QED BY <3>1, <4>1, <4>2, <4>3 DEF Operations
    <3> QED BY <2>5, <3>2, <3>3 DEF StartCopy, UsbType
  <2>6. CASE Copied
    <3>1. op \in Operations
      BY <2>6 DEF Copied, MountOK, UsbPcs
    <3>2. CASE op = "Export"
      <4>1. cache' \in DbFiles /\ flash' = flash
        BY <2>6, <3>1, <3>2, SourceFiles DEF Copied
      <4> QED BY <2>6, <4>1 DEF Copied, UsbType
    <3>3. CASE op = "Import"
      <4>1. flash' \in Files /\ cache' = cache
        BY <2>6, <3>1, <3>3, SourceFiles, FlashDb DEF Copied
      <4> QED BY <2>6, <4>1 DEF Copied, UsbType
    <3>4. CASE op = "Upload"
      <4>1. Source \in CfgFiles
        BY <2>6, <3>1, <3>4, SourceFiles DEF Copied, CfgFiles
      <4>2. flash' \in Files /\ cache' = cache
        BY <2>6, <3>4, <4>1, FlashCfg DEF Copied
      <4> QED BY <2>6, <4>2 DEF Copied, UsbType
    <3> QED BY <3>1, <3>2, <3>3, <3>4 DEF Operations
  <2>7. CASE Unmount
    <3>1. media' \in [Sticks -> Files]
      <4>1. CASE Alive /\ cache # None
        <5>1. cache \in DbFiles /\ mounted.stick \in Sticks
          BY <4>1, MountedFiles DEF Alive, UsbType
        <5> QED BY <2>7, <4>1, <5>1, PutDb DEF Unmount
      <4>2. CASE ~(Alive /\ cache # None)
        BY <2>7, <4>2 DEF Unmount, UsbType
      <4> QED BY <4>1, <4>2
    <3>2. op' \in Operations \cup {None} /\ flag' \in BOOLEAN /\ tries' \in 1..Len(Devices(op'))
      <4>1. CASE pc = "copied"
        <5>1. op' = None /\ flag' = FALSE /\ tries' = 1
          BY <2>7, <4>1 DEF Unmount, Return
        <5>2. 1 \in 1..Len(Devices(None))
          BY DevicesToTry
        <5> QED BY <5>1, <5>2
      <4>2. CASE pc # "copied"
        BY <2>7, <4>2 DEF Unmount, UsbType
      <4> QED BY <4>1, <4>2
    <3> QED BY <2>7, <3>1, <3>2 DEF Unmount, UsbType
  <2>8. CASE UnmountRefused
    BY <2>8 DEF UnmountRefused, UsbType
  <2> QED
    BY <1>3, <2>1, <2>2, <2>3, <2>4, <2>5, <2>6, <2>7, <2>8 DEF CopyStep, UsbSteps
<1>4. CASE Surroundings
  <2>1. ASSUME NEW s \in Sticks, Insert(s) PROVE UsbType'
    <3>1. port' \in Plugged
      BY <2>1 DEF Insert, Letter, Plugged
    <3> QED BY <2>1, <3>1 DEF Insert, UsbType
  <2>2. CASE Pull
    <3>1. port \in Plugged /\ port.stick \in Sticks
      BY <2>2, StickFiles DEF Pull, UsbType
    <3>2. PICK d \in Written(port.stick) : media' = [media EXCEPT ![port.stick].db = d]
      BY <2>2 DEF Pull
    <3>3. media' \in [Sticks -> Files]
      BY <3>1, <3>2, WrittenFiles, PutDb
    <3>4. pulled' \in BOOLEAN /\ cache' \in DbFiles \cup {None}
      BY <2>2 DEF Pull, UsbType
    <3> QED BY <2>2, <3>3, <3>4 DEF Pull, UsbType
  <2>3. CASE WriteBack
    <3>1. cache \in DbFiles /\ mounted.stick \in Sticks
      BY <2>3, MountedFiles DEF WriteBack, Alive, UsbType
    <3>2. media' \in [Sticks -> Files]
      BY <2>3, <3>1, PutDb DEF WriteBack
    <3> QED BY <2>3, <3>2 DEF WriteBack, UsbType
  <2> QED BY <1>4, <2>1, <2>2, <2>3 DEF Surroundings, Environment
<1>5. CASE SwitchOff
  <2>1. media' \in [Sticks -> Files] /\ port' \in Plugged \cup {None}
    <3>1. CASE port = None
      BY <1>5, <3>1 DEF SwitchOff, UsbOff, UsbType
    <3>2. CASE port # None
      <4>1. port \in Plugged /\ port.stick \in Sticks
        BY <3>2, StickFiles DEF UsbType
      <4>2. PICK d \in Written(port.stick) : media' = [media EXCEPT ![port.stick].db = d]
        BY <1>5, <3>2 DEF SwitchOff, UsbOff
      <4>3. port' = [port EXCEPT !.letter = "a"]
        BY <1>5, <3>2 DEF SwitchOff, UsbOff
      <4> QED BY <4>1, <4>2, <4>3, WrittenFiles, PutDb DEF Plugged
    <3> QED BY <3>1, <3>2
  <2>2. 1 \in 1..Len(Devices(None))
    BY DevicesToTry
  <2> QED BY <1>5, <2>1, <2>2 DEF SwitchOff, UsbOff, UsbType
<1> QED BY <1>1, <1>2, <1>3, <1>4, <1>5 DEF Next

\* Every step keeps the types of the login and of the place in the program.
LEMMA SessionTypeStep ==
    ASSUME SessionType, MountOK, Next
    PROVE  SessionType'
<1>1. CASE Work
  <2>1. ASSUME NEW name \in Names, EnterUsername(name) PROVE SessionType'
    BY <2>1 DEF EnterUsername, SessionType
  <2>2. CASE Save \/ ClearBill \/ DeleteBill
    BY <2>2 DEF Save, ClearBill, DeleteBill, Change, SessionType, session
  <2> QED
    BY <1>1, <2>1, <2>2
    DEF Work, EnterPassword, EnterWrongPassword, OpenSettings, EnterAdminPassword, DismissWrong,
        LeaveAdmin, DeleteBillThrows, TotalSoldThrows, SessionType, SessionPcs, session
<1>2. CASE Copying
  BY <1>2 DEF Copying, Ask, SessionType, SessionPcs, UsbPcs, session
<1>3. CASE CopyStep
  <2>1. pc' \in SessionPcs
    BY <1>3
    DEF CopyStep, UsbSteps, StartMount, LeaveUsb, Mount, MountFails, MountErrs, CopyRefused, StartCopy,
        Copied, CopyFails, Unmount, UnmountRefused, DismissFailed, Return, SessionPcs, UsbPcs
  <2> QED BY <1>3, <2>1 DEF CopyStep, SessionType, session
<1>4. CASE Surroundings
  BY <1>4 DEF Surroundings, Environment, Insert, Pull, WriteBack, SessionType, session
<1>5. CASE SwitchOff
  BY <1>5 DEF SwitchOff, SessionType
<1> QED BY <1>1, <1>2, <1>3, <1>4, <1>5 DEF Next

-----------------------------------------------------------------------------
(* What is mounted, copied and logged in *)

\* Work at the terminal is no step of a copy and leaves the devices alone.
LEMMA WorkLeavesDevices ==
    ASSUME Work, UsbType, MountOK
    PROVE  /\ UNCHANGED <<media, port, mounted, cache, op, flag, tries, pulled, refused>>
           /\ pc \notin UsbPcs /\ pc' \notin UsbPcs
<1>1. UNCHANGED <<media, port, mounted, cache, op, flag, tries, pulled, refused>>
  <2>1. CASE UNCHANGED usb
    BY <2>1 DEF usb
  <2>2. ASSUME NEW short \in BOOLEAN, Change(short)
        PROVE  UNCHANGED <<media, port, mounted, cache, op, flag, tries, pulled, refused>>
    BY <2>2 DEF Change
  <2> QED BY <2>1, <2>2, WorkCases
<1>2. pc \notin UsbPcs /\ pc' \notin UsbPcs
  BY DEF Work, EnterUsername, EnterPassword, EnterWrongPassword, OpenSettings, EnterAdminPassword,
         DismissWrong, LeaveAdmin, Save, ClearBill, DeleteBill, DeleteBillThrows,
         TotalSoldThrows, Change, UsbPcs
<1> QED BY <1>1, <1>2

\* Every step keeps what is mounted in step with the place in the three functions.
LEMMA MountStep ==
    ASSUME UsbType, MountOK, Next
    PROVE  MountOK'
<1>1. CASE Work
  BY <1>1, WorkLeavesDevices DEF MountOK, UsbPcs, Alive
<1>2. CASE Copying
  <2> PICK o \in Operations : Ask(o)
    BY <1>2 DEF Copying
  <2> QED BY DEF Ask, MountOK, UsbPcs, Alive
<1>3. CASE CopyStep
  <2>1. CASE StartMount \/ MountFails \/ MountErrs
    BY <2>1 DEF StartMount, MountFails, MountErrs, usb, MountOK, UsbPcs, Alive
  <2>2. CASE LeaveUsb \/ DismissFailed
    BY <2>2 DEF LeaveUsb, DismissFailed, Return, MountOK, UsbPcs, Alive
  <2>3. CASE Mount
    BY <2>3 DEF Mount, MountOK, UsbPcs, Alive
  <2>4. CASE CopyRefused \/ CopyFails
    BY <2>4 DEF CopyRefused, CopyFails, usb, MountOK, UsbPcs, Alive
  <2>5. CASE StartCopy
    BY <2>5 DEF StartCopy, MountOK, UsbPcs, Alive
  <2>6. CASE Copied
    BY <2>6 DEF Copied, MountOK, UsbPcs, Alive
  <2>7. CASE Unmount
    <3>1. mounted' = None /\ cache' = None
      BY <2>7 DEF Unmount
    <3>2. pc' = "admin" \/ (pc' = "failed" /\ op' = op /\ pc \in UsbPcs)
      BY <2>7 DEF Unmount, Return, UsbPcs
    <3> QED BY <3>1, <3>2 DEF MountOK, UsbPcs
  <2>8. CASE UnmountRefused
    BY <2>8 DEF UnmountRefused, MountOK, UsbPcs, Alive
  <2> QED
    BY <1>3, <2>1, <2>2, <2>3, <2>4, <2>5, <2>6, <2>7, <2>8 DEF CopyStep, UsbSteps
<1>4. CASE Surroundings
  <2>1. ASSUME NEW s \in Sticks, Insert(s) PROVE MountOK'
    BY <2>1 DEF Insert, MountOK, Alive
  <2>2. CASE Pull
    BY <2>2 DEF Pull, MountOK, Alive
  <2>3. CASE WriteBack
    BY <2>3 DEF WriteBack, MountOK, Alive
  <2> QED BY <1>4, <2>1, <2>2, <2>3 DEF Surroundings, Environment
<1>5. CASE SwitchOff
  BY <1>5 DEF SwitchOff, UsbOff, MountOK, UsbPcs
<1> QED BY <1>1, <1>2, <1>3, <1>4, <1>5 DEF Next

\* Until it is unmounted, the copy stays what its source was.
LEMMA CopyStepOK ==
    ASSUME UsbType, MountOK, CopyOK, Next
    PROVE  CopyOK'
<1>1. CASE Work
  BY <1>1, WorkLeavesDevices DEF CopyOK, UsbPcs
<1>2. CASE Copying
  BY <1>2 DEF Copying, Ask, CopyOK
<1>3. CASE CopyStep
  <2>1. CASE Copied
    <3>1. op \in Operations /\ mounted # None
      BY <2>1 DEF Copied, MountOK, UsbPcs
    <3>2. CASE op = "Export"
      BY <2>1, <3>2 DEF Copied, CopyOK, Source
    <3>3. CASE op = "Import"
      <4>1. Source \in DbFiles /\ Source = StickDb /\ flash' = [flash EXCEPT !.db = Source]
        BY <2>1, <3>1, <3>3, SourceFiles DEF Copied, Source
      <4>2. flash'.db = StickDb
        BY <4>1, FlashDb
      <4>3. StickDb' = StickDb
        BY <2>1, <3>3 DEF Copied, StickDb
      <4> QED BY <2>1, <3>3, <4>2, <4>3 DEF Copied, CopyOK
    <3>4. CASE op = "Upload"
      <4>1. Source \in CfgFiles /\ Source = media[mounted.stick].cfg
        BY <2>1, <3>1, <3>4, SourceFiles DEF Copied, Source, CfgFiles
      <4>2. flash'.cfg = Source
        BY <2>1, <3>4, <4>1, FlashCfg DEF Copied
      <4> QED BY <2>1, <3>4, <4>1, <4>2 DEF Copied, CopyOK
    <3> QED BY <3>1, <3>2, <3>3, <3>4 DEF Operations
  <2>2. CASE ~Copied
    <3>1. pc' # "copied"
      BY <1>3, <2>2
      DEF CopyStep, UsbSteps, StartMount, LeaveUsb, Mount, MountFails, MountErrs, CopyRefused,
          StartCopy, CopyFails, Unmount, UnmountRefused, DismissFailed, Return
    <3> QED BY <3>1 DEF CopyOK
  <2> QED BY <2>1, <2>2
<1>4. CASE Surroundings
  <2>1. ASSUME NEW s \in Sticks, Insert(s) PROVE CopyOK'
    BY <2>1 DEF Insert, CopyOK, StickDb
  <2>2. CASE Pull
    <3>1. SUFFICES ASSUME pc' = "copied", ~pulled' PROVE FALSE
      BY DEF CopyOK
    <3>2. pc = "copied" /\ ~pulled /\ ~Alive
      BY <2>2, <3>1 DEF Pull
    <3> QED BY <3>2 DEF MountOK
  <2>3. CASE WriteBack
    <3>1. SUFFICES ASSUME pc = "copied", ~pulled, pc' = pc, pulled' = pulled PROVE CopyOK'
      BY <2>3 DEF WriteBack, CopyOK
    <3>2. /\ mounted # None /\ mounted' = mounted /\ cache # None /\ cache' = cache
          /\ flash' = flash /\ op' = op /\ op \in Operations
          /\ media' = [media EXCEPT ![mounted.stick].db = cache]
      BY <2>3, <3>1 DEF WriteBack, Alive, MountOK, UsbPcs
    <3>3. StickDb' = StickDb
      BY <3>2 DEF StickDb
    <3>4. media'[mounted.stick].cfg = media[mounted.stick].cfg
      <4>1. media \in [Sticks -> Files] /\ mounted.stick \in Sticks
        BY <3>2, MountedFiles DEF UsbType
      <4>2. media'[mounted.stick] = [media[mounted.stick] EXCEPT !.db = cache]
        BY <3>2, <4>1
      <4> QED BY <4>1, <4>2 DEF Files
    <3> QED BY <3>1, <3>2, <3>3, <3>4 DEF CopyOK, Operations
  <2> QED BY <1>4, <2>1, <2>2, <2>3 DEF Surroundings, Environment
<1>5. CASE SwitchOff
  BY <1>5 DEF SwitchOff, CopyOK
<1> QED BY <1>1, <1>2, <1>3, <1>4, <1>5 DEF Next

\* A copy that does not import keeps the database of the terminal.
LEMMA CopyKeepsDb ==
    ASSUME UsbType, MountOK, SessionOK, CopyStep, ~imported'
    PROVE  flash'.db = flash.db /\ ~imported /\ (op' = "Import" => pc' \notin {"copying", "copied"})
<1>1. ~imported /\ ~(op = "Import" /\ pc' = "copying")
  BY DEF CopyStep, UsbType
<1>2. CASE StartCopy
  <2>1. op \in {"Export", "Upload"} /\ op' = op
    BY <1>1, <1>2 DEF StartCopy, MountOK, UsbPcs, Operations
  <2>2. CASE op = "Export"
    BY <1>1, <1>2, <2>1, <2>2 DEF StartCopy
  <2>3. CASE op = "Upload"
    <3>1. PICK n \in 0..Len(Source) : flash' = [flash EXCEPT !.cfg = SubSeq(Source, 1, n)]
      BY <1>2, <2>3 DEF StartCopy
    <3>2. Source \in Configs
      BY <1>2, <2>3, SourceFiles DEF StartCopy, Operations
    <3> QED BY <1>1, <2>1, <2>3, <3>1, <3>2, ConfigParts, FlashCfg
  <2> QED BY <2>1, <2>2, <2>3
<1>3. CASE Copied
  <2>1. op \in {"Export", "Upload"} /\ op' = op
    BY <1>1, <1>3 DEF Copied, MountOK, SessionOK, UsbPcs, Operations
  <2>2. CASE op = "Export"
    BY <1>1, <1>3, <2>1, <2>2 DEF Copied
  <2>3. CASE op = "Upload"
    <3>1. Source \in CfgFiles /\ flash' = [flash EXCEPT !.cfg = Source]
      BY <1>3, <2>3, SourceFiles DEF Copied, Operations, CfgFiles
    <3> QED BY <1>1, <2>1, <2>3, <3>1, FlashCfg
  <2> QED BY <2>1, <2>2, <2>3
<1>4. CASE ~StartCopy /\ ~Copied
  BY <1>1, <1>4
  DEF CopyStep, UsbSteps, StartMount, LeaveUsb, Mount, MountFails, MountErrs, CopyRefused,
      CopyFails, Unmount, UnmountRefused, DismissFailed, Return, usb
<1> QED BY <1>2, <1>3, <1>4

\* The accounts are those of the database.
LEMMA SameDbSameAccounts ==
    ASSUME flash'.db = flash.db
    PROVE  Readable' = Readable /\ Accounts' = Accounts
BY DEF Readable, Accounts

\* Saving and clearing bills leaves the accounts alone.
LEMMA ChangeKeepsAccounts ==
    ASSUME UsbType, NEW short \in BOOLEAN, Change(short)
    PROVE  /\ Readable' /\ Accounts' = Accounts
           /\ flash'.db.short = short /\ flash'.db.items = flash.db.items
<1>1. /\ Readable /\ Readable' /\ flash'.db.accounts = flash.db.accounts
      /\ flash'.db.short = short /\ flash'.db.items = flash.db.items
  BY ChangeKeeps DEF Change
<1> QED BY <1>1 DEF Accounts

LoginOK == SessionOK /\ OnlyImportsHarm

\* Every step but the start of an Import keeps the login one of the database.
LEMMA LoginStep ==
    ASSUME UsbType, MountOK, LoginOK, Next
    PROVE  LoginOK'
<1> SUFFICES ASSUME ~imported' PROVE LoginOK'
  BY DEF LoginOK, SessionOK, OnlyImportsHarm
<1>1. CASE Work
  <2>1. ~imported /\ op' = op /\ pc' \notin UsbPcs
    <3>1. imported' = imported
      BY <1>1
      DEF Work, EnterUsername, EnterPassword, EnterWrongPassword, OpenSettings, EnterAdminPassword,
          DismissWrong, LeaveAdmin, Save, ClearBill, DeleteBill, DeleteBillThrows,
         TotalSoldThrows, Change
    <3> QED BY <1>1, <3>1, WorkLeavesDevices
  <2>2. ASSUME NEW name \in Names, EnterUsername(name) PROVE LoginOK'
    <3>1. flash' = flash
      BY <2>2 DEF EnterUsername, usb
    <3> QED
      BY <2>1, <2>2, <3>1, SameDbSameAccounts
      DEF EnterUsername, LoginOK, SessionOK, OnlyImportsHarm, SessionPcs, UsbPcs
  <2>3. CASE EnterPassword
    <3>1. flash' = flash /\ pc' = "main" /\ gUserId' = user
      BY <2>3 DEF EnterPassword, usb
    <3>2. user \in {NameOf(u) : u \in Accounts}
      BY <2>1, <2>3 DEF EnterPassword, LoginOK, SessionOK
    <3> QED
      BY <2>1, <3>1, <3>2, SameDbSameAccounts
      DEF LoginOK, SessionOK, OnlyImportsHarm
  <2>4. CASE EnterWrongPassword
    <3>1. flash' = flash /\ pc' = "username"
      BY <2>4 DEF EnterWrongPassword, usb
    <3> QED
      BY <2>1, <3>1, SameDbSameAccounts
      DEF LoginOK, SessionOK, OnlyImportsHarm, SessionPcs, UsbPcs
  <2>5. CASE OpenSettings \/ EnterAdminPassword \/ DismissWrong \/ LeaveAdmin
    <3>1. /\ flash' = flash /\ gUserId' = gUserId
          /\ pc \in SessionPcs /\ pc' \in {"main", "admin", "adminPassword", "wrongPassword"}
      BY <2>5
      DEF OpenSettings, EnterAdminPassword, DismissWrong, LeaveAdmin, usb, session, SessionPcs
    <3> QED
      BY <2>1, <3>1, SameDbSameAccounts DEF LoginOK, SessionOK, OnlyImportsHarm
  <2>6. CASE Save \/ ClearBill \/ DeleteBill
    <3>1. /\ gUserId' = gUserId /\ pc' = pc /\ pc \in {"main", "admin"}
          /\ \E short \in {FALSE} : Change(short)
      <4>1. ~flash.db.short
        BY <2>1 DEF LoginOK, SessionOK
      <4>2. /\ Change(FALSE) \/ Change(flash.db.short)
            /\ pc \in {"main", "admin"}
        BY <2>6 DEF Save, ClearBill, DeleteBill
      <4>3. Change(flash.db.short) \/ Change(FALSE) => gUserId' = gUserId /\ pc' = pc
        BY DEF Change, session
      <4>4. flash.db.short = FALSE
        BY <4>1, <4>2 DEF Change, Readable, UsbType, Files, DbFiles, Databases
      <4> QED BY <4>2, <4>3, <4>4
    <3>2. Readable' /\ Accounts' = Accounts /\ ~flash'.db.short /\ flash'.db.items = flash.db.items
      BY <3>1, ChangeKeepsAccounts
    <3>3. flash.db.items
      BY <2>1 DEF LoginOK, SessionOK
    <3> QED
      BY <2>1, <3>1, <3>2, <3>3 DEF LoginOK, SessionOK, OnlyImportsHarm, SessionPcs
  <2>7. ~DeleteBillThrows /\ ~TotalSoldThrows
    BY <2>1 DEF DeleteBillThrows, TotalSoldThrows, LoginOK, SessionOK
  <2> QED BY <1>1, <2>2, <2>3, <2>4, <2>5, <2>6, <2>7 DEF Work
<1>2. CASE Copying
  <2>1. /\ flash' = flash /\ gUserId' = gUserId /\ ~imported
        /\ pc = "admin" /\ pc' = "insert"
    BY <1>2 DEF Copying, Ask, session
  <2> QED BY <2>1, SameDbSameAccounts DEF LoginOK, SessionOK, OnlyImportsHarm, SessionPcs
<1>3. CASE CopyStep
  <2>1. flash'.db = flash.db /\ ~imported /\ (op' = "Import" => pc' \notin {"copying", "copied"})
    BY <1>3, CopyKeepsDb DEF LoginOK
  <2>2. gUserId' = gUserId /\ pc \in SessionPcs /\ pc' \in UsbPcs \cup {"admin"}
    BY <1>3
    DEF CopyStep, UsbSteps, StartMount, LeaveUsb, Mount, MountFails, MountErrs, CopyRefused, StartCopy,
        Copied, CopyFails, Unmount, UnmountRefused, DismissFailed, Return, SessionPcs, UsbPcs, session
  <2>3. pc' \notin {"password", "ended"}
    BY <2>2 DEF UsbPcs
  <2> QED
    BY <2>1, <2>2, <2>3, SameDbSameAccounts DEF LoginOK, SessionOK, OnlyImportsHarm
<1>4. CASE Surroundings
  <2>1. /\ flash' = flash /\ op' = op /\ pc' = pc
        /\ user' = user /\ gUserId' = gUserId /\ imported' = imported
    BY <1>4 DEF Surroundings, Environment, Insert, Pull, WriteBack, session
  <2> QED BY <2>1, SameDbSameAccounts DEF LoginOK, SessionOK, OnlyImportsHarm
<1>5. CASE SwitchOff
  <2>1. /\ flash' = flash /\ ~imported /\ op' = None
        /\ pc' \in {"username", "shutdown"}
    BY <1>5 DEF SwitchOff, UsbOff
  <2> QED
    BY <2>1, SameDbSameAccounts DEF LoginOK, SessionOK, OnlyImportsHarm, SessionPcs, UsbPcs
<1> QED BY <1>1, <1>2, <1>3, <1>4, <1>5 DEF Next

-----------------------------------------------------------------------------
(* Theorems *)

\* The invariant is what the sections above proved one by one.
LEMMA IInvParts == IInv <=> UsbType /\ SessionType /\ MountOK /\ CopyOK /\ LoginOK
<1>1. MountOK => SafeToRemove
  BY DEF MountOK, SafeToRemove, UsbPcs
<1> QED BY <1>1, TypeParts DEF IInv, LoginOK

\* And so it is after a step.
LEMMA IInvPartsNext == UsbType' /\ SessionType' /\ MountOK' /\ CopyOK' /\ LoginOK' => IInv'
BY IInvParts, PTL

\* It holds when the terminal is delivered.
LEMMA InitIInv == ASSUME Init PROVE IInv
<1>1. UsbType
  <2>1. 1 \in 1..Len(Devices(None))
    BY DevicesToTry
  <2> QED BY <2>1, DeliveredAssumption DEF Init, UsbInit, UsbType
<1>2. SessionType /\ MountOK /\ CopyOK
  BY DEF Init, UsbInit, SessionType, MountOK, CopyOK, UsbPcs
<1>3. LoginOK
  BY DeliveredAssumption, ContentAssumption
  DEF Init, UsbInit, LoginOK, SessionOK, OnlyImportsHarm, Readable, SessionPcs, UsbPcs
<1> QED BY <1>1, <1>2, <1>3, IInvParts

\* It holds when nothing happens.
LEMMA StutterIInv == ASSUME IInv, UNCHANGED vars PROVE IInv'
<1>1. UNCHANGED <<usb, user, gUserId, pc, imported>>
  BY DEF vars, session
<1>2. UsbType' /\ SessionType'
  BY <1>1, IInvParts DEF usb, UsbType, SessionType
<1>3. MountOK'
  BY <1>1, IInvParts DEF usb, MountOK, Alive
<1>4. CopyOK'
  BY <1>1, IInvParts DEF usb, CopyOK, StickDb
<1>5. LoginOK'
  <2>1. flash' = flash
    BY <1>1 DEF usb
  <2> QED
    BY <1>1, <2>1, IInvParts, SameDbSameAccounts DEF usb, LoginOK, SessionOK, OnlyImportsHarm
<1> QED BY <1>2, <1>3, <1>4, <1>5, IInvPartsNext

\* The inductive invariant: the types, what is mounted, what was copied and who
\* is logged in.
THEOREM Invariance == Spec => []IInv
<1>1. Init => IInv
  BY InitIInv
<1>2. IInv /\ [Next]_vars => IInv'
  <2> SUFFICES ASSUME IInv, [Next]_vars PROVE IInv'
    OBVIOUS
  <2>1. CASE Next
    <3>1. UsbType' /\ SessionType' /\ MountOK' /\ CopyOK' /\ LoginOK'
      BY <2>1, IInvParts, UsbTypeStep, SessionTypeStep, MountStep, CopyStepOK, LoginStep
    <3> QED BY <3>1, IInvPartsNext
  <2>2. CASE UNCHANGED vars
    BY <2>2, StutterIInv
  <2> QED BY <2>1, <2>2
<1> QED BY <1>1, <1>2, PTL DEF Spec

\* Every variable keeps its type: no copy and no power cut leaves a file or a
\* device in a state the program does not know.
THEOREM TypeCorrect == Spec => []TypeOK
<1>1. IInv => TypeOK
  BY DEF IInv
<1> QED BY <1>1, Invariance, PTL

\* When no copy runs, a stick can be pulled, unless umount was refused.
THEOREM SticksAreSafe == Spec => []SafeToRemove
<1>1. IInv => SafeToRemove
  BY DEF IInv
<1> QED BY <1>1, Invariance, PTL

\* Until the first Import the database can be read, the login is one of its
\* accounts and the program runs.
THEOREM ImportsAlone == Spec => []OnlyImportsHarm
<1>1. IInv => OnlyImportsHarm
  BY DEF IInv
<1> QED BY <1>1, Invariance, PTL

\* A copy that ends without a message of failure is on its target.
THEOREM CopiesArrive == Spec => CopyIsDelivered
<1> DEFINE Delivered ==
      pc = "copied" /\ pc' = "admin" /\ ~pulled =>
          LET stick == media'[mounted.stick]
          IN  IF op = "Upload" THEN flash'.cfg = stick.cfg ELSE flash'.db = stick.db
<1>1. IInv /\ [Next]_vars => [Delivered]_vars
  <2> SUFFICES ASSUME IInv, Next, pc = "copied", pc' = "admin", ~pulled PROVE Delivered
    OBVIOUS
  <2>1. Unmount
    BY DEF Next, Work, EnterUsername, EnterPassword, EnterWrongPassword, OpenSettings,
           EnterAdminPassword, DismissWrong, LeaveAdmin, Save, ClearBill, DeleteBill, DeleteBillThrows,
           TotalSoldThrows, Change, Copying, Ask, CopyStep, UsbSteps, StartMount, LeaveUsb, Mount, MountFails,
           MountErrs, CopyRefused, StartCopy, Copied, CopyFails, UnmountRefused, DismissFailed,
           Surroundings, Environment, Insert, Pull, WriteBack, SwitchOff
  <2>2. mounted # None /\ Alive /\ op \in Operations /\ flash' = flash
    BY <2>1, IInvParts DEF MountOK, UsbPcs, Unmount
  <2>3. mounted.stick \in Sticks /\ media \in [Sticks -> Files]
    BY <2>2, IInvParts, MountedFiles DEF UsbType
  <2>4. media'[mounted.stick].db = StickDb /\ media'[mounted.stick].cfg = media[mounted.stick].cfg
    <3>1. CASE cache # None
      <4>1. media' = [media EXCEPT ![mounted.stick].db = cache]
        BY <2>1, <2>2, <3>1 DEF Unmount
      <4>2. media'[mounted.stick] = [media[mounted.stick] EXCEPT !.db = cache]
        BY <2>3, <4>1
      <4> QED BY <2>3, <3>1, <4>2 DEF StickDb, Files
    <3>2. CASE cache = None
      BY <2>1, <3>2 DEF Unmount, StickDb
    <3> QED BY <3>1, <3>2
  <2>5. CASE op = "Export"
    <3>1. cache = flash.db /\ flash.db \in DbFiles
      BY <2>5, IInvParts DEF CopyOK, UsbType, Files
    <3>2. StickDb = cache
      BY <3>1, NoneIsNoContent DEF StickDb
    <3> QED BY <2>2, <2>4, <2>5, <3>1, <3>2
  <2>6. CASE op = "Import"
    BY <2>2, <2>4, <2>6, IInvParts DEF CopyOK
  <2>7. CASE op = "Upload"
    BY <2>2, <2>4, <2>7, IInvParts DEF CopyOK
  <2> QED BY <2>2, <2>5, <2>6, <2>7 DEF Operations
<1> QED BY <1>1, Invariance, PTL DEF Spec, CopyIsDelivered


-----------------------------------------------------------------------------
(* The configuration file *)

\* The state of the loop of ParseFromFile after n lines.
ReadRow(G, file, n) ==
    IF n = 0 THEN [dat |-> NoData, ended |-> FALSE] ELSE Read(G[n - 1], file[n])

\* There is such a state for each line of the file.
LEMMA LoopExists ==
    ASSUME NEW file, Len(file) \in Nat
    PROVE  \E G : G = [n \in 0..Len(file) |-> ReadRow(G, file, n)]
<1> DEFINE Up(G, k) == G = [n \in 0..k |-> ReadRow(G, file, n)]
           Good == {k \in Nat : \E G : Up(G, k)}
<1>1. 0 \in Good
  <2> DEFINE G == [n \in 0..0 |-> [dat |-> NoData, ended |-> FALSE]]
  <2>1. Up(G, 0)
    BY DEF ReadRow
  <2> QED BY <2>1
<1>2. ASSUME NEW k \in Nat, k \in Good PROVE k + 1 \in Good
  <2>1. PICK G : Up(G, k)
    BY <1>2
  <2> DEFINE H == [n \in 0..(k + 1) |-> IF n = k + 1 THEN ReadRow(G, file, k + 1) ELSE G[n]]
  <2>2. \A n \in 0..k : H[n] = G[n] /\ G[n] = ReadRow(G, file, n)
    BY <2>1
  <2>3. H[k + 1] = ReadRow(G, file, k + 1) /\ H = [n \in 0..(k + 1) |-> H[n]]
    OBVIOUS
  <2> HIDE DEF H
  <2>4. \A n \in 0..(k + 1) : ReadRow(H, file, n) = ReadRow(G, file, n)
    BY <2>2 DEF ReadRow
  <2>5. \A n \in 0..(k + 1) : H[n] = ReadRow(H, file, n)
    BY <2>2, <2>3, <2>4
  <2>6. Up(H, k + 1)
    BY <2>3, <2>5
  <2> QED BY <2>6
<1> HIDE DEF Good
<1>3. Nat \subseteq Good
  BY <1>1, <1>2, InductionOnNat
<1> QED BY <1>3 DEF Good

\* The lines above line n, and that one, that give a value to k.
LinesUpto(file, k, n) == LinesOf(file, k) \cap (1..n)

\* The data after n lines: the last value of each key, and whether an empty
\* line was among them.
DataAfter(file, n, d, e) ==
    /\ e <=> \E j \in 1..n : file[j] = EmptyLine
    /\ d = [k \in DOMAIN d |-> d[k]]
    /\ \A k \in Keys :
          /\ k \in DOMAIN d <=> LinesUpto(file, k, n) # {}
          /\ k \in DOMAIN d => \E i \in LinesUpto(file, k, n) :
                /\ \A j \in LinesUpto(file, k, n) : j <= i
                /\ d[k] = file[i].value

StateAfter(s, file, n) ==
    /\ s = [dat |-> s.dat, ended |-> s.ended]
    /\ s.ended \in BOOLEAN
    /\ DataAfter(file, n, s.dat, s.ended)

\* A state is what its two fields are.
LEMMA StateIs ==
    ASSUME NEW file, NEW n, NEW d, NEW e \in BOOLEAN, DataAfter(file, n, d, e)
    PROVE  StateAfter([dat |-> d, ended |-> e], file, n)
<1> DEFINE s == [dat |-> d, ended |-> e]
<1>1. s.dat = d /\ s.ended = e
  OBVIOUS
<1>2. s = [dat |-> s.dat, ended |-> s.ended]
  BY <1>1
<1> HIDE DEF s
<1>3. DataAfter(file, n, s.dat, s.ended)
  BY <1>1
<1>4. s.ended \in BOOLEAN
  BY <1>1
<1>5. StateAfter(s, file, n)
  BY <1>2, <1>3, <1>4 DEF StateAfter
<1> QED BY <1>5 DEF s

\* A line keeps that so.
LEMMA LineRead ==
    ASSUME NEW file, Len(file) \in Nat, DOMAIN file = 1..Len(file),
           NEW n \in Nat, n + 1 <= Len(file), NEW s, StateAfter(s, file, n)
    PROVE  StateAfter(Read(s, file[n + 1]), file, n + 1)
<1> DEFINE line == file[n + 1]
<1>s. PICK d, e : s = [dat |-> d, ended |-> e] /\ e \in BOOLEAN /\ DataAfter(file, n, d, e)
  BY DEF StateAfter
<1>d. 1..(n + 1) = (1..n) \cup {n + 1} /\ n + 1 \in DOMAIN file
  OBVIOUS
<1>1. CASE e \/ line = EmptyLine
  <2>1. Read(s, line) = [dat |-> d, ended |-> TRUE]
    BY <1>s, <1>1 DEF Read
  <2>2. \E j \in 1..(n + 1) : file[j] = EmptyLine
    BY <1>s, <1>1, <1>d DEF DataAfter
  <2>3. \A k : LinesUpto(file, k, n + 1) = LinesUpto(file, k, n)
    BY <1>d, <2>2 DEF LinesUpto, LinesOf
  <2>4. DataAfter(file, n + 1, d, TRUE)
    BY <1>s, <2>2, <2>3 DEF DataAfter
  <2> QED BY <2>1, <2>4, StateIs
<1>2. CASE ~e /\ line # EmptyLine
  <2> DEFINE f == Add(d, line)
             gives == line.key # NoKey /\ line.value # Blank
  <2>1. Read(s, line) = [dat |-> f, ended |-> e]
    BY <1>s, <1>2 DEF Read
  <2>2. \A j \in 1..(n + 1) : file[j] # EmptyLine
    BY <1>s, <1>2, <1>d DEF DataAfter
  <2>3. \A k \in Keys : LinesUpto(file, k, n + 1) =
            LinesUpto(file, k, n) \cup IF gives /\ k = line.key THEN {n + 1} ELSE {}
    <3> TAKE k \in Keys
    <3>1. k # NoKey
      BY ConfigAssumption
    <3>2. n + 1 \in LinesOf(file, k) <=> gives /\ k = line.key
      BY <2>2, <3>1, <1>d DEF LinesOf
    <3> QED BY <3>2, <1>d DEF LinesUpto
  <2>4. /\ f = [k \in DOMAIN f |-> f[k]]
        /\ gives => /\ DOMAIN f = DOMAIN d \cup {line.key}
                    /\ \A k \in DOMAIN f : f[k] = IF k = line.key THEN line.value ELSE d[k]
        /\ ~gives => f = d
    <3>1. CASE gives
      <4>1. f = [k \in DOMAIN d \cup {line.key} |-> IF k = line.key THEN line.value ELSE d[k]]
        BY <3>1 DEF Add, Put
      <4> QED BY <3>1, <4>1
    <3>2. CASE ~gives
      BY <1>s, <3>2 DEF Add, DataAfter
    <3> QED BY <3>1, <3>2
  <2> HIDE DEF f
  <2>5. \A k : LinesUpto(file, k, n) \subseteq 1..n
    BY DEF LinesUpto
  <2>6. ASSUME NEW k \in Keys
        PROVE  /\ k \in DOMAIN f <=> LinesUpto(file, k, n + 1) # {}
               /\ k \in DOMAIN f => \E i \in LinesUpto(file, k, n + 1) :
                     /\ \A j \in LinesUpto(file, k, n + 1) : j <= i
                     /\ f[k] = file[i].value
    <3>1. CASE gives /\ k = line.key
      <4>1. n + 1 \in LinesUpto(file, k, n + 1) /\ \A j \in LinesUpto(file, k, n + 1) : j <= n + 1
        BY <2>3, <2>5, <3>1
      <4>2. k \in DOMAIN f /\ f[k] = file[n + 1].value
        BY <2>4, <3>1
      <4> QED BY <4>1, <4>2
    <3>2. CASE ~(gives /\ k = line.key)
      <4>1. LinesUpto(file, k, n + 1) = LinesUpto(file, k, n)
        BY <2>3, <3>2
      <4>2. (k \in DOMAIN f <=> k \in DOMAIN d) /\ (k \in DOMAIN f => f[k] = d[k])
        BY <2>4, <3>2
      <4> QED BY <1>s, <4>1, <4>2 DEF DataAfter
    <3> QED BY <3>1, <3>2
  <2>7. e <=> \E j \in 1..(n + 1) : file[j] = EmptyLine
    BY <1>2, <2>2
  <2>8. DataAfter(file, n + 1, f, e)
    BY <2>4, <2>6, <2>7 DEF DataAfter
  <2> QED BY <1>s, <2>1, <2>8, StateIs
<1> QED BY <1>1, <1>2

\* What ParseFromFile returns: the last value of each key that is given one.
LEMMA ParsedData ==
    ASSUME NEW file, file # Missing, Len(file) \in Nat, DOMAIN file = 1..Len(file)
    PROVE  \A k \in Keys :
              /\ k \in DOMAIN ParseFromFile(file) <=> LinesOf(file, k) # {}
              /\ LinesOf(file, k) # {} => ParseFromFile(file)[k] = file[Max(LinesOf(file, k))].value
<1> DEFINE N == Len(file)
           Is(G) == G = [n \in 0..Len(file) |-> ReadRow(G, file, n)]
           after == CHOOSE G : Is(G)
<1>1. Is(after)
  <2>1. \E G : Is(G)
    BY LoopExists
  <2> QED BY <2>1
<1>2. ParseFromFile(file) = after[N].dat
  BY DEF ParseFromFile, ReadRow
<1> HIDE DEF after
<1>3. \A n \in 0..N : after[n] = ReadRow(after, file, n)
  BY <1>1
<1> DEFINE Good == {n \in Nat : n <= N => StateAfter(after[n], file, n)}
<1>4. 0 \in Good
  <2>1. after[0] = [dat |-> NoData, ended |-> FALSE]
    <3>1. 0 \in 0..N
      OBVIOUS
    <3> QED BY <1>3, <3>1 DEF ReadRow
  <2>2. DataAfter(file, 0, NoData, FALSE)
    <3>1. \A k : LinesUpto(file, k, 0) = {}
      BY DEF LinesUpto
    <3> QED BY <3>1 DEF DataAfter, NoData
  <2>3. StateAfter(after[0], file, 0)
    BY <2>1, <2>2, StateIs
  <2> QED BY <2>3
<1>5. ASSUME NEW n \in Nat, n \in Good PROVE n + 1 \in Good
  <2> SUFFICES ASSUME n + 1 <= N PROVE StateAfter(after[n + 1], file, n + 1)
    OBVIOUS
  <2>1. StateAfter(after[n], file, n)
    BY <1>5
  <2>2. after[n + 1] = Read(after[n], file[n + 1])
    <3>1. n + 1 \in 0..N /\ n + 1 # 0 /\ (n + 1) - 1 = n
      OBVIOUS
    <3> QED BY <1>3, <3>1 DEF ReadRow
  <2> QED BY <2>1, <2>2, LineRead
<1>6. N \in Good
  <2> HIDE DEF Good
  <2>1. Nat \subseteq Good
    BY <1>4, <1>5, InductionOnNat
  <2> QED BY <2>1
<1>7. DataAfter(file, N, after[N].dat, after[N].ended)
  BY <1>6 DEF StateAfter
<1>8. \A k : LinesUpto(file, k, N) = LinesOf(file, k)
  BY DEF LinesUpto, LinesOf
<1>9. ASSUME NEW k \in Keys, NEW i \in LinesOf(file, k), \A j \in LinesOf(file, k) : j <= i
      PROVE  i = Max(LinesOf(file, k))
  <2>1. \A j \in LinesOf(file, k) : j \in Int
    BY DEF LinesOf
  <2>2. \A j \in LinesOf(file, k) : i >= j
    BY <1>9, <2>1
  <2>3. \A x \in LinesOf(file, k) : (\A y \in LinesOf(file, k) : x >= y) => x = i
    BY <1>9, <2>1
  <2> QED BY <2>2, <2>3 DEF Max
<1> QED BY <1>2, <1>7, <1>8, <1>9 DEF DataAfter


\* What is printed after n keys.
HeadRow(G, dat, n) == IF n = 0 THEN <<>> ELSE appendToIfFound(G[n - 1], dat, HeadingKeys[n])

\* There is such a text for each key.
LEMMA TextExists ==
    ASSUME NEW dat
    PROVE  \E G : G = [n \in 0..Len(HeadingKeys) |-> HeadRow(G, dat, n)]
<1> DEFINE Up(G, k) == G = [n \in 0..k |-> HeadRow(G, dat, n)]
           Good == {k \in Nat : \E G : Up(G, k)}
<1>1. 0 \in Good
  <2> DEFINE G == [n \in 0..0 |-> <<>>]
  <2>1. Up(G, 0)
    BY DEF HeadRow
  <2> QED BY <2>1
<1>2. ASSUME NEW k \in Nat, k \in Good PROVE k + 1 \in Good
  <2>1. PICK G : Up(G, k)
    BY <1>2
  <2> DEFINE H == [n \in 0..(k + 1) |-> IF n = k + 1 THEN HeadRow(G, dat, k + 1) ELSE G[n]]
  <2>2. \A n \in 0..k : H[n] = G[n] /\ G[n] = HeadRow(G, dat, n)
    BY <2>1
  <2>3. H[k + 1] = HeadRow(G, dat, k + 1) /\ H = [n \in 0..(k + 1) |-> H[n]]
    OBVIOUS
  <2> HIDE DEF H
  <2>4. \A n \in 0..(k + 1) : HeadRow(H, dat, n) = HeadRow(G, dat, n)
    BY <2>2 DEF HeadRow
  <2>5. \A n \in 0..(k + 1) : H[n] = HeadRow(H, dat, n)
    <3>1. \A n \in 0..(k + 1) : n \in 0..k \/ n = k + 1
      OBVIOUS
    <3>2. \A n \in 0..(k + 1) : H[n] = HeadRow(G, dat, n)
      BY <2>2, <2>3, <3>1
    <3> QED BY <2>4, <3>2
  <2>6. Up(H, k + 1)
    BY <2>3, <2>5
  <2> QED BY <2>6
<1> HIDE DEF Good
<1>3. Nat \subseteq Good
  BY <1>1, <1>2, InductionOnNat
<1>4. Len(HeadingKeys) \in Nat
  BY ConfigAssumption
<1> QED BY <1>3, <1>4 DEF Good

\* How many of some places are among the first n.
Count(places, n) == Cardinality(places \cap (1..n))

\* It grows by one at each place.
LEMMA CountNext ==
    ASSUME NEW places, NEW n \in Nat
    PROVE  /\ Count(places, n) \in Nat /\ Count(places, 0) = 0
           /\ n + 1 \in places => Count(places, n + 1) = Count(places, n) + 1
           /\ n + 1 \notin places => Count(places, n + 1) = Count(places, n)
<1>1. IsFiniteSet(places \cap (1..n))
  <2>1. IsFiniteSet(1..n) /\ places \cap (1..n) \subseteq 1..n
    BY FS_Interval
  <2> QED BY <2>1, FS_Subset
<1>2. Count(places, n) \in Nat
  BY <1>1, FS_CardinalityType DEF Count
<1>3. Count(places, 0) = 0
  <2>1. places \cap (1..0) = {}
    OBVIOUS
  <2> QED BY <2>1, FS_EmptySet DEF Count
<1>4. 1..(n + 1) = (1..n) \cup {n + 1} /\ n + 1 \notin 1..n
  OBVIOUS
<1>5. CASE n + 1 \in places
  <2>1. places \cap (1..(n + 1)) = (places \cap (1..n)) \cup {n + 1}
    BY <1>4, <1>5
  <2>2. Count(places, n + 1) = Count(places, n) + 1
    BY <1>1, <1>4, <2>1, FS_AddElement DEF Count
  <2> QED BY <1>2, <1>3, <1>5, <2>2
<1>6. CASE n + 1 \notin places
  <2>1. places \cap (1..(n + 1)) = places \cap (1..n)
    BY <1>4, <1>6
  <2> QED BY <1>2, <1>3, <1>6, <2>1 DEF Count
<1> QED BY <1>5, <1>6

\* The count does not fall.
LEMMA CountGrows ==
    ASSUME NEW places, NEW m \in Nat, NEW n \in Nat, m <= n
    PROVE  Count(places, m) <= Count(places, n)
<1>1. IsFiniteSet(places \cap (1..n))
  <2>1. IsFiniteSet(1..n) /\ places \cap (1..n) \subseteq 1..n
    BY FS_Interval
  <2> QED BY <2>1, FS_Subset
<1>2. places \cap (1..m) \subseteq places \cap (1..n)
  OBVIOUS
<1> QED BY <1>1, <1>2, FS_Subset DEF Count

\* A place is the one that its count says.
LEMMA NthIs ==
    ASSUME NEW places \in SUBSET (Nat \ {0}), NEW m \in Nat, m + 1 \in places
    PROVE  Nth(places, Count(places, m) + 1) = m + 1
<1>1. Cardinality(places \cap (1..(m + 1))) = Count(places, m) + 1 /\ Count(places, m) \in Nat
  BY CountNext DEF Count
<1>2. ASSUME NEW i \in places, Cardinality(places \cap (1..i)) = Count(places, m) + 1 PROVE i = m + 1
  <2>1. Count(places, i) = Count(places, m) + 1
    BY <1>2 DEF Count
  <2>2. i \in Nat /\ i - 1 \in Nat /\ (i - 1) + 1 = i
    OBVIOUS
  <2>3. CASE i < m + 1
    BY <1>1, <2>1, <2>2, <2>3, CountGrows
  <2>4. CASE i > m + 1
    <3>1. Count(places, i) = Count(places, i - 1) + 1
      BY <2>2, CountNext
    <3>2. Count(places, m + 1) <= Count(places, i - 1) /\ Count(places, i - 1) \in Nat
      BY <2>2, <2>4, CountGrows, CountNext
    <3>3. Count(places, m + 1) = Count(places, m) + 1
      BY CountNext
    <3> QED BY <1>1, <2>1, <3>1, <3>2, <3>3
  <2> QED BY <2>2, <2>3, <2>4
<1> QED BY <1>1, <1>2 DEF Nth

\* What is printed are the values of the keys that have one, in the order of the
\* keys.
LEMMA HeadingIs ==
    ASSUME NEW dat, NEW places, places = {i \in DOMAIN HeadingKeys : HeadingKeys[i] \in DOMAIN dat}
    PROVE  Heading(dat) = [n \in 1..Cardinality(places) |-> dat[HeadingKeys[Nth(places, n)]]]
<1> DEFINE N == Len(HeadingKeys)
           Is(G) == G = [n \in 0..Len(HeadingKeys) |-> HeadRow(G, dat, n)]
           text == CHOOSE G : Is(G)
           Printed(m) == [n \in 1..Count(places, m) |-> dat[HeadingKeys[Nth(places, n)]]]
<1>1. Is(text)
  <2>1. \E G : Is(G)
    BY TextExists
  <2> QED BY <2>1
<1>2. Heading(dat) = text[N]
  BY DEF Heading, HeadRow
<1> HIDE DEF text
<1>3. \A n \in 0..N : text[n] = HeadRow(text, dat, n)
  BY <1>1
<1>4. N \in Nat /\ DOMAIN HeadingKeys = 1..N /\ places \in SUBSET (Nat \ {0})
  BY ConfigAssumption
<1> DEFINE Good == {n \in Nat : n <= N => text[n] = Printed(n)}
<1>5. 0 \in Good
  <2>1. text[0] = <<>>
    <3>1. 0 \in 0..N
      BY <1>4
    <3> QED BY <1>3, <3>1 DEF HeadRow
  <2>2. Count(places, 0) = 0
    BY CountNext
  <2>3. Printed(0) = <<>>
    <3>1. Printed(0) = [n \in 1..0 |-> dat[HeadingKeys[Nth(places, n)]]]
      BY <2>2
    <3> DEFINE value == [n \in 1..0 |-> dat[HeadingKeys[Nth(places, n)]]]
    <3>2. value \in Seq({}) /\ Len(value) = 0
      OBVIOUS
    <3> QED BY <3>1, <3>2
  <2> QED BY <2>1, <2>3
<1>6. ASSUME NEW m \in Nat, m \in Good PROVE m + 1 \in Good
  <2> SUFFICES ASSUME m + 1 <= N PROVE text[m + 1] = Printed(m + 1)
    OBVIOUS
  <2>1. text[m] = Printed(m)
    BY <1>4, <1>6
  <2>2. text[m + 1] = appendToIfFound(text[m], dat, HeadingKeys[m + 1])
    <3>1. m + 1 \in 0..N /\ m + 1 # 0 /\ (m + 1) - 1 = m
      BY <1>4
    <3> QED BY <1>3, <3>1 DEF HeadRow
  <2>3. PICK c \in Nat : c = Count(places, m)
    BY CountNext
  <2>4. CASE HeadingKeys[m + 1] \in DOMAIN dat
    <3>1. m + 1 \in places
      BY <1>4, <2>4
    <3>2. Count(places, m + 1) = c + 1 /\ Nth(places, c + 1) = m + 1
      BY <1>4, <2>3, <3>1, CountNext, NthIs
    <3>3. text[m + 1] = Append(Printed(m), dat[HeadingKeys[m + 1]])
      BY <2>1, <2>2, <2>4 DEF appendToIfFound
    <3>4. Printed(m + 1) = [n \in 1..(c + 1) |-> dat[HeadingKeys[Nth(places, n)]]]
      BY <3>2
    <3>5. Printed(m) = [n \in 1..c |-> dat[HeadingKeys[Nth(places, n)]]]
      BY <2>3
    <3> HIDE DEF Printed
    <3> DEFINE value == [n \in 1..(c + 1) |-> dat[HeadingKeys[Nth(places, n)]]]
    <3>6. Append([n \in 1..c |-> value[n]], value[c + 1]) = value
      OBVIOUS
    <3>7. [n \in 1..c |-> value[n]] = Printed(m) /\ value[c + 1] = dat[HeadingKeys[m + 1]]
      BY <3>2, <3>5
    <3> QED BY <3>3, <3>4, <3>6, <3>7
  <2>5. CASE HeadingKeys[m + 1] \notin DOMAIN dat
    <3>1. m + 1 \notin places
      BY <2>5
    <3>2. Count(places, m + 1) = Count(places, m)
      BY <3>1, CountNext
    <3> QED BY <2>1, <2>2, <2>5, <3>2 DEF appendToIfFound
  <2> QED BY <2>4, <2>5
<1>7. N \in Good
  <2> HIDE DEF Good
  <2>1. Nat \subseteq Good
    BY <1>5, <1>6, InductionOnNat
  <2> QED BY <1>4, <2>1
<1>8. text[N] = Printed(N)
  BY <1>4, <1>7
<1>9. Count(places, N) = Cardinality(places)
  <2>1. places \cap (1..N) = places
    BY <1>4
  <2> QED BY <2>1 DEF Count
<1> QED BY <1>2, <1>8, <1>9

\* The n-th place is one of the places.
LEMMA NthIn ==
    ASSUME NEW c \in Nat, NEW places \in SUBSET (1..c), NEW n \in 1..Cardinality(places)
    PROVE  Nth(places, n) \in places
<1> DEFINE Good == {m \in Nat : \A k \in 1..Count(places, m) : \E i \in places : Count(places, i) = k}
<1>1. 0 \in Good
  BY CountNext
<1>2. ASSUME NEW m \in Nat, m \in Good PROVE m + 1 \in Good
  <2>1. PICK d \in Nat : d = Count(places, m)
    BY CountNext
  <2>2. CASE m + 1 \in places
    <3>1. Count(places, m + 1) = d + 1
      BY <2>1, <2>2, CountNext
    <3>2. \A k \in 1..(d + 1) : k = d + 1 \/ k \in 1..d
      BY <2>1
    <3> QED BY <1>2, <2>1, <2>2, <3>1, <3>2
  <2>3. CASE m + 1 \notin places
    BY <1>2, <2>3, CountNext
  <2> QED BY <2>2, <2>3
<1>3. c \in Good
  <2> HIDE DEF Good
  <2>1. Nat \subseteq Good
    BY <1>1, <1>2, InductionOnNat
  <2> QED BY <2>1
<1>4. Count(places, c) = Cardinality(places)
  <2>1. places \cap (1..c) = places
    OBVIOUS
  <2> QED BY <2>1 DEF Count
<1>5. \E i \in places : Cardinality(places \cap (1..i)) = n
  BY <1>3, <1>4 DEF Count
<1> QED BY <1>5 DEF Nth

\* The heading of any file is what its lines above an empty one say.
LEMMA HeadingOfFile ==
    ASSUME NEW file, file = Missing \/ file \in Seq(FileLines)
    PROVE  Heading(ParseFromFile(file)) = HeadingOf(file)
<1> DEFINE dat == ParseFromFile(file)
           places == {i \in DOMAIN HeadingKeys : HeadingKeys[i] \in DOMAIN dat}
<1>1. Heading(dat) = [n \in 1..Cardinality(places) |-> dat[HeadingKeys[Nth(places, n)]]]
  BY HeadingIs
<1>2. CASE file = Missing
  <2>1. dat = NoData /\ DOMAIN NoData = {}
    BY <1>2 DEF ParseFromFile, NoData
  <2>2. places = {}
    BY <2>1
  <2>3. Cardinality(places) = 0
    BY <2>2, FS_EmptySet
  <2> HIDE DEF dat, places
  <2>4. Heading(dat) = <<>>
    BY <1>1, <2>3
  <2> QED BY <1>2, <2>4 DEF HeadingOf, dat
<1>3. CASE file # Missing
  <2>1. Len(file) \in Nat /\ DOMAIN file = 1..Len(file)
    BY <1>3
  <2>2. \A k \in Keys : /\ k \in DOMAIN dat <=> LinesOf(file, k) # {}
                        /\ LinesOf(file, k) # {} => dat[k] = file[Max(LinesOf(file, k))].value
    BY <1>3, <2>1, ParsedData
  <2>3. \A i \in DOMAIN HeadingKeys : HeadingKeys[i] \in Keys
    BY ConfigAssumption
  <2>4. Len(HeadingKeys) \in Nat /\ DOMAIN HeadingKeys = 1..Len(HeadingKeys)
    BY ConfigAssumption
  <2> HIDE DEF dat
  <2>5. places = Given(file)
    BY <2>2, <2>3 DEF Given
  <2>6. Given(file) \in SUBSET (1..Len(HeadingKeys))
    BY <2>4 DEF Given
  <2>7. ASSUME NEW n \in 1..Cardinality(Given(file))
        PROVE  dat[HeadingKeys[Nth(Given(file), n)]] =
                   file[Max(LinesOf(file, HeadingKeys[Nth(Given(file), n)]))].value
    <3>1. Nth(Given(file), n) \in Given(file)
      BY <2>4, <2>6, NthIn
    <3>2. PICK k \in Keys : k = HeadingKeys[Nth(Given(file), n)] /\ LinesOf(file, k) # {}
      BY <2>3, <3>1 DEF Given
    <3> QED BY <2>2, <3>2
  <2> HIDE DEF places
  <2>8. HeadingOf(file) = [n \in 1..Cardinality(Given(file)) |->
                              file[Max(LinesOf(file, HeadingKeys[Nth(Given(file), n)]))].value]
    BY <1>3 DEF HeadingOf
  <2>9. Heading(dat) = HeadingOf(file)
    BY <1>1, <2>5, <2>7, <2>8
  <2> QED BY <2>9 DEF dat
<1> QED BY <1>2, <1>3

\* HeadingOK: whatever a copy of the configuration left in the flash, complete or
\* cut short, the next heading has the last value that the lines above an empty
\* one give to each of its keys (Configuration::ParseFromFile, appendToIfFound).
THEOREM HeadingsAreRead == Spec => []HeadingOK
<1>1. IInv => HeadingOK
  <2> SUFFICES ASSUME IInv PROVE HeadingOK
    OBVIOUS
  <2>1. flash.cfg \in CfgFiles
    BY IInvParts DEF UsbType, Files
  <2>2. flash.cfg = Missing \/ flash.cfg \in Seq(FileLines)
    BY <2>1, ConfigsAssumption DEF CfgFiles
  <2> QED BY <2>2, HeadingOfFile DEF HeadingOK
<1> QED BY <1>1, Invariance, PTL
=============================================================================
