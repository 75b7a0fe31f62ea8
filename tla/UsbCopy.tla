------------------------------- MODULE UsbCopy -------------------------------
(***************************************************************************)
(* Export, Import and UploadConfig, which copy a file between the flash of *)
(* the terminal and a USB stick: mount, cp and umount with a key between   *)
(* them.  The user may insert and pull sticks at any moment, and what cp   *)
(* wrote to a stick is only certain to be on it after umount.              *)
(* Code: src/src/main.cpp, lines 2266 to 2510 and 2577 to 2697.            *)
(***************************************************************************)
EXTENDS ConfigFile

CONSTANTS
    Sticks,
    PartitionOf,    \* the partition of a stick that holds its file system
    Users,          \* User_ID of everybody who may have an account
    MaxChanges,     \* bound: the changes the program makes to a database
    Configs,        \* contents of POS.cfg
    Torn,           \* a database of which only a part was written
    None            \* no stick, nothing written

\* What the terminal tells of a database: who may log in, how often it was
\* changed, whether a bill that is not cancelled has a short Date_Time, and
\* whether it has the table of the items sold.
Databases ==
    [accounts : SUBSET Users, changes : 0..MaxChanges, short : BOOLEAN, items : BOOLEAN]

DbFiles  == Databases \cup {Torn, Missing}
CfgFiles == Configs \cup {Missing}
Files    == [db : DbFiles, cfg : CfgFiles]

\* A stick, and the letter of its device.
Plugged == [stick : Sticks, letter : {"a", "b"}]

ASSUME SticksAssumption  == None \notin Sticks /\ PartitionOf \in [Sticks -> {1, 2}]
ASSUME ContentAssumption == {Torn, Missing, None} \cap Databases = {} /\ None \notin {Torn, Missing}
ASSUME ChangesAssumption == MaxChanges \in Nat

\* Every part of a configuration is a configuration.
ASSUME ConfigsAssumption ==
    /\ Configs \subseteq Seq(FileLines) /\ Missing \notin Configs
    /\ \A c \in Configs : \A n \in 0..Len(c) : SubSeq(c, 1, n) \in Configs

VARIABLES
    flash,      \* the files in /mnt/jffs2: db and cfg
    media,      \* the files of every stick, as they are on the stick
    port,       \* the stick that is inserted, with the letter of its device
    mounted,    \* the line of /etc/mtab with /mnt/usb: what is mounted there
    cache,      \* what was written to /mnt/usb/PayCollect.db since
    pc,         \* where the program waits or what it runs next
    op,         \* the function that runs: "Export", "Import" or "Upload", or None
    flag,       \* /mnt/usb was in /etc/mtab
    tries,      \* which device mount is tried with
    pulled,     \* history: what was mounted has been pulled
    refused     \* history: the last umount was refused

usb == <<flash, media, port, mounted, cache, op, flag, tries, pulled, refused>>

Operations == {"Export", "Import", "Upload"}

\* The steps of an operation.
UsbPcs == {"insert", "mount", "confirm", "copying", "copied", "notCopied", "failed"}

\* What is mounted is in the port; if it was pulled, it is mounted all the same.
Alive == mounted # None /\ mounted = port

\* A new stick gets the first device that is free.
Letter == IF mounted # None /\ mounted.letter = "a" THEN "b" ELSE "a"

Devices(o) ==
    IF o = "Import" THEN << <<"a", 1>>, <<"a", 2>>, <<"b", 1>>, <<"c", 1>>, <<"d", 1>> >>
                    ELSE << <<"a", 1>>, <<"b", 1>>, <<"c", 1>>, <<"d", 1>> >>

\* PayCollect.db as it is read from the mounted stick.
StickDb == IF cache # None THEN cache ELSE media[mounted.stick].db

\* What cp reads.
Source ==
    CASE op = "Export" -> flash.db
      [] op = "Import" -> StickDb
      [] op = "Upload" -> media[mounted.stick].cfg

CanRead == op = "Export" \/ (Alive /\ Source # Missing)

\* What is on a stick when writing to it stops.
Written(s) ==
    IF Alive /\ s = mounted.stick /\ cache # None /\ cache # media[s].db
    THEN {media[s].db, Torn, cache} ELSE {media[s].db}

-----------------------------------------------------------------------------
UsbInit ==
    /\ port = None
    /\ mounted = None
    /\ cache = None
    /\ op = None
    /\ flag = FALSE
    /\ tries = 1
    /\ pulled = FALSE
    /\ refused = FALSE

\* Back to the menu; the locals are gone.
Return == pc' = "admin" /\ op' = None /\ flag' = FALSE /\ tries' = 1

\* "Insert the usb device and press ENTER"; /etc/mtab is read before the key.
Ask(o) ==
    /\ pc = "admin"
    /\ pc' = "insert"
    /\ op' = o
    /\ flag' = (mounted # None)
    /\ tries' = 1
    /\ UNCHANGED <<flash, media, port, mounted, cache, pulled, refused>>

\* ENTER.
StartMount ==
    /\ pc = "insert"
    /\ pc' = IF flag THEN "confirm" ELSE "mount"
    /\ UNCHANGED usb

\* Any other key.
LeaveUsb ==
    /\ pc = "insert"
    /\ Return
    /\ UNCHANGED <<flash, media, port, mounted, cache, pulled, refused>>

\* mount succeeds with the device of the stick that is inserted.
Mount ==
    /\ pc = "mount"
    /\ port # None
    /\ Devices(op)[tries] = <<port.letter, PartitionOf[port.stick]>>
    /\ mounted' = port
    /\ pulled' = FALSE
    /\ pc' = "confirm"
    /\ UNCHANGED <<flash, media, port, cache, op, flag, tries, refused>>

\* It returns 256, whatever the reason: the next device, if there is one.
MountFails ==
    /\ pc = "mount"
    /\ pc' = IF tries = Len(Devices(op)) THEN "failed" ELSE "mount"
    /\ tries' = IF tries = Len(Devices(op)) THEN tries ELSE tries + 1
    /\ UNCHANGED <<flash, media, port, mounted, cache, op, flag, pulled, refused>>

\* It returns another error.
MountErrs == pc = "mount" /\ pc' = "failed" /\ UNCHANGED usb

\* Mutant: what was mounted is left mounted.
CopyRefusedMounted == pc = "confirm" /\ pc' = "failed" /\ UNCHANGED usb

\* cp cannot open one of the two files.
CopyRefused == pc = "confirm" /\ pc' = "notCopied" /\ UNCHANGED usb

\* Any key: cp empties the target and starts to write it.
StartCopy ==
    /\ pc = "confirm"
    /\ CanRead
    /\ pc' = "copying"
    /\ \/ op = "Export" /\ cache' = Torn /\ UNCHANGED flash
       \/ op = "Import" /\ flash' = [flash EXCEPT !.db = Torn] /\ UNCHANGED cache
       \/ op = "Upload" /\ UNCHANGED cache
                        /\ \E n \in 0..Len(Source) : flash' = [flash EXCEPT !.cfg = SubSeq(Source, 1, n)]
    /\ UNCHANGED <<media, port, mounted, op, flag, tries, pulled, refused>>

\* cp returns 0, which on a stick means written to the cache.
Copied ==
    /\ pc = "copying"
    /\ CanRead
    /\ pc' = "copied"
    /\ \/ op = "Export" /\ cache' = Source /\ UNCHANGED flash
       \/ op = "Import" /\ flash' = [flash EXCEPT !.db = Source] /\ UNCHANGED cache
       \/ op = "Upload" /\ flash' = [flash EXCEPT !.cfg = Source] /\ UNCHANGED cache
    /\ UNCHANGED <<media, port, mounted, op, flag, tries, pulled, refused>>

\* Mutant: the result of cp is lost in the pause after it.
CopyFailsUnseen == pc = "copying" /\ pc' = "copied" /\ UNCHANGED usb

\* cp fails on the way: no space, or the stick is gone.
CopyFails == pc = "copying" /\ pc' = "notCopied" /\ UNCHANGED usb

\* umount writes what is in the cache.  After "Copying Successfull" and a key,
\* the function is done; "Copying Failed" waits for its key afterwards.
Unmount ==
    /\ pc \in {"copied", "notCopied"}
    /\ IF pc = "copied" THEN Return ELSE pc' = "failed" /\ UNCHANGED <<op, flag, tries>>
    /\ media' = IF Alive /\ cache # None THEN [media EXCEPT ![mounted.stick].db = cache] ELSE media
    /\ mounted' = None
    /\ cache' = None
    /\ pulled' = FALSE
    /\ refused' = FALSE
    /\ UNCHANGED <<flash, port>>

\* umount is refused: after a copy that failed nobody is told.
UnmountRefused ==
    /\ pc \in {"copied", "notCopied"}
    /\ pc' = "failed"
    /\ refused' = TRUE
    /\ UNCHANGED <<flash, media, port, mounted, cache, op, flag, tries, pulled>>

\* "Press Any Key to Exit"
DismissFailed ==
    /\ pc = "failed"
    /\ Return
    /\ UNCHANGED <<flash, media, port, mounted, cache, pulled, refused>>

UsbSteps ==
    \/ StartMount \/ LeaveUsb \/ Mount \/ MountFails \/ MountErrs
    \/ CopyRefused \/ StartCopy \/ Copied \/ CopyFails
    \/ Unmount \/ UnmountRefused \/ DismissFailed

-----------------------------------------------------------------------------
(* The user and the operating system *)

Insert(s) ==
    /\ port = None
    /\ port' = [stick |-> s, letter |-> Letter]
    /\ UNCHANGED <<flash, media, mounted, cache, pc, op, flag, tries, pulled, refused>>

\* The stick is pulled, mounted or not.
Pull ==
    /\ port # None
    /\ port' = None
    /\ \E d \in Written(port.stick) : media' = [media EXCEPT ![port.stick].db = d]
    /\ cache' = IF Alive THEN None ELSE cache
    /\ pulled' = (pulled \/ Alive)
    /\ UNCHANGED <<flash, mounted, pc, op, flag, tries, refused>>

\* The cache is written to the stick.
WriteBack ==
    /\ Alive
    /\ cache # None
    /\ media' = [media EXCEPT ![mounted.stick].db = cache]
    /\ UNCHANGED <<flash, port, mounted, cache, pc, op, flag, tries, pulled, refused>>

Environment == (\E s \in Sticks : Insert(s)) \/ Pull \/ WriteBack

\* The power is cut: nothing is mounted when the terminal is on again.
UsbOff ==
    /\ IF port = None THEN UNCHANGED <<port, media>>
       ELSE /\ port' = [port EXCEPT !.letter = "a"]
            /\ \E d \in Written(port.stick) : media' = [media EXCEPT ![port.stick].db = d]
    /\ mounted' = None
    /\ cache' = None
    /\ pulled' = FALSE
    /\ refused' = FALSE
    /\ op' = None
    /\ flag' = FALSE
    /\ tries' = 1
    /\ UNCHANGED flash
=============================================================================
