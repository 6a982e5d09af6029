--------------------------------- MODULE Disk ---------------------------------
(***************************************************************************)
(* The disk of a stopped VM (internal/storage/disk.go, and its callers in  *)
(* internal/vm/manager.go and internal/api/handlers.go): an ext4 image     *)
(* file that requests inspect, resize and reset, one command at a time,    *)
(* while the VM's lock in diskBusy is held; and the size in the table,     *)
(* which is read and written after the lock is released.  A command may    *)
(* fail, and the program may crash between any two of them.                *)
(*                                                                         *)
(* Sizes are counted in units, PerGB of them to a GiB.                     *)
(***************************************************************************)
EXTENDS Naturals

CONSTANTS
    Callers,  \* goroutines that serve requests for the VM's disk
    NoCaller,
    PerGB,    \* units in a GiB
    Goals,    \* the sizes asked for, in GiB
    Bases     \* sizes of the OS image's file: exporting it again may change it

ASSUME DiskAssumption ==
    /\ NoCaller \notin Callers
    /\ PerGB \in Nat \ {0}
    /\ Goals \subseteq Nat \ {0}
    /\ Bases \subseteq Nat \ {0} /\ Bases # {}

VARIABLES
    size,     \* length of the file, 0 when there is none
    fs,       \* length of the file system in it, by its superblock
    used,     \* length the data need: resize2fs shrinks no further
    dirty,    \* whether the journal has to be replayed
    torn,     \* whether the file is an unfinished copy of the OS image
    base,     \* length of the OS image
    recorded, \* the row's disk_size_gb
    holder,   \* the request that holds the VM's disk lock
    up,       \* whether the program runs
    pc,       \* where each request is
    goal,     \* the size the holder resizes to
    old,      \* the file's size before the holder changed it
    even,     \* history: whether the file system filled the file when the resize began
    seen,     \* the size each request is about to record
    alone,    \* history: requests that have overlapped with no other
    sure      \* history: whether the last request succeeded and overlapped with none

imageVars == <<size, fs, used, dirty, torn>>
resizeVars == <<goal, old, even>>
historyVars == <<alone, sure>>
diskVars == <<imageVars, base, recorded, holder, up, pc, seen, resizeVars, historyVars>>

Resizing == {"check", "extend", "grow", "restore", "shrink", "cut"}
Locked == Resizing \cup {"inspect", "remove", "copy", "copied"}
Syncing == {"stat", "record"}

Idle == \A c \in Callers : pc[c] = "idle"

(* VMDiskSizeGB: GiB, rounded up. *)
InGB(n) == (n + PerGB - 1) \div PerGB

(* No file is longer than the longest OS image and the largest size asked for. *)
Sizes == {n \in Nat : \E m \in Bases \cup {g * PerGB : g \in Goals} : n <= m}

TypeOK ==
    /\ size \in Sizes /\ fs \in Sizes /\ used \in Sizes
    /\ dirty \in BOOLEAN /\ torn \in BOOLEAN
    /\ base \in Bases
    /\ recorded \in Nat
    /\ holder \in Callers \cup {NoCaller}
    /\ up \in BOOLEAN
    /\ pc \in [Callers -> {"idle"} \cup Locked \cup Syncing]
    /\ goal \in Sizes /\ old \in Sizes /\ even \in BOOLEAN
    /\ seen \in [Callers -> Nat]
    /\ alone \subseteq Callers /\ sure \in BOOLEAN

(* A VM that has just been created. *)
Init ==
    /\ base \in Bases
    /\ size = base /\ fs = base /\ used = 1
    /\ dirty = FALSE /\ torn = FALSE
    /\ recorded = InGB(base)
    /\ holder = NoCaller /\ up = TRUE
    /\ pc = [c \in Callers |-> "idle"]
    /\ goal = 0 /\ old = 0 /\ even = FALSE
    /\ seen = [c \in Callers |-> 0]
    /\ alone = {} /\ sure = TRUE

-----------------------------------------------------------------------------
Goto(c, there) == pc' = [pc EXCEPT ![c] = there]

(* A request takes the disk's lock, or is refused and changes nothing. *)
Acquire(c, there) ==
    /\ up /\ pc[c] = "idle"
    /\ holder = NoCaller
    /\ holder' = c
    /\ Goto(c, there)
    /\ alone' = IF Idle THEN {c} ELSE {}
    /\ UNCHANGED <<imageVars, base, recorded, up, seen, old, even, sure>>

(* The deferred unlock. *)
Release ==
    /\ holder' = NoCaller
    /\ goal' = 0 /\ old' = 0 /\ even' = FALSE

(* The size is recorded once the lock is released. *)
Succeed(c) ==
    /\ Goto(c, "stat")
    /\ Release
    /\ UNCHANGED historyVars

Fail(c) ==
    /\ Goto(c, "idle")
    /\ Release
    /\ sure' = FALSE
    /\ UNCHANGED alone

Proceed(c, there) ==
    /\ Goto(c, there)
    /\ UNCHANGED <<holder, historyVars>>

Outside == <<base, recorded, up, seen>>

-----------------------------------------------------------------------------
(* ResizeExt4 *)

Resize(c, n) == Acquire(c, "check") /\ goal' = n * PerGB

(* The file's size is compared, and e2fsck run: it replays the journal, and *)
(* fails on a file shorter than its file system.                            *)
Check(c) ==
    /\ pc[c] = "check"
    /\ \/ /\ size > 0 /\ goal = size
          /\ Succeed(c)
          /\ UNCHANGED dirty
       \/ /\ size > 0 /\ goal # size
          /\ ~torn
          /\ dirty' = FALSE
          /\ old' = size /\ even' = (fs = size)
          /\ Proceed(c, IF goal > size THEN "extend" ELSE "shrink")
          /\ UNCHANGED goal
       \/ /\ size = 0 \/ goal # size
          /\ Fail(c)
          /\ UNCHANGED dirty
    /\ UNCHANGED <<size, fs, used, torn, Outside>>

\* A slip: the file is made longer by the size asked for.
ExtendBy(c) ==
    /\ pc[c] = "extend"
    /\ size' = size + goal
    /\ Proceed(c, "grow")
    /\ UNCHANGED <<fs, used, dirty, torn, Outside, resizeVars>>

(* The file is made longer ... *)
Extend(c) ==
    /\ pc[c] = "extend"
    /\ \/ size' = goal /\ Proceed(c, "grow") /\ UNCHANGED resizeVars
       \/ Fail(c) /\ UNCHANGED size
    /\ UNCHANGED <<fs, used, dirty, torn, Outside>>

(* ... and the file system grown into it.  A resize2fs that fails may have *)
(* grown it all the same.                                                  *)
Grow(c) ==
    /\ pc[c] = "grow"
    /\ \/ fs' = size /\ Succeed(c)
       \/ fs' \in {fs, size} /\ Proceed(c, "restore") /\ UNCHANGED resizeVars
    /\ UNCHANGED <<size, used, dirty, torn, Outside>>

\* A slip: the file is cut back whatever resize2fs did.
RestoreAlways(c) ==
    /\ pc[c] = "restore"
    /\ size' = old
    /\ Fail(c)
    /\ UNCHANGED <<fs, used, dirty, torn, Outside>>

(* The file is cut back to the size it had, unless the file system has grown *)
(* beyond it; the superblock may be unreadable and the truncation may fail.  *)
Restore(c) ==
    /\ pc[c] = "restore"
    /\ size' \in IF fs <= old THEN {old, size} ELSE {size}
    /\ Fail(c)
    /\ UNCHANGED <<fs, used, dirty, torn, Outside>>

(* InspectExt4 for the smallest size, and resize2fs to the one asked for: *)
(* either may fail, the second after it has shrunk the file system.       *)
Shrink(c) ==
    /\ pc[c] = "shrink"
    /\ \/ /\ goal >= used
          /\ fs' = goal
          /\ \/ Proceed(c, "cut") /\ UNCHANGED resizeVars
             \/ Fail(c)
       \/ Fail(c) /\ UNCHANGED fs
    /\ UNCHANGED <<size, used, dirty, torn, Outside>>

\* A slip: the file is left longer than its file system.
CutNot(c) ==
    /\ pc[c] = "cut"
    /\ Succeed(c)
    /\ UNCHANGED <<imageVars, Outside>>

(* The file is cut to the size of its file system. *)
Cut(c) ==
    /\ pc[c] = "cut"
    /\ \/ size' = goal /\ Succeed(c)
       \/ Fail(c) /\ UNCHANGED size
    /\ UNCHANGED <<fs, used, dirty, torn, Outside>>

-----------------------------------------------------------------------------
(* InspectVMDisk *)

Inspect(c) == Acquire(c, "inspect") /\ UNCHANGED goal

(* The journal is replayed; the rest only reads, and may fail.  Nothing is *)
(* recorded.                                                               *)
InspectExt4(c) ==
    /\ pc[c] = "inspect"
    /\ dirty' \in {dirty, torn /\ dirty}
    /\ Goto(c, "idle")
    /\ Release
    /\ UNCHANGED <<size, fs, used, torn, Outside, historyVars>>

-----------------------------------------------------------------------------
(* ResetVMDisk *)

Reset(c) == Acquire(c, "remove") /\ UNCHANGED goal

(* The old size is kept in mind and the file removed. *)
Remove(c) ==
    /\ pc[c] = "remove"
    /\ \/ /\ old' = size
          /\ size' = 0 /\ fs' = 0 /\ used' = 0
          /\ dirty' = FALSE /\ torn' = FALSE
          /\ Proceed(c, "copy")
          /\ UNCHANGED <<goal, even>>
       \/ Fail(c) /\ UNCHANGED imageVars
    /\ UNCHANGED Outside

(* cp begins: part of the image is there, its superblock first. *)
Copy(c) ==
    /\ pc[c] = "copy"
    /\ \/ /\ \E n \in 1 .. base - 1 : size' = n
          /\ fs' = base /\ used' = 1
          /\ torn' = TRUE
          /\ Proceed(c, "copied")
          /\ UNCHANGED resizeVars
       \/ Fail(c) /\ UNCHANGED <<size, fs, used, torn>>
    /\ UNCHANGED <<dirty, Outside>>

\* A slip: the size is not recorded after a reset.
CopiedUnrecorded(c) ==
    /\ pc[c] = "copied"
    /\ size' = fs
    /\ torn' = FALSE
    /\ Goto(c, "idle")
    /\ Release
    /\ sure' = (c \in alone)
    /\ UNCHANGED <<fs, used, dirty, Outside, alone>>

(* cp ends, and the file is resized to what it was when that is larger. *)
Copied(c) ==
    /\ pc[c] = "copied"
    /\ \/ /\ size' = fs
          /\ torn' = FALSE
          /\ \/ old <= fs /\ Succeed(c)
             \/ /\ old > fs
                /\ goal' = old
                /\ Proceed(c, "check")
                /\ UNCHANGED <<old, even>>
       \/ Fail(c) /\ UNCHANGED <<size, torn>>
    /\ UNCHANGED <<fs, used, dirty, Outside>>

-----------------------------------------------------------------------------
(* syncDiskSize, once the lock is released *)

(* VMDiskSizeGB, which fails when there is no file. *)
Stat(c) ==
    /\ pc[c] = "stat"
    /\ \/ /\ size > 0
          /\ seen' = [seen EXCEPT ![c] = InGB(size)]
          /\ Goto(c, "record")
          /\ UNCHANGED sure
       \/ /\ size = 0
          /\ Goto(c, "idle")
          /\ sure' = FALSE
          /\ UNCHANGED seen
    /\ UNCHANGED <<imageVars, base, recorded, holder, up, resizeVars, alone>>

(* UpdateVMDiskSize; an error is only logged. *)
Record(c) ==
    /\ pc[c] = "record"
    /\ \/ recorded' = seen[c] /\ sure' = (c \in alone)
       \/ sure' = FALSE /\ UNCHANGED recorded
    /\ Goto(c, "idle")
    /\ seen' = [seen EXCEPT ![c] = 0]
    /\ UNCHANGED <<imageVars, base, holder, up, resizeVars, alone>>

-----------------------------------------------------------------------------
(* Around the requests *)

(* The VM is started, writes to its disk, and is stopped or killed. *)
Guest ==
    /\ up /\ holder = NoCaller
    /\ size > 0 /\ ~torn
    /\ used' \in 1 .. fs
    /\ dirty' \in BOOLEAN
    /\ UNCHANGED <<size, fs, torn, Outside, holder, pc, resizeVars, historyVars>>

(* The OS image is exported again (see Layercake). *)
Export ==
    /\ base' \in Bases
    /\ UNCHANGED <<imageVars, recorded, holder, up, pc, seen, resizeVars, historyVars>>

Crash ==
    /\ up
    /\ up' = FALSE
    /\ Release
    /\ pc' = [c \in Callers |-> "idle"]
    /\ seen' = [c \in Callers |-> 0]
    /\ sure' = FALSE /\ alone' = {}
    /\ UNCHANGED <<imageVars, base, recorded>>

(* syncDiskSizes of cmd/sandfire/main.go; a failure is only logged. *)
Boot ==
    /\ ~up
    /\ up' = TRUE
    /\ \/ size > 0 /\ recorded' = InGB(size) /\ sure' = TRUE
       \/ UNCHANGED <<recorded, sure>>
    /\ UNCHANGED <<imageVars, base, holder, pc, seen, resizeVars, alone>>

Step(c) ==
    \/ Check(c) \/ Extend(c) \/ Grow(c) \/ Restore(c) \/ Shrink(c) \/ Cut(c)
    \/ InspectExt4(c)
    \/ Remove(c) \/ Copy(c) \/ Copied(c)
    \/ Stat(c) \/ Record(c)

Next ==
    \/ \E c \in Callers :
          \/ Step(c)
          \/ Inspect(c) \/ Reset(c)
          \/ \E n \in Goals : Resize(c, n)
    \/ Guest \/ Export \/ Crash \/ Boot

Spec == Init /\ [][Next]_diskVars

-----------------------------------------------------------------------------
(* Properties *)

(* The data stay in the file system and the file system in the file, at every *)
(* step of a resize, whatever fails, crashes or is tried again (disk.go:      *)
(* 163-218): a shrink looks how small it may become and cuts the file last, a *)
(* grow that fails looks how far it got before it cuts the file back.         *)
DataInFsInFile == size > 0 /\ ~torn => used <= fs /\ fs <= size

(* A disk whose file system fills its file keeps that through a resize that *)
(* reports success, and both have the size asked for; a reset that has to   *)
(* restore the old size is one (disk.go:163-218, manager.go:543-547).       *)
EvenResizeExact ==
    [][\A c \in Callers :
          pc[c] \in Resizing /\ pc'[c] = "stat" /\ (even \/ fs = size)
              => size' = goal /\ fs' = goal]_diskVars

(* The row shows the size of the disk when the last request for it succeeded *)
(* and overlapped with no other, or since boot (handlers.go:281-291): the    *)
(* size is read and written outside the lock.                                *)
RecordedTrue == up /\ Idle /\ sure => recorded = InGB(size)
=============================================================================
