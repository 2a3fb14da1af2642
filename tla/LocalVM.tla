------------------------------ MODULE LocalVM ------------------------------
(***************************************************************************)
(* The lifecycle of the QEMU guests kept by scripts/local-vm.py.           *)
(*                                                                         *)
(* A state directory holds vm.json and, for the guest that owns it, the    *)
(* reset point: windows.qcow2 and uefi-vars.fd.  A provisioned guest runs  *)
(* on an overlay of both, made at each cold start and deleted by `down`,   *)
(* unless `down --save` first makes it the new reset point.  Instances are *)
(* further state directories whose overlays are made on the same base.     *)
(*                                                                         *)
(* Each command holds its directory's operation.lock for as long as it     *)
(* runs, so a directory has one command at a time.  A guest outlives the   *)
(* command that started it and may stop at any time; a command may fail    *)
(* where it calls a tool, and may be killed between any two of its steps.  *)
(* The contents of a disk, and of the variables written with it, are a     *)
(* number: what a guest has written is new.                                *)
(***************************************************************************)
EXTENDS Integers

CONSTANTS
    Base,         \* the state directory with the reset point
    Instances,    \* the state directories that borrow it
    Shares,       \* host directories to share with a guest
    NoShare,
    Faults,       \* which faults occur
    Careful,      \* no save while an instance is in use
    ImageLocks,   \* QEMU's tools refuse an image that a guest writes
    MaxContents   \* bound on what guests write

VMs == {Base} \cup Instances
AllFaults == {"kill", "tool", "off"}

ASSUME VMsAssumption == Base \notin Instances
ASSUME SharesAssumption == NoShare \notin Shares
ASSUME FaultsAssumption == Faults \subseteq AllFaults
ASSUME FlagsAssumption == Careful \in BOOLEAN /\ ImageLocks \in BOOLEAN
ASSUME BoundAssumption == MaxContents \in Nat \ {0}

None == 0      \* no such file
Fresh == -1    \* an overlay in which nothing has been written
Blank == 1     \* a new disk, new variables
Contents == 1..MaxContents

VARIABLES
    cfg,       \* vm.json of each directory
    disk,      \* windows.qcow2 of the base
    efi,       \* uefi-vars.fd of the base
    new,       \* windows.qcow2.new
    over,      \* run.qcow2 and run-vars.fd of each directory
    guest,     \* the QEMU process of each directory
    marker,    \* share.json
    pidFile,   \* virtiofsd.pid names a virtiofsd
    fsd,       \* the virtiofsd processes
    op,        \* the command that holds each directory's lock
    latest,    \* the latest contents written
    installs   \* history: how often the installer was attached

vars == <<cfg, disk, efi, new, over, guest, marker, pidFile, fsd, op,
          latest, installs>>

Configs == [here : BOOLEAN, started : BOOLEAN, provisioned : BOOLEAN,
            mode : {"base", "overlay"}]
NoConfig == [here |-> FALSE, started |-> FALSE, provisioned |-> FALSE,
             mode |-> "base"]

Overlays == [disk : Contents \cup {None, Fresh}, efi : Contents \cup {None}]
NoOverlay == [disk |-> None, efi |-> None]

Guests == [on : BOOLEAN, mode : {"base", "overlay"}, share : Shares \cup {NoShare},
           disk : Contents \cup {None}, efi : Contents \cup {None}]
NoGuest == [on |-> FALSE, mode |-> "base", share |-> NoShare, disk |-> None, efi |-> None]

PCs == {"idle", "makeDisk", "makeConfig",
        "resetDisk", "resetEfi", "daemon", "mark", "launch", "share",
        "provisioned", "shutdown", "stopping", "sweep",
        "convert", "saveEfi", "saveDisk", "discard"}
Ops == [pc : PCs, install : BOOLEAN, share : Shares \cup {NoShare}, keep : BOOLEAN]
NoOp == [pc |-> "idle", install |-> FALSE, share |-> NoShare, keep |-> FALSE]

TypeOK ==
    /\ cfg \in [VMs -> Configs]
    /\ disk \in Contents \cup {None}
    /\ efi \in Contents \cup {None}
    /\ new \in Contents \cup {None}
    /\ over \in [VMs -> Overlays]
    /\ guest \in [VMs -> Guests]
    /\ marker \in [VMs -> Shares \cup {NoShare}]
    /\ pidFile \in [VMs -> BOOLEAN]
    /\ fsd \in [VMs -> SUBSET {"named", "stray"}]
    /\ op \in [VMs -> Ops]
    /\ latest \in Contents
    /\ installs \in Nat

Init ==
    /\ cfg = [v \in VMs |-> NoConfig]
    /\ disk = None /\ efi = None /\ new = None
    /\ over = [v \in VMs |-> NoOverlay]
    /\ guest = [v \in VMs |-> NoGuest]
    /\ marker = [v \in VMs |-> NoShare]
    /\ pidFile = [v \in VMs |-> FALSE]
    /\ fsd = [v \in VMs |-> {}]
    /\ op = [v \in VMs |-> NoOp]
    /\ latest = Blank
    /\ installs = 0

At(v, pc) == op[v].pc = pc
Goto(v, pc) == op' = [op EXCEPT ![v].pc = pc]
End(v) == op' = [op EXCEPT ![v] = NoOp]
Begin(v, pc, install, share, keep) ==
    /\ At(v, "idle")
    /\ op' = [op EXCEPT ![v] = [pc |-> pc, install |-> install, share |-> share, keep |-> keep]]

files == <<disk, efi, new, over>>
daemons == <<marker, pidFile, fsd>>
history == <<latest, installs>>

\* A tool fails or a call to the guest does not succeed: the command ends
\* with an error where it is.
ToolFails(v, pc) ==
    /\ "tool" \in Faults
    /\ At(v, pc)
    /\ End(v)

-----------------------------------------------------------------------------
(* prepare and instance.                                                   *)

\* A directory with a configuration or a disk is never prepared again.
Prepare ==
    /\ ~cfg[Base].here /\ disk = None
    /\ Begin(Base, "makeDisk", FALSE, NoShare, FALSE)
    /\ efi' = Blank
    /\ UNCHANGED <<cfg, disk, new, over, guest, daemons, history>>

MakeDisk(v) ==
    /\ At(v, "makeDisk")
    /\ disk' = Blank
    /\ Goto(v, "makeConfig")
    /\ UNCHANGED <<cfg, efi, new, over, guest, daemons, history>>

\* vm.json comes last, in one rename.
MakeConfig(v) ==
    /\ At(v, "makeConfig")
    /\ cfg' = [cfg EXCEPT ![v] = [NoConfig EXCEPT !.here = TRUE]]
    /\ End(v)
    /\ UNCHANGED <<files, guest, daemons, history>>

\* An instance copies the configuration of a provisioned base.
Instance(v) ==
    /\ v \in Instances /\ At(v, "idle")
    /\ ~cfg[v].here
    /\ cfg[Base].provisioned /\ cfg[Base].started
    /\ cfg' = [cfg EXCEPT ![v] = [cfg[Base] EXCEPT !.mode = "overlay"]]
    /\ UNCHANGED <<files, guest, daemons, op, history>>

-----------------------------------------------------------------------------
(* up                                                                      *)

Mode(v) == IF cfg[v].provisioned THEN "overlay" ELSE "base"

InUse(v) == guest[v].on \/ ~At(v, "idle")

\* The documented rule for who saves a borrowed base.
MaySave == Careful => \A i \in Instances : ~InUse(i)
MayUseBase == Careful => ~op[Base].keep

\* A running guest is reused if its share is the one asked for.
Reuses(v, share) == guest[v].on /\ marker[v] = share

\* What a start needs before anything is touched.
MayStart(v, install) ==
    /\ cfg[v].here
    /\ ~guest[v].on
    /\ install = ~cfg[v].started
    /\ v \in Instances => ~install /\ cfg[v].provisioned /\ MayUseBase

NextOfReset(v) == IF op[v].share = NoShare THEN "mark" ELSE "daemon"

Up(v, install, share) ==
    /\ MayStart(v, install)
    /\ Begin(v, IF Mode(v) = "overlay" THEN "resetDisk"
                ELSE IF share = NoShare THEN "mark" ELSE "daemon", install, share, FALSE)
    /\ UNCHANGED <<cfg, files, guest, daemons, history>>

\* A guest of the base's own disk has the image open for writing.
BaseWritten(v) == v # Base /\ guest[Base].on /\ guest[Base].mode = "base"

\* Mutant: an overlay that is still there is used again.
ResetDiskIfMissing(v) ==
    /\ At(v, "resetDisk")
    /\ over' = IF over[v].disk = None THEN [over EXCEPT ![v].disk = Fresh] ELSE over
    /\ Goto(v, "resetEfi")
    /\ UNCHANGED <<cfg, disk, efi, new, guest, daemons, history>>

ResetDisk(v) ==
    /\ At(v, "resetDisk")
    /\ ~(ImageLocks /\ BaseWritten(v))
    /\ over' = [over EXCEPT ![v].disk = Fresh]
    /\ Goto(v, "resetEfi")
    /\ UNCHANGED <<cfg, disk, efi, new, guest, daemons, history>>

ResetRefused(v) ==
    /\ At(v, "resetDisk") /\ ImageLocks /\ BaseWritten(v)
    /\ End(v)
    /\ UNCHANGED <<cfg, files, guest, daemons, history>>

\* Mutant: variables that are still there are used again.
ResetEfiIfMissing(v) ==
    /\ At(v, "resetEfi")
    /\ over' = IF over[v].efi = None THEN [over EXCEPT ![v].efi = efi] ELSE over
    /\ Goto(v, NextOfReset(v))
    /\ UNCHANGED <<cfg, disk, efi, new, guest, daemons, history>>

ResetEfi(v) ==
    /\ At(v, "resetEfi")
    /\ over' = [over EXCEPT ![v].efi = efi]
    /\ Goto(v, NextOfReset(v))
    /\ UNCHANGED <<cfg, disk, efi, new, guest, daemons, history>>

\* virtiofsd.pid is overwritten: what it named before is on its own.
Orphaned(v) == IF "named" \in fsd[v] THEN {"stray"} ELSE fsd[v]

StartDaemon(v) ==
    /\ At(v, "daemon")
    /\ fsd' = [fsd EXCEPT ![v] = Orphaned(v) \cup {"named"}]
    /\ pidFile' = [pidFile EXCEPT ![v] = TRUE]
    /\ Goto(v, "mark")
    /\ UNCHANGED <<cfg, files, guest, marker, history>>

\* It does not open its socket, is terminated, and the pid file goes.
DaemonFails(v) ==
    /\ ToolFails(v, "daemon")
    /\ fsd' = [fsd EXCEPT ![v] = Orphaned(v)]
    /\ pidFile' = [pidFile EXCEPT ![v] = FALSE]
    /\ UNCHANGED <<cfg, files, guest, marker, history>>

\* Mutant: vm.json does not say that the installer is about to be launched.
MarkModeOnly(v) ==
    /\ At(v, "mark")
    /\ cfg' = [cfg EXCEPT ![v].mode = Mode(v)]
    /\ Goto(v, "launch")
    /\ UNCHANGED <<files, guest, daemons, history>>

\* Mutant: vm.json is written for an installation only.
MarkInstallOnly(v) ==
    /\ At(v, "mark")
    /\ cfg' = [cfg EXCEPT ![v].started = @ \/ op[v].install]
    /\ Goto(v, "launch")
    /\ UNCHANGED <<files, guest, daemons, history>>

\* Before launching: a killed command must not allow a destructive retry.
Mark(v) ==
    /\ At(v, "mark")
    /\ cfg' = [cfg EXCEPT ![v].mode = Mode(v), ![v].started = @ \/ op[v].install]
    /\ Goto(v, "launch")
    /\ UNCHANGED <<files, guest, daemons, history>>

\* What a guest started now finds on its disk and in its variables.
Found(v) ==
    IF Mode(v) = "base" THEN [disk |-> disk, efi |-> efi]
    ELSE [disk |-> IF over[v].disk = Fresh THEN disk ELSE over[v].disk, efi |-> over[v].efi]

Launch(v) ==
    /\ At(v, "launch")
    /\ ~(ImageLocks /\ BaseWritten(v))
    /\ guest' = [guest EXCEPT ![v] =
          [on |-> TRUE, mode |-> Mode(v), share |-> op[v].share,
           disk |-> Found(v).disk, efi |-> Found(v).efi]]
    /\ over' = [over EXCEPT ![v] = IF Mode(v) = "overlay" THEN Found(v) ELSE @]
    /\ installs' = IF op[v].install THEN installs + 1 ELSE installs
    /\ IF op[v].share = NoShare THEN End(v) ELSE Goto(v, "share")
    /\ UNCHANGED <<cfg, disk, efi, new, daemons, latest>>

\* QEMU did not start.  Nor does it run after a launch that took too long: what
\* -daemonize has forked off reports to the process that was stopped, and exits
\* when nobody is there.
LaunchFails(v) ==
    /\ At(v, "launch")
    /\ "tool" \in Faults \/ (ImageLocks /\ BaseWritten(v))
    /\ End(v)
    /\ IF op[v].share = NoShare THEN UNCHANGED <<fsd, pidFile>>
       ELSE /\ fsd' = [fsd EXCEPT ![v] = @ \ {"named"}]
            /\ pidFile' = [pidFile EXCEPT ![v] = FALSE]
    /\ UNCHANGED <<cfg, files, guest, marker, history>>

RecordShare(v) ==
    /\ At(v, "share")
    /\ marker' = [marker EXCEPT ![v] = op[v].share]
    /\ End(v)
    /\ UNCHANGED <<cfg, files, guest, pidFile, fsd, history>>

\* Any other step that fails leaves what the steps before it have done.
Fails(v) ==
    /\ \E pc \in {"makeDisk", "makeConfig", "resetDisk", "resetEfi", "mark",
                  "provisioned", "shutdown", "saveEfi"} : ToolFails(v, pc)
    /\ UNCHANGED <<cfg, files, guest, daemons, history>>

-----------------------------------------------------------------------------
(* provision                                                               *)

\* finish.ps1 has run in the guest.
Provision ==
    /\ cfg[Base].here /\ guest[Base].on
    /\ Begin(Base, "provisioned", FALSE, NoShare, FALSE)
    /\ UNCHANGED <<cfg, files, guest, daemons, history>>

MarkProvisioned(v) ==
    /\ At(v, "provisioned")
    /\ cfg' = [cfg EXCEPT ![v].provisioned = TRUE]
    /\ End(v)
    /\ UNCHANGED <<files, guest, daemons, history>>

-----------------------------------------------------------------------------
(* down                                                                    *)

\* What virtiofsd.pid names is stopped, and the share forgotten.
StopDaemon(v) ==
    /\ fsd' = [fsd EXCEPT ![v] = IF pidFile[v] THEN @ \ {"named"} ELSE @]
    /\ pidFile' = [pidFile EXCEPT ![v] = FALSE]
    /\ marker' = [marker EXCEPT ![v] = NoShare]

\* A boot that ended by itself left its overlay behind.
DownStopped(v) ==
    /\ cfg[v].here /\ ~guest[v].on
    /\ At(v, "idle")
    /\ over' = [over EXCEPT ![v] = NoOverlay]
    /\ StopDaemon(v)
    /\ UNCHANGED <<cfg, disk, efi, new, guest, op, history>>

Down(v, keep) ==
    /\ cfg[v].here /\ guest[v].on
    /\ keep => v = Base /\ MaySave
    /\ Begin(v, "shutdown", FALSE, NoShare, keep)
    /\ UNCHANGED <<cfg, files, guest, daemons, history>>

\* Windows has trimmed its disk, if it is to be saved, and been asked to shut
\* down over ssh or with the power button.
AskShutdown(v) ==
    /\ At(v, "shutdown")
    /\ guest[v].on
    /\ Goto(v, "stopping")
    /\ UNCHANGED <<cfg, files, guest, daemons, history>>

\* Neither ssh nor the monitor of a guest that is gone answers.
ShutdownFails(v) ==
    /\ At(v, "shutdown")
    /\ ~guest[v].on
    /\ End(v)
    /\ UNCHANGED <<cfg, files, guest, daemons, history>>

\* Left running, no forced kill.
DownTimeout(v) ==
    /\ At(v, "stopping")
    /\ guest[v].on
    /\ End(v)
    /\ UNCHANGED <<cfg, files, guest, daemons, history>>

Stopped(v) ==
    /\ At(v, "stopping")
    /\ ~guest[v].on
    /\ StopDaemon(v)
    /\ Goto(v, IF op[v].keep THEN "convert" ELSE "discard")
    /\ UNCHANGED <<cfg, files, guest, history>>

\* The stopped guest's disk, flattened.
Convert(v) ==
    /\ At(v, "convert")
    /\ new' = IF cfg[v].mode = "overlay" THEN over[v].disk ELSE disk
    /\ Goto(v, IF cfg[v].mode = "overlay" THEN "saveEfi" ELSE "saveDisk")
    /\ UNCHANGED <<cfg, disk, efi, over, guest, daemons, history>>

ConvertFails(v) ==
    /\ ToolFails(v, "convert")
    /\ new' = None
    /\ UNCHANGED <<cfg, disk, efi, over, guest, daemons, history>>

\* Mutant: the variables of the saved boot are not kept.
SaveDiskOnly(v) ==
    /\ At(v, "saveEfi")
    /\ Goto(v, "saveDisk")
    /\ UNCHANGED <<cfg, files, guest, daemons, history>>

SaveEfi(v) ==
    /\ At(v, "saveEfi")
    /\ efi' = over[v].efi
    /\ Goto(v, "saveDisk")
    /\ UNCHANGED <<cfg, disk, new, over, guest, daemons, history>>

SaveDisk(v) ==
    /\ At(v, "saveDisk")
    /\ disk' = new /\ new' = None
    /\ Goto(v, "discard")
    /\ UNCHANGED <<cfg, efi, over, guest, daemons, history>>

Discard(v) ==
    /\ At(v, "discard")
    /\ over' = [over EXCEPT ![v] = NoOverlay]
    /\ End(v)
    /\ UNCHANGED <<cfg, disk, efi, new, guest, daemons, history>>

-----------------------------------------------------------------------------
(* The guest and the host.                                                 *)

GuestWrites(v) ==
    /\ guest[v].on
    /\ latest < MaxContents
    /\ latest' = latest + 1
    /\ guest' = [guest EXCEPT ![v].disk = latest', ![v].efi = latest']
    /\ IF guest[v].mode = "base"
       THEN disk' = latest' /\ efi' = latest' /\ UNCHANGED over
       ELSE /\ over' = [over EXCEPT ![v] = [disk |-> latest', efi |-> latest']]
            /\ UNCHANGED <<disk, efi>>
    /\ UNCHANGED <<cfg, new, daemons, op, installs>>

\* Windows shuts down, or QEMU is killed; its virtiofsd ends with it.
GuestOff(v) ==
    /\ guest[v].on
    /\ At(v, "stopping") \/ "off" \in Faults
    /\ guest' = [guest EXCEPT ![v] = NoGuest]
    /\ fsd' = [fsd EXCEPT ![v] = IF guest[v].share = NoShare THEN @ ELSE @ \ {"named"}]
    /\ UNCHANGED <<cfg, files, marker, pidFile, op, history>>

\* The command is killed; its lock goes with it.
Kill(v) ==
    /\ "kill" \in Faults
    /\ ~At(v, "idle")
    /\ End(v)
    /\ UNCHANGED <<cfg, files, guest, daemons, history>>

Step(v) ==
    \/ MakeDisk(v) \/ MakeConfig(v)
    \/ ResetDisk(v) \/ ResetRefused(v) \/ ResetEfi(v) \/ StartDaemon(v) \/ DaemonFails(v)
    \/ Mark(v) \/ Launch(v) \/ LaunchFails(v) \/ RecordShare(v)
    \/ MarkProvisioned(v)
    \/ AskShutdown(v) \/ ShutdownFails(v) \/ DownTimeout(v) \/ Stopped(v)
    \/ Convert(v) \/ ConvertFails(v) \/ SaveEfi(v) \/ SaveDisk(v) \/ Discard(v)
    \/ Fails(v)

Next ==
    \/ Prepare \/ Provision
    \/ \E v \in VMs :
        \/ Instance(v)
        \/ \E install \in BOOLEAN, share \in Shares \cup {NoShare} : Up(v, install, share)
        \/ \E keep \in BOOLEAN : Down(v, keep)
        \/ DownStopped(v)
        \/ Step(v)
        \/ GuestWrites(v) \/ GuestOff(v)
        \/ Kill(v)

Spec == Init /\ [][Next]_vars

-----------------------------------------------------------------------------
(* Correctness.                                                            *)

\* Setup wipes the disk it finds: however `up --install' fails or is killed,
\* the installer is attached at most once.
InstallOnce == installs <= 1

\* Every cold boot starts from the saved disk, and the saved disk changes only
\* to what a stopped boot left, even with commands killed anywhere.
Reset == INSTANCE ResetPoint WITH
    saved  <- disk,
    guest  <- IF guest[Base].on THEN guest[Base].disk ELSE None,
    direct <- guest[Base].on /\ guest[Base].mode = "base",
    left   <- IF guest[Base].on \/ over[Base].disk = Fresh THEN None ELSE over[Base].disk

ImplementsResetPoint == Reset!Spec

\* A guest boots on a disk and variables that belong together, an instance too
\* while the base is saved only when no instance is in use.
BootsWhole == \A v \in VMs : guest[v].on => guest[v].disk = guest[v].efi

\* local-vm.py:58: the reset point is the base disk and its UEFI variables.
\* Between commands the two come from the same boot.
ResetPointWhole == cfg[Base].here /\ At(Base, "idle") => disk = efi

\* A disk is never parted from its variables, in a guest or in the reset point.
DiskWithItsVariables == BootsWhole /\ ResetPointWhole

\* docs/qemu-vm.md:215-216: a running guest is reused only with the same
\* share.
ReusedWithSameShare ==
    \A v \in VMs, share \in Shares \cup {NoShare} :
        At(v, "idle") /\ Reuses(v, share) => guest[v].share = share

-----------------------------------------------------------------------------
(* The inductive invariant.                                                *)

Starting == {"resetDisk", "resetEfi", "daemon", "mark", "launch"}
Saving == {"convert", "saveEfi", "saveDisk"}

\* vm.json says how the guest runs, so that a later command, or the one after
\* a kill, takes the right disk.
ModeRecorded ==
    \A v \in VMs : guest[v].on =>
        cfg[v].here /\ cfg[v].started /\ guest[v].mode = cfg[v].mode

\* The installer is attached only by a start that found it never attached.
InstallMarked ==
    /\ installs # 0 => cfg[Base].here /\ cfg[Base].started
    /\ \A v \in VMs : op[v].pc \in Starting /\ op[v].install =>
          /\ v = Base
          /\ installs = 0
          /\ At(v, "launch") \/ ~cfg[v].started
    /\ InstallOnce

\* A directory is started only while no guest of it runs, and saved only by
\* its owner once the guest is gone.
OpPlaces ==
    \A v \in VMs :
        /\ op[v].pc \in Starting \cup Saving \cup {"discard", "makeDisk", "makeConfig"}
              => ~guest[v].on
        /\ op[v].pc \in Starting =>
              /\ cfg[v].here /\ (v \in Instances => cfg[v].provisioned)
              /\ op[v].install \/ cfg[v].started
        /\ op[v].pc \in {"makeDisk", "makeConfig"} => ~cfg[v].here
        /\ At(v, "provisioned") => cfg[v].here
        /\ At(v, "launch") => cfg[v].mode = Mode(v) /\ cfg[v].started
        /\ op[v].pc \in Saving \cup {"makeDisk", "makeConfig", "provisioned"} => v = Base
        /\ op[v].pc \in {"shutdown", "stopping"} /\ op[v].keep => v = Base

\* What the base's guest writes goes where vm.json says.
GuestDisk ==
    /\ \A i \in Instances : guest[i].on => guest[i].mode = "overlay"
    /\ guest[Base].on => guest[Base].disk \in Contents
    /\ guest[Base].on /\ guest[Base].mode = "base" => guest[Base].disk = disk
    /\ guest[Base].on /\ guest[Base].mode = "overlay" => guest[Base].disk = over[Base].disk
    /\ op[Base].pc \in {"shutdown", "stopping", "convert", "saveEfi", "saveDisk"}
          /\ cfg[Base].mode = "overlay" => over[Base].disk \in Contents
    /\ At(Base, "saveEfi") => cfg[Base].mode = "overlay"
    /\ At(Base, "saveEfi") \/ (At(Base, "saveDisk") /\ cfg[Base].mode = "overlay")
          => new = over[Base].disk
    /\ At(Base, "saveDisk") /\ cfg[Base].mode = "base" => new = disk
    /\ cfg[Base].provisioned => cfg[Base].here
    /\ ~cfg[Base].provisioned => over[Base].disk = None
    /\ guest[Base].on /\ guest[Base].mode = "base" => over[Base].disk = None
    /\ op[Base].pc \in {"resetDisk", "resetEfi"} => cfg[Base].provisioned
    /\ op[Base].pc \in {"resetEfi", "daemon", "mark", "launch"} /\ cfg[Base].provisioned
          => over[Base].disk = Fresh
    /\ At(Base, "makeDisk") => disk = None
    /\ (\E v \in VMs : cfg[v].here) \/ At(Base, "makeConfig") => disk \in Contents

IInv ==
    /\ TypeOK
    /\ ModeRecorded /\ InstallMarked /\ OpPlaces /\ GuestDisk

-----------------------------------------------------------------------------
(* What it takes for a disk to stay with its variables: the rule for a     *)
(* borrowed base, images that QEMU locks, and no command that is killed.   *)

Orderly == Careful /\ ImageLocks /\ "kill" \notin Faults

\* While the base is being saved nobody borrows it.
SavedAlone ==
    /\ op[Base].keep => \A i \in Instances : ~InUse(i)
    /\ op[Base].pc \in Saving => op[Base].keep

\* An instance has a provisioned base, and between the first check of QEMU's
\* and the last no guest writes that base.
BorrowedSound ==
    \A i \in Instances :
        /\ cfg[i].here => cfg[Base].here
        /\ cfg[i].provisioned => cfg[Base].provisioned
        /\ op[i].pc \in {"resetEfi", "daemon", "mark", "launch"} =>
              over[i].disk = Fresh /\ ~BaseWritten(i)

\* The base's disk and variables part only between the two renames of a save.
BaseWhole ==
    /\ At(Base, "makeDisk") => efi = Blank
    /\ At(Base, "makeConfig") => disk = efi
    /\ cfg[Base].here /\ ~(At(Base, "saveDisk") /\ cfg[Base].mode = "overlay")
          => disk = efi
    /\ At(Base, "saveDisk") /\ cfg[Base].mode = "overlay" => efi = over[Base].efi

\* So do an overlay's, from its reset to the save of what was written to it.
OverlayWhole ==
    /\ \A v \in VMs : op[v].pc \in {"daemon", "mark", "launch"} /\ cfg[v].provisioned
          => over[v].efi = disk
    /\ guest[Base].on /\ guest[Base].mode = "overlay" => over[Base].efi = guest[Base].efi
    /\ op[Base].pc \in {"shutdown", "stopping"} \cup Saving /\ cfg[Base].mode = "overlay"
          => over[Base].disk = over[Base].efi

WholeInv ==
    /\ IInv
    /\ SavedAlone /\ BorrowedSound /\ BaseWhole /\ OverlayWhole /\ BootsWhole

\* What share.json says is the running guest's share, from the end of the
\* command that started it to the end of the one that stops it.
MarkerTrue ==
    \A v \in VMs :
        /\ guest[v].on /\ ~At(v, "share") => marker[v] = guest[v].share
        /\ ~guest[v].on /\ ~At(v, "stopping") => marker[v] = NoShare
        /\ At(v, "share") => guest[v].on /\ guest[v].share = op[v].share
=============================================================================
