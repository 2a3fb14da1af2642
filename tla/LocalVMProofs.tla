--------------------------- MODULE LocalVMProofs ---------------------------
(***************************************************************************)
(* Proofs about LocalVM: its inductive invariant, that the installer is    *)
(* attached at most once, and that it implements ResetPoint, for any       *)
(* directories, shares, faults and bound; and, for faults and rules that   *)
(* the theorems name, that a disk stays with its variables and a running   *)
(* guest with the share that share.json records.                           *)
(***************************************************************************)
EXTENDS LocalVM, TLAPS

LEMMA GotoType ==
    ASSUME op \in [VMs -> Ops], NEW v \in VMs, NEW pc \in PCs, Goto(v, pc)
    PROVE  op' \in [VMs -> Ops]
BY DEF Goto, Ops

LEMMA EndType ==
    ASSUME op \in [VMs -> Ops], NEW v \in VMs, End(v)
    PROVE  op' \in [VMs -> Ops]
BY DEF End, NoOp, Ops, PCs

LEMMA BeginType ==
    ASSUME op \in [VMs -> Ops], NEW v \in VMs, NEW pc \in PCs, NEW install \in BOOLEAN,
           NEW share \in Shares \cup {NoShare}, NEW keep \in BOOLEAN,
           Begin(v, pc, install, share, keep)
    PROVE  op' \in [VMs -> Ops]
BY DEF Begin, Ops

LEMMA OpStep == ASSUME TypeOK, Next PROVE op' \in [VMs -> Ops]
<1>1. CASE Prepare
  BY <1>1, BeginType DEF Prepare, TypeOK, VMs, PCs
<1>2. CASE Provision
  BY <1>2, BeginType DEF Provision, TypeOK, VMs, PCs
<1>3. ASSUME NEW v \in VMs, NEW install \in BOOLEAN, NEW share \in Shares \cup
             {NoShare}, Up(v, install, share)
      PROVE  op' \in [VMs -> Ops]
  BY <1>3, BeginType DEF Up, TypeOK, PCs
<1>4. ASSUME NEW v \in VMs, NEW keep \in BOOLEAN, Down(v, keep)
      PROVE  op' \in [VMs -> Ops]
  <2>1. op \in [VMs -> Ops] /\ "shutdown" \in PCs /\ NoShare \in Shares \cup
     {NoShare}
    BY DEF TypeOK, PCs
  <2>2. Begin(v, "shutdown", FALSE, NoShare, keep)
    BY <1>4 DEF Down
  <2> QED
    BY <2>1, <2>2, BeginType
<1>5. ASSUME NEW v \in VMs, Instance(v) PROVE op' \in [VMs -> Ops]
  BY <1>5 DEF Instance, TypeOK
<1>6. ASSUME NEW v \in VMs, DownStopped(v) PROVE op' \in [VMs -> Ops]
  BY <1>6 DEF DownStopped, TypeOK
<1>7. ASSUME NEW v \in VMs, MakeDisk(v) PROVE op' \in [VMs -> Ops]
  BY <1>7, GotoType DEF MakeDisk, TypeOK, PCs
<1>8. ASSUME NEW v \in VMs, MakeConfig(v) PROVE op' \in [VMs -> Ops]
  BY <1>8, EndType DEF MakeConfig, TypeOK
<1>9. ASSUME NEW v \in VMs, ResetDisk(v) PROVE op' \in [VMs -> Ops]
  BY <1>9, GotoType DEF ResetDisk, TypeOK, PCs
<1>10. ASSUME NEW v \in VMs, ResetRefused(v) PROVE op' \in [VMs -> Ops]
  BY <1>10, EndType DEF ResetRefused, TypeOK
<1>11. ASSUME NEW v \in VMs, ResetEfi(v) PROVE op' \in [VMs -> Ops]
  BY <1>11, GotoType DEF ResetEfi, TypeOK, PCs, NextOfReset
<1>12. ASSUME NEW v \in VMs, StartDaemon(v) PROVE op' \in [VMs -> Ops]
  BY <1>12, GotoType DEF StartDaemon, TypeOK, PCs
<1>13. ASSUME NEW v \in VMs, DaemonFails(v) PROVE op' \in [VMs -> Ops]
  BY <1>13, EndType DEF DaemonFails, TypeOK, ToolFails
<1>14. ASSUME NEW v \in VMs, Mark(v) PROVE op' \in [VMs -> Ops]
  BY <1>14, GotoType DEF Mark, TypeOK, PCs
<1>15. ASSUME NEW v \in VMs, Launch(v) PROVE op' \in [VMs -> Ops]
  BY <1>15, GotoType, EndType DEF Launch, TypeOK, PCs
<1>16. ASSUME NEW v \in VMs, LaunchFails(v) PROVE op' \in [VMs -> Ops]
  BY <1>16, EndType DEF LaunchFails, TypeOK
<1>17. ASSUME NEW v \in VMs, RecordShare(v) PROVE op' \in [VMs -> Ops]
  BY <1>17, EndType DEF RecordShare, TypeOK
<1>18. ASSUME NEW v \in VMs, MarkProvisioned(v) PROVE op' \in [VMs -> Ops]
  BY <1>18, EndType DEF MarkProvisioned, TypeOK
<1>19. ASSUME NEW v \in VMs, AskShutdown(v) PROVE op' \in [VMs -> Ops]
  BY <1>19, GotoType DEF AskShutdown, TypeOK, PCs
<1>20. ASSUME NEW v \in VMs, ShutdownFails(v) PROVE op' \in [VMs -> Ops]
  BY <1>20, EndType DEF ShutdownFails, TypeOK
<1>21. ASSUME NEW v \in VMs, DownTimeout(v) PROVE op' \in [VMs -> Ops]
  BY <1>21, EndType DEF DownTimeout, TypeOK
<1>22. ASSUME NEW v \in VMs, Stopped(v) PROVE op' \in [VMs -> Ops]
  BY <1>22, GotoType DEF Stopped, TypeOK, PCs
<1>23. ASSUME NEW v \in VMs, Convert(v) PROVE op' \in [VMs -> Ops]
  BY <1>23, GotoType DEF Convert, TypeOK, PCs
<1>24. ASSUME NEW v \in VMs, ConvertFails(v) PROVE op' \in [VMs -> Ops]
  BY <1>24, EndType DEF ConvertFails, TypeOK, ToolFails
<1>25. ASSUME NEW v \in VMs, SaveEfi(v) PROVE op' \in [VMs -> Ops]
  BY <1>25, GotoType DEF SaveEfi, TypeOK, PCs
<1>26. ASSUME NEW v \in VMs, SaveDisk(v) PROVE op' \in [VMs -> Ops]
  BY <1>26, GotoType DEF SaveDisk, TypeOK, PCs
<1>27. ASSUME NEW v \in VMs, Discard(v) PROVE op' \in [VMs -> Ops]
  BY <1>27, EndType DEF Discard, TypeOK
<1>28. ASSUME NEW v \in VMs, Fails(v) PROVE op' \in [VMs -> Ops]
  BY <1>28, EndType DEF Fails, TypeOK, ToolFails
<1>29. ASSUME NEW v \in VMs, GuestWrites(v) PROVE op' \in [VMs -> Ops]
  BY <1>29 DEF GuestWrites, TypeOK
<1>30. ASSUME NEW v \in VMs, GuestOff(v) PROVE op' \in [VMs -> Ops]
  BY <1>30 DEF GuestOff, TypeOK
<1>31. ASSUME NEW v \in VMs, Kill(v) PROVE op' \in [VMs -> Ops]
  BY <1>31, EndType DEF Kill, TypeOK
<1> QED
  BY <1>1, <1>2, <1>3, <1>4, <1>5, <1>6, <1>7, <1>8, <1>9, <1>10, <1>11, <1>12,
     <1>13, <1>14, <1>15, <1>16, <1>17, <1>18, <1>19, <1>20, <1>21, <1>22,
     <1>23, <1>24, <1>25, <1>26, <1>27, <1>28, <1>29, <1>30, <1>31 DEF Next,
     Step

LEMMA TypeStep == ASSUME TypeOK, OpPlaces, GuestDisk, Next PROVE TypeOK'
<1>0. op' \in [VMs -> Ops]
  BY OpStep
<1>1. CASE Prepare
  BY <1>0, <1>1, BoundAssumption DEF Prepare, TypeOK, daemons, history, VMs,
     Contents, None, Blank
<1>2. CASE Provision
  BY <1>0, <1>2, BoundAssumption DEF Provision, TypeOK, files, daemons,
     history, VMs
<1>3. ASSUME NEW v \in VMs, NEW install \in BOOLEAN, NEW share \in Shares \cup
             {NoShare}, Up(v, install, share)
      PROVE  TypeOK'
  BY <1>0, <1>3, BoundAssumption DEF Up, TypeOK, files, daemons, history
<1>4. ASSUME NEW v \in VMs, NEW keep \in BOOLEAN, Down(v, keep) PROVE TypeOK'
  BY <1>0, <1>4, BoundAssumption DEF Down, TypeOK, files, daemons, history, VMs
<1>5. ASSUME NEW v \in VMs, Instance(v) PROVE TypeOK'
  BY <1>0, <1>5, BoundAssumption DEF Instance, TypeOK, files, daemons, history,
     VMs, Configs
<1>6. ASSUME NEW v \in VMs, DownStopped(v) PROVE TypeOK'
  BY <1>0, <1>6, BoundAssumption DEF DownStopped, StopDaemon, TypeOK, history,
     Overlays, NoOverlay, Contents, None
<1>7. ASSUME NEW v \in VMs, MakeDisk(v) PROVE TypeOK'
  BY <1>0, <1>7, BoundAssumption DEF MakeDisk, TypeOK, daemons, history,
     Contents, Blank
<1>8. ASSUME NEW v \in VMs, MakeConfig(v) PROVE TypeOK'
  BY <1>0, <1>8, BoundAssumption DEF MakeConfig, TypeOK, files, daemons,
     history, Configs, NoConfig
<1>9. ASSUME NEW v \in VMs, ResetDisk(v) PROVE TypeOK'
  BY <1>0, <1>9, BoundAssumption DEF ResetDisk, TypeOK, daemons, history, Overlays,
     Contents, None, Fresh
<1>10. ASSUME NEW v \in VMs, ResetRefused(v) PROVE TypeOK'
  BY <1>0, <1>10, BoundAssumption DEF ResetRefused, TypeOK, files, daemons,
     history
<1>11. ASSUME NEW v \in VMs, ResetEfi(v) PROVE TypeOK'
  BY <1>0, <1>11, BoundAssumption DEF ResetEfi, TypeOK, daemons, history,
     Overlays, Contents, None
<1>12. ASSUME NEW v \in VMs, StartDaemon(v) PROVE TypeOK'
  <2>1. Orphaned(v) \subseteq {"named", "stray"}
    BY DEF Orphaned, TypeOK
  <2>2. fsd' \in [VMs -> SUBSET {"named", "stray"}]
    BY <1>12, <2>1 DEF StartDaemon, TypeOK
  <2> QED
    BY <1>0, <1>12, <2>2 DEF StartDaemon, TypeOK, files, history
<1>13. ASSUME NEW v \in VMs, DaemonFails(v) PROVE TypeOK'
  <2>1. Orphaned(v) \subseteq {"named", "stray"}
    BY DEF Orphaned, TypeOK
  <2>2. fsd' \in [VMs -> SUBSET {"named", "stray"}]
    BY <1>13, <2>1 DEF DaemonFails, TypeOK
  <2> QED
    BY <1>0, <1>13, <2>2 DEF DaemonFails, TypeOK, files, history
<1>14. ASSUME NEW v \in VMs, Mark(v) PROVE TypeOK'
  <2>1. cfg' \in [VMs -> Configs]
    <3>1. cfg[v].started \/ op[v].install \in BOOLEAN
      BY DEF TypeOK, Ops, Configs
    <3>2. Mode(v) \in {"base", "overlay"} /\ cfg[v] \in Configs
      BY DEF Mode, TypeOK
    <3>3. [cfg[v] EXCEPT !.mode = Mode(v), !.started = @ \/ op[v].install] \in
       Configs
      BY <3>1, <3>2 DEF Configs
    <3>4. cfg' = [cfg EXCEPT ![v] = [cfg[v] EXCEPT !.mode = Mode(v), !.started
       = @ \/ op[v].install]]
      BY <1>14, <3>2 DEF Mark, TypeOK, Configs
    <3> QED
      BY <3>3, <3>4 DEF TypeOK
  <2> QED
    BY <1>0, <1>14, <2>1 DEF Mark, TypeOK, files, daemons, history
<1>15. ASSUME NEW v \in VMs, Launch(v) PROVE TypeOK'
  <2>1. Found(v) \in [disk : Contents \cup {None}, efi : Contents \cup {None}]
    BY DEF Found, TypeOK, Overlays, None
  <2>2. Mode(v) \in {"base", "overlay"}
    BY DEF Mode
  <2>3. guest' \in [VMs -> Guests]
    BY <1>15, <2>1, <2>2 DEF Launch, TypeOK, Guests, Ops
  <2>4. over' \in [VMs -> Overlays]
    BY <1>15, <2>1 DEF Launch, TypeOK, Overlays
  <2> QED
    BY <1>0, <1>15, <2>3, <2>4 DEF Launch, TypeOK, daemons
<1>16. ASSUME NEW v \in VMs, LaunchFails(v) PROVE TypeOK'
  <2>1. CASE op[v].share = NoShare
    BY <1>0, <1>16, <2>1 DEF LaunchFails, TypeOK, files, history
  <2>2. CASE op[v].share # NoShare
    <3>1. fsd' \in [VMs -> SUBSET {"named", "stray"}]
      BY <1>16, <2>2 DEF LaunchFails, TypeOK
    <3> QED
      BY <1>0, <1>16, <2>2, <3>1 DEF LaunchFails, TypeOK, files, history
  <2> QED
    BY <2>1, <2>2
<1>17. ASSUME NEW v \in VMs, RecordShare(v) PROVE TypeOK'
  <2>1. op[v].share \in Shares \cup {NoShare}
    BY DEF TypeOK, Ops
  <2> QED
    BY <1>0, <1>17, <2>1 DEF RecordShare, TypeOK, files, history
<1>18. ASSUME NEW v \in VMs, MarkProvisioned(v) PROVE TypeOK'
  <2>1. cfg' \in [VMs -> Configs]
    BY ZenonT(40), <1>18 DEF MarkProvisioned, TypeOK, Configs
  <2> QED
    BY <1>0, <1>18, <2>1 DEF MarkProvisioned, TypeOK, files, daemons, history
<1>19. ASSUME NEW v \in VMs, AskShutdown(v) PROVE TypeOK'
  BY <1>0, <1>19, BoundAssumption DEF AskShutdown, TypeOK, files, daemons,
     history
<1>20. ASSUME NEW v \in VMs, ShutdownFails(v) PROVE TypeOK'
  BY <1>0, <1>20, BoundAssumption DEF ShutdownFails, TypeOK, files, daemons,
     history
<1>21. ASSUME NEW v \in VMs, DownTimeout(v) PROVE TypeOK'
  BY <1>0, <1>21, BoundAssumption DEF DownTimeout, TypeOK, files, daemons,
     history
<1>22. ASSUME NEW v \in VMs, Stopped(v) PROVE TypeOK'
  BY <1>0, <1>22, BoundAssumption DEF Stopped, StopDaemon, TypeOK, files,
     history
<1>23. ASSUME NEW v \in VMs, Convert(v) PROVE TypeOK'
  <2>1. new' \in Contents \cup {None}
    BY <1>23 DEF Convert, TypeOK, At, OpPlaces, GuestDisk, Saving
  <2> QED
    BY <1>0, <1>23, <2>1 DEF Convert, TypeOK, daemons, history
<1>24. ASSUME NEW v \in VMs, ConvertFails(v) PROVE TypeOK'
  BY <1>0, <1>24, BoundAssumption DEF ConvertFails, TypeOK, daemons, history, Contents,
     None
<1>25. ASSUME NEW v \in VMs, SaveEfi(v) PROVE TypeOK'
  BY <1>0, <1>25, BoundAssumption DEF SaveEfi, TypeOK, files, daemons, history,
     VMs, Configs, NoConfig, Overlays, NoOverlay, Guests, NoGuest, Contents,
     None, Fresh, Blank
<1>26. ASSUME NEW v \in VMs, SaveDisk(v) PROVE TypeOK'
  BY <1>0, <1>26, BoundAssumption DEF SaveDisk, TypeOK, files, daemons,
     history, VMs, Configs, NoConfig, Overlays, NoOverlay, Guests, NoGuest,
     Contents, None, Fresh, Blank
<1>27. ASSUME NEW v \in VMs, Discard(v) PROVE TypeOK'
  BY <1>0, <1>27, BoundAssumption DEF Discard, TypeOK, daemons, history,
     Overlays, NoOverlay, Contents, None
<1>28. ASSUME NEW v \in VMs, Fails(v) PROVE TypeOK'
  BY <1>0, <1>28, BoundAssumption DEF Fails, TypeOK, files, daemons, history
<1>29. ASSUME NEW v \in VMs, GuestWrites(v) PROVE TypeOK'
  <2>1. latest' \in Contents
    BY <1>29, BoundAssumption DEF GuestWrites, TypeOK, Contents
  <2>2. guest' \in [VMs -> Guests]
    <3>1. guest[v] \in Guests
      BY DEF TypeOK
    <3>2. [guest[v] EXCEPT !.disk = latest', !.efi = latest'] \in Guests
      BY <2>1, <3>1 DEF Guests
    <3> QED
      BY <1>29, <3>2 DEF GuestWrites, TypeOK
  <2>3. over' \in [VMs -> Overlays] /\ disk' \in Contents \cup {None} /\ efi'
     \in Contents \cup {None}
    BY <1>29, <2>1 DEF GuestWrites, TypeOK, Overlays
  <2> QED
    BY <1>0, <1>29, <2>1, <2>2, <2>3 DEF GuestWrites, TypeOK, daemons
<1>30. ASSUME NEW v \in VMs, GuestOff(v) PROVE TypeOK'
  BY <1>0, <1>30, BoundAssumption DEF GuestOff, TypeOK, files, history, Guests,
     NoGuest
<1>31. ASSUME NEW v \in VMs, Kill(v) PROVE TypeOK'
  BY <1>0, <1>31, BoundAssumption DEF Kill, TypeOK, files, daemons, history
<1> QED
  BY <1>1, <1>2, <1>3, <1>4, <1>5, <1>6, <1>7, <1>8, <1>9, <1>10, <1>11, <1>12,
     <1>13, <1>14, <1>15, <1>16, <1>17, <1>18, <1>19, <1>20, <1>21, <1>22,
     <1>23, <1>24, <1>25, <1>26, <1>27, <1>28, <1>29, <1>30, <1>31 DEF Next,
     Step

LEMMA ModeStep == ASSUME TypeOK, ModeRecorded, OpPlaces, Next PROVE ModeRecorded'
<1>1. CASE Prepare
  BY <1>1 DEF Prepare, Begin, TypeOK, VMs, daemons, history, At, ModeRecorded,
     OpPlaces, Starting, Saving
<1>2. CASE Provision
  BY <1>2 DEF Provision, Begin, TypeOK, VMs, files, daemons, history, At,
     ModeRecorded, OpPlaces, Starting, Saving
<1>3. ASSUME NEW v \in VMs, NEW install \in BOOLEAN, NEW share \in Shares \cup
             {NoShare}, Up(v, install, share)
      PROVE  ModeRecorded'
  BY <1>3 DEF Up, Begin, MayStart, MayUseBase, Mode, TypeOK, VMs, files,
     daemons, history, At, ModeRecorded, OpPlaces, Starting, Saving
<1>4. ASSUME NEW v \in VMs, NEW keep \in BOOLEAN, Down(v, keep)
      PROVE  ModeRecorded'
  BY <1>4 DEF Down, Begin, MaySave, TypeOK, VMs, files, daemons, history, At,
     ModeRecorded, OpPlaces, Starting, Saving
<1>5. ASSUME NEW v \in VMs, Instance(v) PROVE ModeRecorded'
  BY <1>5 DEF Instance, TypeOK, Configs, VMs, files, daemons, history, At,
     ModeRecorded, OpPlaces, Starting, Saving
<1>6. ASSUME NEW v \in VMs, DownStopped(v) PROVE ModeRecorded'
  BY <1>6 DEF DownStopped, TypeOK, VMs, history, At, ModeRecorded, OpPlaces,
     Starting, Saving
<1>7. ASSUME NEW v \in VMs, MakeDisk(v) PROVE ModeRecorded'
  BY <1>7 DEF MakeDisk, Goto, TypeOK, VMs, daemons, history, At, ModeRecorded,
     OpPlaces, Starting, Saving
<1>8. ASSUME NEW v \in VMs, MakeConfig(v) PROVE ModeRecorded'
  BY <1>8 DEF MakeConfig, End, TypeOK, Configs, NoConfig, VMs, files, daemons,
     history, At, ModeRecorded, OpPlaces, Starting, Saving
<1>9. ASSUME NEW v \in VMs, ResetDisk(v) PROVE ModeRecorded'
  BY <1>9 DEF ResetDisk, Goto, TypeOK, VMs, daemons, history, At, ModeRecorded,
     OpPlaces, Starting, Saving
<1>10. ASSUME NEW v \in VMs, ResetRefused(v) PROVE ModeRecorded'
  BY <1>10 DEF ResetRefused, End, TypeOK, VMs, files, daemons, history, At,
     ModeRecorded, OpPlaces, Starting, Saving
<1>11. ASSUME NEW v \in VMs, ResetEfi(v) PROVE ModeRecorded'
  BY <1>11 DEF ResetEfi, Goto, NextOfReset, TypeOK, VMs, daemons, history, At,
     ModeRecorded, OpPlaces, Starting, Saving
<1>12. ASSUME NEW v \in VMs, StartDaemon(v) PROVE ModeRecorded'
  BY <1>12 DEF StartDaemon, Goto, TypeOK, VMs, files, history, At,
     ModeRecorded, OpPlaces, Starting, Saving
<1>13. ASSUME NEW v \in VMs, DaemonFails(v) PROVE ModeRecorded'
  BY <1>13 DEF DaemonFails, ToolFails, End, TypeOK, VMs, files, history, At,
     ModeRecorded, OpPlaces, Starting, Saving
<1>14. ASSUME NEW v \in VMs, Mark(v) PROVE ModeRecorded'
  BY <1>14 DEF Mark, Goto, Mode, TypeOK, Configs, VMs, files, daemons, history,
     At, ModeRecorded, OpPlaces, Starting, Saving
<1>15. ASSUME NEW v \in VMs, Launch(v) PROVE ModeRecorded'
  BY <1>15 DEF Launch, Goto, End, Mode, TypeOK, Guests, VMs, daemons, At,
     ModeRecorded, OpPlaces, Starting, Saving
<1>16. ASSUME NEW v \in VMs, LaunchFails(v) PROVE ModeRecorded'
  BY <1>16 DEF LaunchFails, End, TypeOK, VMs, files, history, At, ModeRecorded,
     OpPlaces, Starting, Saving
<1>17. ASSUME NEW v \in VMs, RecordShare(v) PROVE ModeRecorded'
  BY <1>17 DEF RecordShare, End, TypeOK, VMs, files, history, At, ModeRecorded,
     OpPlaces, Starting, Saving
<1>18. ASSUME NEW v \in VMs, MarkProvisioned(v) PROVE ModeRecorded'
  BY <1>18 DEF MarkProvisioned, End, TypeOK, Configs, VMs, files, daemons,
     history, At, ModeRecorded, OpPlaces, Starting, Saving
<1>19. ASSUME NEW v \in VMs, AskShutdown(v) PROVE ModeRecorded'
  BY <1>19 DEF AskShutdown, Goto, TypeOK, VMs, files, daemons, history, At,
     ModeRecorded, OpPlaces, Starting, Saving
<1>20. ASSUME NEW v \in VMs, ShutdownFails(v) PROVE ModeRecorded'
  BY <1>20 DEF ShutdownFails, End, TypeOK, VMs, files, daemons, history, At,
     ModeRecorded, OpPlaces, Starting, Saving
<1>21. ASSUME NEW v \in VMs, DownTimeout(v) PROVE ModeRecorded'
  BY <1>21 DEF DownTimeout, End, TypeOK, VMs, files, daemons, history, At,
     ModeRecorded, OpPlaces, Starting, Saving
<1>22. ASSUME NEW v \in VMs, Stopped(v) PROVE ModeRecorded'
  BY <1>22 DEF Stopped, Goto, TypeOK, VMs, files, history, At, ModeRecorded,
     OpPlaces, Starting, Saving
<1>23. ASSUME NEW v \in VMs, Convert(v) PROVE ModeRecorded'
  BY <1>23 DEF Convert, Goto, TypeOK, VMs, daemons, history, At, ModeRecorded,
     OpPlaces, Starting, Saving
<1>24. ASSUME NEW v \in VMs, ConvertFails(v) PROVE ModeRecorded'
  BY <1>24 DEF ConvertFails, ToolFails, End, TypeOK, VMs, daemons, history, At,
     ModeRecorded, OpPlaces, Starting, Saving
<1>25. ASSUME NEW v \in VMs, SaveEfi(v) PROVE ModeRecorded'
  BY <1>25 DEF SaveEfi, Goto, TypeOK, VMs, daemons, history, At, ModeRecorded,
     OpPlaces, Starting, Saving
<1>26. ASSUME NEW v \in VMs, SaveDisk(v) PROVE ModeRecorded'
  BY <1>26 DEF SaveDisk, Goto, TypeOK, VMs, daemons, history, At, ModeRecorded,
     OpPlaces, Starting, Saving
<1>27. ASSUME NEW v \in VMs, Discard(v) PROVE ModeRecorded'
  BY <1>27 DEF Discard, End, TypeOK, VMs, daemons, history, At, ModeRecorded,
     OpPlaces, Starting, Saving
<1>28. ASSUME NEW v \in VMs, Fails(v) PROVE ModeRecorded'
  BY <1>28 DEF Fails, ToolFails, End, TypeOK, VMs, files, daemons, history, At,
     ModeRecorded, OpPlaces, Starting, Saving
<1>29. ASSUME NEW v \in VMs, GuestWrites(v) PROVE ModeRecorded'
  BY <1>29 DEF GuestWrites, TypeOK, Guests, VMs, daemons, At, ModeRecorded,
     OpPlaces, Starting, Saving
<1>30. ASSUME NEW v \in VMs, GuestOff(v) PROVE ModeRecorded'
  BY <1>30 DEF GuestOff, TypeOK, Guests, NoGuest, VMs, files, history, At,
     ModeRecorded, OpPlaces, Starting, Saving
<1>31. ASSUME NEW v \in VMs, Kill(v) PROVE ModeRecorded'
  BY <1>31 DEF Kill, End, TypeOK, VMs, files, daemons, history, At,
     ModeRecorded, OpPlaces, Starting, Saving
<1> QED
  BY <1>1, <1>2, <1>3, <1>4, <1>5, <1>6, <1>7, <1>8, <1>9, <1>10, <1>11, <1>12,
     <1>13, <1>14, <1>15, <1>16, <1>17, <1>18, <1>19, <1>20, <1>21, <1>22,
     <1>23, <1>24, <1>25, <1>26, <1>27, <1>28, <1>29, <1>30, <1>31 DEF Next,
     Step

LEMMA InstallStep == ASSUME TypeOK, InstallMarked, OpPlaces, Next PROVE InstallMarked'
<1>1. CASE Prepare
  BY <1>1, VMsAssumption DEF Prepare, Begin, TypeOK, VMs, daemons, history, At,
     InstallMarked, InstallOnce, OpPlaces, Starting, Saving
<1>2. CASE Provision
  BY <1>2, VMsAssumption DEF Provision, Begin, TypeOK, VMs, files, daemons,
     history, At, InstallMarked, InstallOnce, OpPlaces, Starting, Saving
<1>3. ASSUME NEW v \in VMs, NEW install \in BOOLEAN, NEW share \in Shares \cup
             {NoShare}, Up(v, install, share)
      PROVE  InstallMarked'
  BY <1>3, VMsAssumption DEF Up, Begin, MayStart, MayUseBase, Mode, TypeOK,
     VMs, files, daemons, history, At, InstallMarked, InstallOnce, OpPlaces,
     Starting, Saving
<1>4. ASSUME NEW v \in VMs, NEW keep \in BOOLEAN, Down(v, keep)
      PROVE  InstallMarked'
  BY <1>4, VMsAssumption DEF Down, Begin, MaySave, TypeOK, VMs, files, daemons,
     history, At, InstallMarked, InstallOnce, OpPlaces, Starting, Saving
<1>5. ASSUME NEW v \in VMs, Instance(v) PROVE InstallMarked'
  BY <1>5, VMsAssumption DEF Instance, TypeOK, Configs, VMs, files, daemons,
     history, At, InstallMarked, InstallOnce, OpPlaces, Starting, Saving
<1>6. ASSUME NEW v \in VMs, DownStopped(v) PROVE InstallMarked'
  BY <1>6, VMsAssumption DEF DownStopped, TypeOK, VMs, history, At,
     InstallMarked, InstallOnce, OpPlaces, Starting, Saving
<1>7. ASSUME NEW v \in VMs, MakeDisk(v) PROVE InstallMarked'
  BY <1>7, VMsAssumption DEF MakeDisk, Goto, TypeOK, VMs, daemons, history, At,
     InstallMarked, InstallOnce, OpPlaces, Starting, Saving
<1>8. ASSUME NEW v \in VMs, MakeConfig(v) PROVE InstallMarked'
  BY <1>8, VMsAssumption DEF MakeConfig, End, TypeOK, Configs, NoConfig, VMs,
     files, daemons, history, At, InstallMarked, InstallOnce, OpPlaces,
     Starting, Saving
<1>9. ASSUME NEW v \in VMs, ResetDisk(v) PROVE InstallMarked'
  BY <1>9, VMsAssumption DEF ResetDisk, Goto, TypeOK, VMs, daemons, history, At,
     InstallMarked, InstallOnce, OpPlaces, Starting, Saving
<1>10. ASSUME NEW v \in VMs, ResetRefused(v) PROVE InstallMarked'
  BY <1>10, VMsAssumption DEF ResetRefused, End, TypeOK, Configs, Guests, Ops,
     NoOp, NoGuest, NoConfig, VMs, files, daemons, history, At, InstallMarked,
     InstallOnce, OpPlaces, Starting, Saving
<1>11. ASSUME NEW v \in VMs, ResetEfi(v) PROVE InstallMarked'
  BY <1>11, VMsAssumption DEF ResetEfi, Goto, NextOfReset, TypeOK, Configs,
     Guests, Ops, NoOp, NoGuest, NoConfig, VMs, files, daemons, history, At,
     InstallMarked, InstallOnce, OpPlaces, Starting, Saving
<1>12. ASSUME NEW v \in VMs, StartDaemon(v) PROVE InstallMarked'
  BY <1>12, VMsAssumption DEF StartDaemon, Goto, TypeOK, VMs, files, history,
     At, InstallMarked, InstallOnce, OpPlaces, Starting, Saving
<1>13. ASSUME NEW v \in VMs, DaemonFails(v) PROVE InstallMarked'
  BY <1>13, VMsAssumption DEF DaemonFails, ToolFails, End, TypeOK, Configs,
     Guests, Ops, NoOp, NoGuest, NoConfig, VMs, files, daemons, history, At,
     InstallMarked, InstallOnce, OpPlaces, Starting, Saving
<1>14. ASSUME NEW v \in VMs, Mark(v) PROVE InstallMarked'
  BY <1>14, VMsAssumption DEF Mark, Goto, Mode, TypeOK, Configs, Guests, Ops,
     NoOp, NoGuest, NoConfig, VMs, files, daemons, history, At, InstallMarked,
     InstallOnce, OpPlaces, Starting, Saving
<1>15. ASSUME NEW v \in VMs, Launch(v) PROVE InstallMarked'
  BY <1>15, VMsAssumption DEF Launch, Goto, End, Mode, TypeOK, Configs, Guests,
     Ops, NoOp, NoGuest, NoConfig, VMs, files, daemons, history, At,
     InstallMarked, InstallOnce, OpPlaces, Starting, Saving
<1>16. ASSUME NEW v \in VMs, LaunchFails(v) PROVE InstallMarked'
  BY <1>16, VMsAssumption DEF LaunchFails, End, TypeOK, Configs, Guests, Ops,
     NoOp, NoGuest, NoConfig, VMs, files, daemons, history, At, InstallMarked,
     InstallOnce, OpPlaces, Starting, Saving
<1>17. ASSUME NEW v \in VMs, RecordShare(v) PROVE InstallMarked'
  BY <1>17, VMsAssumption DEF RecordShare, End, TypeOK, Configs, Guests, Ops,
     NoOp, NoGuest, NoConfig, VMs, files, daemons, history, At, InstallMarked,
     InstallOnce, OpPlaces, Starting, Saving
<1>18. ASSUME NEW v \in VMs, MarkProvisioned(v) PROVE InstallMarked'
  BY <1>18, VMsAssumption DEF MarkProvisioned, End, TypeOK, Configs, Guests,
     Ops, NoOp, NoGuest, NoConfig, VMs, files, daemons, history, At,
     InstallMarked, InstallOnce, OpPlaces, Starting, Saving
<1>19. ASSUME NEW v \in VMs, AskShutdown(v) PROVE InstallMarked'
  BY <1>19, VMsAssumption DEF AskShutdown, Goto, TypeOK, Configs, Guests, Ops,
     NoOp, NoGuest, NoConfig, VMs, files, daemons, history, At, InstallMarked,
     InstallOnce, OpPlaces, Starting, Saving
<1>20. ASSUME NEW v \in VMs, ShutdownFails(v) PROVE InstallMarked'
  BY <1>20, VMsAssumption DEF ShutdownFails, End, TypeOK, Configs, Guests, Ops,
     NoOp, NoGuest, NoConfig, VMs, files, daemons, history, At, InstallMarked,
     InstallOnce, OpPlaces, Starting, Saving
<1>21. ASSUME NEW v \in VMs, DownTimeout(v) PROVE InstallMarked'
  BY <1>21, VMsAssumption DEF DownTimeout, End, TypeOK, Configs, Guests, Ops,
     NoOp, NoGuest, NoConfig, VMs, files, daemons, history, At, InstallMarked,
     InstallOnce, OpPlaces, Starting, Saving
<1>22. ASSUME NEW v \in VMs, Stopped(v) PROVE InstallMarked'
  BY <1>22, VMsAssumption DEF Stopped, Goto, TypeOK, Configs, Guests, Ops,
     NoOp, NoGuest, NoConfig, VMs, files, daemons, history, At, InstallMarked,
     InstallOnce, OpPlaces, Starting, Saving
<1>23. ASSUME NEW v \in VMs, Convert(v) PROVE InstallMarked'
  BY <1>23, VMsAssumption DEF Convert, Goto, TypeOK, VMs, daemons, history, At,
     InstallMarked, InstallOnce, OpPlaces, Starting, Saving
<1>24. ASSUME NEW v \in VMs, ConvertFails(v) PROVE InstallMarked'
  BY <1>24, VMsAssumption DEF ConvertFails, ToolFails, End, TypeOK, Configs,
     Guests, Ops, NoOp, NoGuest, NoConfig, VMs, files, daemons, history, At,
     InstallMarked, InstallOnce, OpPlaces, Starting, Saving
<1>25. ASSUME NEW v \in VMs, SaveEfi(v) PROVE InstallMarked'
  BY <1>25, VMsAssumption DEF SaveEfi, Goto, TypeOK, Configs, Guests, Ops,
     NoOp, NoGuest, NoConfig, VMs, files, daemons, history, At, InstallMarked,
     InstallOnce, OpPlaces, Starting, Saving
<1>26. ASSUME NEW v \in VMs, SaveDisk(v) PROVE InstallMarked'
  BY <1>26, VMsAssumption DEF SaveDisk, Goto, TypeOK, VMs, daemons, history,
     At, InstallMarked, InstallOnce, OpPlaces, Starting, Saving
<1>27. ASSUME NEW v \in VMs, Discard(v) PROVE InstallMarked'
  BY <1>27, VMsAssumption DEF Discard, End, TypeOK, Configs, Guests, Ops, NoOp,
     NoGuest, NoConfig, VMs, files, daemons, history, At, InstallMarked,
     InstallOnce, OpPlaces, Starting, Saving
<1>28. ASSUME NEW v \in VMs, Fails(v) PROVE InstallMarked'
  BY <1>28, VMsAssumption DEF Fails, ToolFails, End, TypeOK, Configs, Guests,
     Ops, NoOp, NoGuest, NoConfig, VMs, files, daemons, history, At,
     InstallMarked, InstallOnce, OpPlaces, Starting, Saving
<1>29. ASSUME NEW v \in VMs, GuestWrites(v) PROVE InstallMarked'
  BY <1>29, VMsAssumption DEF GuestWrites, TypeOK, Configs, Guests, Ops, NoOp,
     NoGuest, NoConfig, VMs, files, daemons, history, At, InstallMarked,
     InstallOnce, OpPlaces, Starting, Saving
<1>30. ASSUME NEW v \in VMs, GuestOff(v) PROVE InstallMarked'
  BY <1>30, VMsAssumption DEF GuestOff, TypeOK, Guests, NoGuest, VMs, files,
     history, At, InstallMarked, InstallOnce, OpPlaces, Starting, Saving
<1>31. ASSUME NEW v \in VMs, Kill(v) PROVE InstallMarked'
  BY <1>31, VMsAssumption DEF Kill, End, TypeOK, Configs, Guests, Ops, NoOp,
     NoGuest, NoConfig, VMs, files, daemons, history, At, InstallMarked,
     InstallOnce, OpPlaces, Starting, Saving
<1> QED
  BY <1>1, <1>2, <1>3, <1>4, <1>5, <1>6, <1>7, <1>8, <1>9, <1>10, <1>11, <1>12,
     <1>13, <1>14, <1>15, <1>16, <1>17, <1>18, <1>19, <1>20, <1>21, <1>22,
     <1>23, <1>24, <1>25, <1>26, <1>27, <1>28, <1>29, <1>30, <1>31 DEF Next,
     Step

LEMMA PlacesStep == ASSUME TypeOK, OpPlaces, ModeRecorded, Next PROVE OpPlaces'
<1>1. CASE Prepare
  BY <1>1, VMsAssumption DEF Prepare, Begin, TypeOK, VMs, daemons, history, At,
     OpPlaces, ModeRecorded, Starting, Saving, Mode
<1>2. CASE Provision
  BY <1>2, VMsAssumption DEF Provision, Begin, TypeOK, VMs, files, daemons,
     history, At, OpPlaces, ModeRecorded, Starting, Saving, Mode
<1>3. ASSUME NEW v \in VMs, NEW install \in BOOLEAN, NEW share \in Shares \cup
             {NoShare}, Up(v, install, share)
      PROVE  OpPlaces'
  BY ZenonT(40), <1>3, VMsAssumption DEF Up, Begin, MayStart, MayUseBase, Mode, TypeOK,
     VMs, files, daemons, history, At, OpPlaces, ModeRecorded, Starting, Saving
<1>4. ASSUME NEW v \in VMs, NEW keep \in BOOLEAN, Down(v, keep) PROVE OpPlaces'
  BY <1>4, VMsAssumption DEF Down, Begin, MaySave, TypeOK, VMs, files, daemons,
     history, At, OpPlaces, ModeRecorded, Starting, Saving, Mode
<1>5. ASSUME NEW v \in VMs, Instance(v) PROVE OpPlaces'
  BY <1>5, VMsAssumption DEF Instance, TypeOK, Configs, VMs, files, daemons,
     history, At, OpPlaces, ModeRecorded, Starting, Saving, Mode
<1>6. ASSUME NEW v \in VMs, DownStopped(v) PROVE OpPlaces'
  BY <1>6, VMsAssumption DEF DownStopped, TypeOK, VMs, history, At, OpPlaces,
     ModeRecorded, Starting, Saving, Mode
<1>7. ASSUME NEW v \in VMs, MakeDisk(v) PROVE OpPlaces'
  BY <1>7, VMsAssumption DEF MakeDisk, Goto, TypeOK, VMs, daemons, history, At,
     OpPlaces, ModeRecorded, Starting, Saving, Mode
<1>8. ASSUME NEW v \in VMs, MakeConfig(v) PROVE OpPlaces'
  BY <1>8, VMsAssumption DEF MakeConfig, End, TypeOK, Configs, Guests, Ops,
     NoOp, NoGuest, NoConfig, VMs, files, daemons, history, At, OpPlaces,
     ModeRecorded, Starting, Saving, Mode
<1>9. ASSUME NEW v \in VMs, ResetDisk(v) PROVE OpPlaces'
  BY <1>9, VMsAssumption DEF ResetDisk, Goto, TypeOK, Configs, Guests, Ops,
     NoOp, NoGuest, NoConfig, VMs, files, daemons, history, At, OpPlaces,
     ModeRecorded, Starting, Saving, Mode
<1>10. ASSUME NEW v \in VMs, ResetRefused(v) PROVE OpPlaces'
  BY <1>10, VMsAssumption DEF ResetRefused, End, TypeOK, Configs, Guests, Ops,
     NoOp, NoGuest, NoConfig, VMs, files, daemons, history, At, OpPlaces,
     ModeRecorded, Starting, Saving, Mode
<1>11. ASSUME NEW v \in VMs, ResetEfi(v) PROVE OpPlaces'
  BY <1>11, VMsAssumption DEF ResetEfi, Goto, NextOfReset, TypeOK, Configs,
     Guests, Ops, NoOp, NoGuest, NoConfig, VMs, files, daemons, history, At,
     OpPlaces, ModeRecorded, Starting, Saving, Mode
<1>12. ASSUME NEW v \in VMs, StartDaemon(v) PROVE OpPlaces'
  BY <1>12, VMsAssumption DEF StartDaemon, Goto, TypeOK, VMs, files, history,
     At, OpPlaces, ModeRecorded, Starting, Saving, Mode
<1>13. ASSUME NEW v \in VMs, DaemonFails(v) PROVE OpPlaces'
  BY <1>13, VMsAssumption DEF DaemonFails, ToolFails, End, TypeOK, Configs,
     Guests, Ops, NoOp, NoGuest, NoConfig, VMs, files, daemons, history, At,
     OpPlaces, ModeRecorded, Starting, Saving, Mode
<1>14. ASSUME NEW v \in VMs, Mark(v) PROVE OpPlaces'
  BY <1>14, VMsAssumption DEF Mark, Goto, Mode, TypeOK, Configs, Guests, Ops,
     NoOp, NoGuest, NoConfig, VMs, files, daemons, history, At, OpPlaces,
     ModeRecorded, Starting, Saving
<1>15. ASSUME NEW v \in VMs, Launch(v) PROVE OpPlaces'
  BY <1>15, VMsAssumption DEF Launch, Goto, End, Mode, TypeOK, Configs, Guests,
     Ops, NoOp, NoGuest, NoConfig, VMs, files, daemons, history, At, OpPlaces,
     ModeRecorded, Starting, Saving
<1>16. ASSUME NEW v \in VMs, LaunchFails(v) PROVE OpPlaces'
  BY <1>16, VMsAssumption DEF LaunchFails, End, TypeOK, Configs, Guests, Ops,
     NoOp, NoGuest, NoConfig, VMs, files, daemons, history, At, OpPlaces,
     ModeRecorded, Starting, Saving, Mode
<1>17. ASSUME NEW v \in VMs, RecordShare(v) PROVE OpPlaces'
  BY <1>17, VMsAssumption DEF RecordShare, End, TypeOK, Configs, Guests, Ops,
     NoOp, NoGuest, NoConfig, VMs, files, daemons, history, At, OpPlaces,
     ModeRecorded, Starting, Saving, Mode
<1>18. ASSUME NEW v \in VMs, MarkProvisioned(v) PROVE OpPlaces'
  BY <1>18, VMsAssumption DEF MarkProvisioned, End, TypeOK, Configs, Guests,
     Ops, NoOp, NoGuest, NoConfig, VMs, files, daemons, history, At, OpPlaces,
     ModeRecorded, Starting, Saving, Mode
<1>19. ASSUME NEW v \in VMs, AskShutdown(v) PROVE OpPlaces'
  BY <1>19, VMsAssumption DEF AskShutdown, Goto, TypeOK, Configs, Guests, Ops,
     NoOp, NoGuest, NoConfig, VMs, files, daemons, history, At, OpPlaces,
     ModeRecorded, Starting, Saving, Mode
<1>20. ASSUME NEW v \in VMs, ShutdownFails(v) PROVE OpPlaces'
  BY <1>20, VMsAssumption DEF ShutdownFails, End, TypeOK, Configs, Guests, Ops,
     NoOp, NoGuest, NoConfig, VMs, files, daemons, history, At, OpPlaces,
     ModeRecorded, Starting, Saving, Mode
<1>21. ASSUME NEW v \in VMs, DownTimeout(v) PROVE OpPlaces'
  BY <1>21, VMsAssumption DEF DownTimeout, End, TypeOK, Configs, Guests, Ops,
     NoOp, NoGuest, NoConfig, VMs, files, daemons, history, At, OpPlaces,
     ModeRecorded, Starting, Saving, Mode
<1>22. ASSUME NEW v \in VMs, Stopped(v) PROVE OpPlaces'
  BY <1>22, VMsAssumption DEF Stopped, Goto, TypeOK, Configs, Guests, Ops,
     NoOp, NoGuest, NoConfig, VMs, files, daemons, history, At, OpPlaces,
     ModeRecorded, Starting, Saving, Mode
<1>23. ASSUME NEW v \in VMs, Convert(v) PROVE OpPlaces'
  BY <1>23, VMsAssumption DEF Convert, Goto, TypeOK, VMs, daemons, history, At,
     OpPlaces, ModeRecorded, Starting, Saving, Mode
<1>24. ASSUME NEW v \in VMs, ConvertFails(v) PROVE OpPlaces'
  BY <1>24, VMsAssumption DEF ConvertFails, ToolFails, End, TypeOK, Configs,
     Guests, Ops, NoOp, NoGuest, NoConfig, VMs, files, daemons, history, At,
     OpPlaces, ModeRecorded, Starting, Saving, Mode
<1>25. ASSUME NEW v \in VMs, SaveEfi(v) PROVE OpPlaces'
  BY <1>25, VMsAssumption DEF SaveEfi, Goto, TypeOK, Configs, Guests, Ops,
     NoOp, NoGuest, NoConfig, VMs, files, daemons, history, At, OpPlaces,
     ModeRecorded, Starting, Saving, Mode
<1>26. ASSUME NEW v \in VMs, SaveDisk(v) PROVE OpPlaces'
  BY <1>26, VMsAssumption DEF SaveDisk, Goto, TypeOK, VMs, daemons, history,
     At, OpPlaces, ModeRecorded, Starting, Saving, Mode
<1>27. ASSUME NEW v \in VMs, Discard(v) PROVE OpPlaces'
  BY <1>27, VMsAssumption DEF Discard, End, TypeOK, Configs, Guests, Ops, NoOp,
     NoGuest, NoConfig, VMs, files, daemons, history, At, OpPlaces,
     ModeRecorded, Starting, Saving, Mode
<1>28. ASSUME NEW v \in VMs, Fails(v) PROVE OpPlaces'
  BY <1>28, VMsAssumption DEF Fails, ToolFails, End, TypeOK, Configs, Guests,
     Ops, NoOp, NoGuest, NoConfig, VMs, files, daemons, history, At, OpPlaces,
     ModeRecorded, Starting, Saving, Mode
<1>29. ASSUME NEW v \in VMs, GuestWrites(v) PROVE OpPlaces'
  BY <1>29, VMsAssumption DEF GuestWrites, TypeOK, Configs, Guests, Ops, NoOp,
     NoGuest, NoConfig, VMs, files, daemons, history, At, OpPlaces,
     ModeRecorded, Starting, Saving, Mode
<1>30. ASSUME NEW v \in VMs, GuestOff(v) PROVE OpPlaces'
  BY <1>30, VMsAssumption DEF GuestOff, TypeOK, Guests, NoGuest, VMs, files,
     history, At, OpPlaces, ModeRecorded, Starting, Saving, Mode
<1>31. ASSUME NEW v \in VMs, Kill(v) PROVE OpPlaces'
  BY <1>31, VMsAssumption DEF Kill, End, TypeOK, Configs, Guests, Ops, NoOp,
     NoGuest, NoConfig, VMs, files, daemons, history, At, OpPlaces,
     ModeRecorded, Starting, Saving, Mode
<1> QED
  BY <1>1, <1>2, <1>3, <1>4, <1>5, <1>6, <1>7, <1>8, <1>9, <1>10, <1>11, <1>12,
     <1>13, <1>14, <1>15, <1>16, <1>17, <1>18, <1>19, <1>20, <1>21, <1>22,
     <1>23, <1>24, <1>25, <1>26, <1>27, <1>28, <1>29, <1>30, <1>31 DEF Next,
     Step

LEMMA DiskStep == ASSUME TypeOK, GuestDisk, OpPlaces, ModeRecorded, Next PROVE GuestDisk'
<1>1. CASE Prepare
  BY <1>1, VMsAssumption, BoundAssumption DEF Prepare, Begin, GuestDisk,
     OpPlaces, ModeRecorded, Starting, Saving, TypeOK, VMs, daemons, history,
     At, Mode, Contents, None, Fresh, Blank
<1>2. CASE Provision
  BY <1>2, VMsAssumption, BoundAssumption DEF Provision, Begin, GuestDisk,
     OpPlaces, ModeRecorded, Starting, Saving, TypeOK, VMs, files, daemons,
     history, At, Mode, Contents, None, Fresh
<1>3. ASSUME NEW v \in VMs, NEW install \in BOOLEAN, NEW share \in Shares \cup
             {NoShare}, Up(v, install, share)
      PROVE  GuestDisk'
  BY <1>3, VMsAssumption, BoundAssumption DEF Up, Begin, MayStart, MayUseBase,
     Mode, GuestDisk, OpPlaces, ModeRecorded, Starting, Saving, TypeOK, VMs,
     files, daemons, history, At, Contents, None, Fresh
<1>4. ASSUME NEW v \in VMs, NEW keep \in BOOLEAN, Down(v, keep)
      PROVE  GuestDisk'
  BY <1>4, VMsAssumption, BoundAssumption DEF Down, Begin, MaySave, GuestDisk,
     OpPlaces, ModeRecorded, Starting, Saving, TypeOK, VMs, files, daemons,
     history, At, Mode, Contents, None, Fresh
<1>5. ASSUME NEW v \in VMs, Instance(v) PROVE GuestDisk'
  BY <1>5, VMsAssumption, BoundAssumption DEF Instance, GuestDisk, OpPlaces,
     ModeRecorded, Starting, Saving, TypeOK, Configs, VMs, files, daemons,
     history, At, Mode, Contents, None, Fresh
<1>6. ASSUME NEW v \in VMs, DownStopped(v) PROVE GuestDisk'
  BY <1>6, VMsAssumption, BoundAssumption DEF DownStopped, GuestDisk, OpPlaces,
     ModeRecorded, Starting, Saving, TypeOK, Overlays, NoOverlay, VMs, history,
     At, Mode, Contents, None, Fresh
<1>7. ASSUME NEW v \in VMs, MakeDisk(v) PROVE GuestDisk'
  BY <1>7, VMsAssumption, BoundAssumption DEF MakeDisk, Goto, GuestDisk,
     OpPlaces, ModeRecorded, Starting, Saving, TypeOK, VMs, daemons, history,
     At, Mode, Contents, None, Fresh, Blank
<1>8. ASSUME NEW v \in VMs, MakeConfig(v) PROVE GuestDisk'
  BY <1>8, VMsAssumption, BoundAssumption DEF MakeConfig, End, GuestDisk,
     OpPlaces, ModeRecorded, Starting, Saving, TypeOK, Configs, Guests, Ops,
     Overlays, NoOp, NoGuest, NoConfig, NoOverlay, VMs, files, daemons,
     history, At, Mode, Contents, None, Fresh, Blank
<1>9. ASSUME NEW v \in VMs, ResetDisk(v) PROVE GuestDisk'
  BY <1>9, VMsAssumption, BoundAssumption DEF ResetDisk, Goto, GuestDisk,
     OpPlaces, ModeRecorded, Starting, Saving, TypeOK, Configs, Guests, Ops,
     Overlays, NoOp, NoGuest, NoConfig, NoOverlay, VMs, files, daemons,
     history, At, Mode, Contents, None, Fresh, Blank
<1>10. ASSUME NEW v \in VMs, ResetRefused(v) PROVE GuestDisk'
  BY <1>10, VMsAssumption, BoundAssumption DEF ResetRefused, End, GuestDisk,
     OpPlaces, ModeRecorded, Starting, Saving, TypeOK, Configs, Guests, Ops,
     Overlays, NoOp, NoGuest, NoConfig, NoOverlay, VMs, files, daemons,
     history, At, Mode, Contents, None, Fresh, Blank
<1>11. ASSUME NEW v \in VMs, ResetEfi(v) PROVE GuestDisk'
  BY <1>11, VMsAssumption, BoundAssumption DEF ResetEfi, Goto, NextOfReset,
     GuestDisk, OpPlaces, ModeRecorded, Starting, Saving, TypeOK, Configs,
     Guests, Ops, Overlays, NoOp, NoGuest, NoConfig, NoOverlay, VMs, files,
     daemons, history, At, Mode, Contents, None, Fresh, Blank
<1>12. ASSUME NEW v \in VMs, StartDaemon(v) PROVE GuestDisk'
  BY <1>12, VMsAssumption, BoundAssumption DEF StartDaemon, Goto, GuestDisk,
     OpPlaces, ModeRecorded, Starting, Saving, TypeOK, VMs, files, history, At,
     Mode, Contents, None, Fresh
<1>13. ASSUME NEW v \in VMs, DaemonFails(v) PROVE GuestDisk'
  BY <1>13, VMsAssumption, BoundAssumption DEF DaemonFails, ToolFails, End,
     GuestDisk, OpPlaces, ModeRecorded, Starting, Saving, TypeOK, Configs,
     Guests, Ops, Overlays, NoOp, NoGuest, NoConfig, NoOverlay, VMs, files,
     daemons, history, At, Mode, Contents, None, Fresh, Blank
<1>14. ASSUME NEW v \in VMs, Mark(v) PROVE GuestDisk'
  BY <1>14, VMsAssumption, BoundAssumption DEF Mark, Goto, Mode, GuestDisk,
     OpPlaces, ModeRecorded, Starting, Saving, TypeOK, Configs, Guests, Ops,
     Overlays, NoOp, NoGuest, NoConfig, NoOverlay, VMs, files, daemons,
     history, At, Contents, None, Fresh, Blank
<1>15. ASSUME NEW v \in VMs, Launch(v) PROVE GuestDisk'
  <2>1. CASE v # Base
    <3>1. guest'[Base] = guest[Base] /\ over'[Base] = over[Base] /\ op'[Base] =
       op[Base]
      BY <1>15, <2>1 DEF Launch, End, Goto, TypeOK, VMs
    <3>2. \A i \in Instances : guest'[i].on => guest'[i].mode = "overlay"
      BY <1>15, <2>1 DEF Launch, GuestDisk, At, VMs, OpPlaces, Starting, Mode,
         TypeOK, Guests
    <3> QED
      BY <1>15, <2>1, <3>1, <3>2 DEF Launch, GuestDisk, At, VMs
  <2>2. CASE v = Base
    <3>1. disk \in Contents
      BY <1>15, <2>2 DEF Launch, At, OpPlaces, Starting, GuestDisk, VMs
    <3>2. Found(Base).disk = disk
      BY <1>15, <2>2, <3>1 DEF Launch, At, Found, Mode, GuestDisk
    <3>3. guest'[Base].disk = disk /\ guest'[Base].mode = Mode(Base)
      BY <1>15, <2>2, <3>2 DEF Launch, TypeOK, VMs
    <3>4. Mode(Base) = "overlay" => over'[Base].disk = disk
      BY <1>15, <2>2, <3>2 DEF Launch, TypeOK, VMs
    <3>5. op'[Base].pc \in {"idle", "share"}
      BY <1>15, <2>2 DEF Launch, End, Goto, NoOp, TypeOK, VMs, Ops
    <3>6. \A i \in Instances : guest'[i] = guest[i]
      BY <1>15, <2>2, VMsAssumption DEF Launch, TypeOK, VMs
    <3> QED
      BY <1>15, <3>1, <3>3, <3>4, <3>5, <3>6 DEF Launch, GuestDisk, At, VMs,
         Mode
  <2> QED
    BY <2>1, <2>2
<1>16. ASSUME NEW v \in VMs, LaunchFails(v) PROVE GuestDisk'
  BY <1>16, VMsAssumption, BoundAssumption DEF LaunchFails, End, GuestDisk,
     OpPlaces, ModeRecorded, Starting, Saving, TypeOK, Configs, Guests, Ops,
     Overlays, NoOp, NoGuest, NoConfig, NoOverlay, VMs, files, daemons,
     history, At, Mode, Contents, None, Fresh, Blank
<1>17. ASSUME NEW v \in VMs, RecordShare(v) PROVE GuestDisk'
  BY <1>17, VMsAssumption, BoundAssumption DEF RecordShare, End, GuestDisk,
     OpPlaces, ModeRecorded, Starting, Saving, TypeOK, Configs, Guests, Ops,
     Overlays, NoOp, NoGuest, NoConfig, NoOverlay, VMs, files, daemons,
     history, At, Mode, Contents, None, Fresh, Blank
<1>18. ASSUME NEW v \in VMs, MarkProvisioned(v) PROVE GuestDisk'
  BY <1>18, VMsAssumption, BoundAssumption DEF MarkProvisioned, End, GuestDisk,
     OpPlaces, ModeRecorded, Starting, Saving, TypeOK, Configs, Guests, Ops,
     Overlays, NoOp, NoGuest, NoConfig, NoOverlay, VMs, files, daemons,
     history, At, Mode, Contents, None, Fresh, Blank
<1>19. ASSUME NEW v \in VMs, AskShutdown(v) PROVE GuestDisk'
  BY <1>19, VMsAssumption, BoundAssumption DEF AskShutdown, Goto, GuestDisk,
     OpPlaces, ModeRecorded, Starting, Saving, TypeOK, Configs, Guests, Ops,
     Overlays, NoOp, NoGuest, NoConfig, NoOverlay, VMs, files, daemons,
     history, At, Mode, Contents, None, Fresh, Blank
<1>20. ASSUME NEW v \in VMs, ShutdownFails(v) PROVE GuestDisk'
  BY <1>20, VMsAssumption, BoundAssumption DEF ShutdownFails, End, GuestDisk,
     OpPlaces, ModeRecorded, Starting, Saving, TypeOK, Configs, Guests, Ops,
     Overlays, NoOp, NoGuest, NoConfig, NoOverlay, VMs, files, daemons,
     history, At, Mode, Contents, None, Fresh, Blank
<1>21. ASSUME NEW v \in VMs, DownTimeout(v) PROVE GuestDisk'
  BY <1>21, VMsAssumption, BoundAssumption DEF DownTimeout, End, GuestDisk,
     OpPlaces, ModeRecorded, Starting, Saving, TypeOK, Configs, Guests, Ops,
     Overlays, NoOp, NoGuest, NoConfig, NoOverlay, VMs, files, daemons,
     history, At, Mode, Contents, None, Fresh, Blank
<1>22. ASSUME NEW v \in VMs, Stopped(v) PROVE GuestDisk'
  BY <1>22, VMsAssumption, BoundAssumption DEF Stopped, Goto, GuestDisk,
     OpPlaces, ModeRecorded, Starting, Saving, TypeOK, Configs, Guests, Ops,
     Overlays, NoOp, NoGuest, NoConfig, NoOverlay, VMs, files, daemons,
     history, At, Mode, Contents, None, Fresh, Blank
<1>23. ASSUME NEW v \in VMs, Convert(v) PROVE GuestDisk'
  BY <1>23, VMsAssumption, BoundAssumption DEF Convert, Goto, GuestDisk,
     OpPlaces, ModeRecorded, Starting, Saving, TypeOK, VMs, daemons, history,
     At, Mode, Contents, None, Fresh
<1>24. ASSUME NEW v \in VMs, ConvertFails(v) PROVE GuestDisk'
  BY <1>24, VMsAssumption, BoundAssumption DEF ConvertFails, ToolFails, End,
     GuestDisk, OpPlaces, ModeRecorded, Starting, Saving, TypeOK, Configs,
     Guests, Ops, Overlays, NoOp, NoGuest, NoConfig, NoOverlay, VMs, files,
     daemons, history, At, Mode, Contents, None, Fresh, Blank
<1>25. ASSUME NEW v \in VMs, SaveEfi(v) PROVE GuestDisk'
  BY <1>25, VMsAssumption, BoundAssumption DEF SaveEfi, Goto, GuestDisk,
     OpPlaces, ModeRecorded, Starting, Saving, TypeOK, Configs, Guests, Ops,
     Overlays, NoOp, NoGuest, NoConfig, NoOverlay, VMs, files, daemons,
     history, At, Mode, Contents, None, Fresh, Blank
<1>26. ASSUME NEW v \in VMs, SaveDisk(v) PROVE GuestDisk'
  BY <1>26, VMsAssumption, BoundAssumption DEF SaveDisk, Goto, GuestDisk,
     OpPlaces, ModeRecorded, Starting, Saving, TypeOK, Configs, Guests, Ops,
     Overlays, NoOp, NoGuest, NoConfig, NoOverlay, VMs, files, daemons,
     history, At, Mode, Contents, None, Fresh, Blank
<1>27. ASSUME NEW v \in VMs, Discard(v) PROVE GuestDisk'
  BY <1>27, VMsAssumption, BoundAssumption DEF Discard, End, GuestDisk,
     OpPlaces, ModeRecorded, Starting, Saving, TypeOK, Configs, Guests, Ops,
     Overlays, NoOp, NoGuest, NoConfig, NoOverlay, VMs, files, daemons,
     history, At, Mode, Contents, None, Fresh, Blank
<1>28. ASSUME NEW v \in VMs, Fails(v) PROVE GuestDisk'
  BY <1>28, VMsAssumption, BoundAssumption DEF Fails, ToolFails, End,
     GuestDisk, OpPlaces, ModeRecorded, Starting, Saving, TypeOK, Configs,
     Guests, Ops, Overlays, NoOp, NoGuest, NoConfig, NoOverlay, VMs, files,
     daemons, history, At, Mode, Contents, None, Fresh, Blank
<1>29. ASSUME NEW v \in VMs, GuestWrites(v) PROVE GuestDisk'
  <2>1. latest' \in Contents
    BY <1>29, BoundAssumption DEF GuestWrites, TypeOK, Contents
  <2>2. op[v].pc \notin Saving /\ op[v].pc \notin {"makeDisk", "makeConfig",
     "resetEfi", "daemon", "mark", "launch"}
    BY <1>29 DEF GuestWrites, OpPlaces, Starting
  <2>3. CASE v # Base
    <3>1. guest'[Base] = guest[Base] /\ over'[Base] = over[Base]
      BY <1>29, <2>3 DEF GuestWrites, TypeOK, VMs
    <3>2. CASE guest[v].mode = "base"
      BY <1>29, <2>3, <3>2 DEF VMs, GuestWrites, GuestDisk
    <3>3. CASE guest[v].mode # "base"
      BY <1>29, <2>3, <3>1, <3>3, VMsAssumption DEF GuestWrites, GuestDisk, At,
         VMs, TypeOK, Guests
    <3> QED
      BY <3>2, <3>3
  <2>4. CASE v = Base
    <3>1. guest'[Base].disk = latest' /\ guest'[Base].on /\ guest'[Base].mode =
       guest[Base].mode
      BY <1>29, <2>4 DEF GuestWrites, TypeOK, VMs, Guests
    <3>2. guest[Base].mode = "base" => disk' = latest' /\ over' = over
      BY <1>29, <2>4 DEF GuestWrites
    <3>3. guest[Base].mode # "base" => disk' = disk /\ over'[Base].disk =
       latest'
      BY <1>29, <2>4 DEF GuestWrites, TypeOK, VMs
    <3>4. \A i \in Instances : guest'[i] = guest[i]
      BY <1>29, <2>4, VMsAssumption DEF GuestWrites, TypeOK, VMs
    <3> QED
      BY <1>29, <2>1, <2>2, <2>4, <3>1, <3>2, <3>3, <3>4 DEF GuestWrites,
         GuestDisk, ModeRecorded, Saving, At, VMs, TypeOK, Guests, Contents,
         None
  <2> QED
    BY <2>3, <2>4
<1>30. ASSUME NEW v \in VMs, GuestOff(v) PROVE GuestDisk'
  BY <1>30, VMsAssumption, BoundAssumption DEF GuestOff, GuestDisk, OpPlaces,
     ModeRecorded, Starting, Saving, TypeOK, Configs, Guests, Ops, Overlays,
     NoOp, NoGuest, NoConfig, NoOverlay, VMs, files, daemons, history, At,
     Mode, Contents, None, Fresh, Blank
<1>31. ASSUME NEW v \in VMs, Kill(v) PROVE GuestDisk'
  BY <1>31, VMsAssumption, BoundAssumption DEF Kill, End, GuestDisk, OpPlaces,
     ModeRecorded, Starting, Saving, TypeOK, Configs, Guests, Ops, Overlays,
     NoOp, NoGuest, NoConfig, NoOverlay, VMs, files, daemons, history, At,
     Mode, Contents, None, Fresh, Blank
<1> QED
  BY <1>1, <1>2, <1>3, <1>4, <1>5, <1>6, <1>7, <1>8, <1>9, <1>10, <1>11, <1>12,
     <1>13, <1>14, <1>15, <1>16, <1>17, <1>18, <1>19, <1>20, <1>21, <1>22,
     <1>23, <1>24, <1>25, <1>26, <1>27, <1>28, <1>29, <1>30, <1>31 DEF Next,
     Step

LEMMA InitInv == Init => IInv
BY VMsAssumption, BoundAssumption DEF Init, IInv, TypeOK, ModeRecorded,
   InstallMarked, InstallOnce, OpPlaces, GuestDisk, Starting, Saving, At, VMs,
   Configs, NoConfig, Overlays, NoOverlay, Guests, NoGuest, Ops, NoOp, PCs,
   Contents, None, Fresh, Blank

LEMMA InvStep == ASSUME IInv, [Next]_vars PROVE IInv'
<1>1. CASE Next
  BY <1>1, TypeStep, ModeStep, InstallStep, PlacesStep, DiskStep DEF IInv
<1>2. CASE UNCHANGED vars
  BY <1>2 DEF vars, IInv, TypeOK, ModeRecorded, InstallMarked, InstallOnce,
     OpPlaces, GuestDisk, At, Mode
<1> QED
  BY <1>1, <1>2

\* The inductive invariant holds in every reachable state.
THEOREM Invariant == Spec => []IInv
<1>1. IInv /\ [Next]_vars => IInv'
  BY InvStep
<1> QED
  BY <1>1, InitInv, PTL DEF Spec

\* Type correctness.
THEOREM TypeCorrect == Spec => []TypeOK
<1>1. IInv => TypeOK
  BY DEF IInv
<1> QED
  BY <1>1, Invariant, PTL

\* The installer is attached at most once, whatever fails or is killed.
THEOREM InstalledOnce == Spec => []InstallOnce
<1>1. IInv => InstallOnce
  BY DEF IInv, InstallMarked
<1> QED
  BY <1>1, Invariant, PTL

\* A step of the commands or of a guest is a step of the reset point or
\* leaves it alone.
LEMMA ResetStep == ASSUME IInv, Next PROVE [Reset!Next]_(Reset!vars)
<1> USE DEF IInv
<1>1. CASE Prepare
  BY <1>1 DEF Prepare, files, Reset!vars
<1>2. CASE Provision
  BY <1>2 DEF Provision, files, Reset!vars
<1>3. ASSUME NEW v \in VMs, NEW install \in BOOLEAN, NEW share \in Shares \cup
             {NoShare}, Up(v, install, share)
      PROVE  [Reset!Next]_(Reset!vars)
  BY <1>3 DEF Up, files, Reset!vars
<1>4. ASSUME NEW v \in VMs, NEW keep \in BOOLEAN, Down(v, keep)
      PROVE  [Reset!Next]_(Reset!vars)
  BY <1>4 DEF Down, files, Reset!vars
<1>5. ASSUME NEW v \in VMs, Instance(v) PROVE [Reset!Next]_(Reset!vars)
  BY <1>5 DEF Instance, files, Reset!vars
<1>6. ASSUME NEW v \in VMs, DownStopped(v) PROVE [Reset!Next]_(Reset!vars)
  <2>1. CASE v = Base
    <3>1. ~guest[Base].on /\ over'[Base].disk = None /\ UNCHANGED <<disk,
       guest>>
      BY <1>6, <2>1 DEF DownStopped, NoOverlay, TypeOK, VMs
    <3> QED
      BY <3>1 DEF Reset!Discard, Reset!Next
  <2>2. CASE v # Base
    BY <1>6, <2>2 DEF DownStopped, Reset!vars, TypeOK, VMs
  <2> QED
    BY <2>1, <2>2
<1>7. ASSUME NEW v \in VMs, MakeDisk(v) PROVE [Reset!Next]_(Reset!vars)
  <2>1. disk = None /\ disk' \in Contents /\ UNCHANGED <<guest, over>>
    BY <1>7, BoundAssumption DEF MakeDisk, OpPlaces, GuestDisk, At, Blank,
       Contents
  <2> QED
    BY <2>1 DEF Reset!Create, Reset!Next
<1>8. ASSUME NEW v \in VMs, MakeConfig(v) PROVE [Reset!Next]_(Reset!vars)
  BY <1>8 DEF MakeConfig, files, Reset!vars
<1>9. ASSUME NEW v \in VMs, ResetDisk(v) PROVE [Reset!Next]_(Reset!vars)
  <2>1. CASE v = Base
    <3>1. ~guest[Base].on /\ over'[Base].disk = Fresh /\ UNCHANGED <<guest,
       disk>>
      BY <1>9, <2>1 DEF ResetDisk, At, OpPlaces, Starting, TypeOK, VMs,
         Overlays
    <3> QED
      BY <3>1 DEF Reset!Discard, Reset!Next, None
  <2>2. CASE v # Base
    BY <1>9, <2>2 DEF ResetDisk, Reset!vars, TypeOK, VMs
  <2> QED
    BY <2>1, <2>2
<1>10. ASSUME NEW v \in VMs, ResetRefused(v) PROVE [Reset!Next]_(Reset!vars)
  BY <1>10 DEF ResetRefused, files, Reset!vars
<1>11. ASSUME NEW v \in VMs, ResetEfi(v) PROVE [Reset!Next]_(Reset!vars)
  <2>1. over'[Base].disk = over[Base].disk
    BY <1>11 DEF ResetEfi, TypeOK, VMs, Overlays
  <2> QED
    BY <1>11, <2>1 DEF ResetEfi, Reset!vars
<1>12. ASSUME NEW v \in VMs, StartDaemon(v) PROVE [Reset!Next]_(Reset!vars)
  BY <1>12 DEF StartDaemon, files, Reset!vars
<1>13. ASSUME NEW v \in VMs, DaemonFails(v) PROVE [Reset!Next]_(Reset!vars)
  BY <1>13 DEF DaemonFails, files, Reset!vars
<1>14. ASSUME NEW v \in VMs, Mark(v) PROVE [Reset!Next]_(Reset!vars)
  BY <1>14 DEF Mark, files, Reset!vars
<1>15. ASSUME NEW v \in VMs, Launch(v) PROVE [Reset!Next]_(Reset!vars)
  <2>1. CASE v = Base
    <3>1. ~guest[Base].on /\ disk \in Contents
      BY <1>15, <2>1 DEF Launch, At, OpPlaces, Starting, GuestDisk, VMs
    <3>2. Found(Base).disk = disk
      BY <1>15, <2>1, <3>1 DEF Launch, At, Found, Mode, GuestDisk
    <3>3. guest'[Base].disk = disk /\ guest'[Base].on
      BY <1>15, <2>1, <3>2 DEF Launch, TypeOK, VMs
    <3>4. UNCHANGED disk
      BY <1>15 DEF Launch
    <3>5. disk # None
      BY <3>1 DEF Contents, None
    <3> QED
      BY <3>1, <3>3, <3>4, <3>5 DEF Reset!Boot, Reset!Next
  <2>2. CASE v # Base
    BY <1>15, <2>2 DEF Launch, Reset!vars, TypeOK, VMs
  <2> QED
    BY <2>1, <2>2
<1>16. ASSUME NEW v \in VMs, LaunchFails(v) PROVE [Reset!Next]_(Reset!vars)
  BY <1>16 DEF LaunchFails, files, Reset!vars
<1>17. ASSUME NEW v \in VMs, RecordShare(v) PROVE [Reset!Next]_(Reset!vars)
  BY <1>17 DEF RecordShare, files, Reset!vars
<1>18. ASSUME NEW v \in VMs, MarkProvisioned(v) PROVE [Reset!Next]_(Reset!vars)
  BY <1>18 DEF MarkProvisioned, files, Reset!vars
<1>19. ASSUME NEW v \in VMs, AskShutdown(v) PROVE [Reset!Next]_(Reset!vars)
  BY <1>19 DEF AskShutdown, files, Reset!vars
<1>20. ASSUME NEW v \in VMs, ShutdownFails(v) PROVE [Reset!Next]_(Reset!vars)
  BY <1>20 DEF ShutdownFails, files, Reset!vars
<1>21. ASSUME NEW v \in VMs, DownTimeout(v) PROVE [Reset!Next]_(Reset!vars)
  BY <1>21 DEF DownTimeout, files, Reset!vars
<1>22. ASSUME NEW v \in VMs, Stopped(v) PROVE [Reset!Next]_(Reset!vars)
  BY <1>22 DEF Stopped, files, Reset!vars
<1>23. ASSUME NEW v \in VMs, Convert(v) PROVE [Reset!Next]_(Reset!vars)
  BY <1>23 DEF Convert, files, Reset!vars
<1>24. ASSUME NEW v \in VMs, ConvertFails(v) PROVE [Reset!Next]_(Reset!vars)
  BY <1>24 DEF ConvertFails, files, Reset!vars
<1>25. ASSUME NEW v \in VMs, SaveEfi(v) PROVE [Reset!Next]_(Reset!vars)
  BY <1>25 DEF SaveEfi, files, Reset!vars
<1>26. ASSUME NEW v \in VMs, SaveDisk(v) PROVE [Reset!Next]_(Reset!vars)
  <2>1. v = Base /\ ~guest[Base].on /\ disk' = new /\ UNCHANGED <<guest, over>>
    BY <1>26 DEF SaveDisk, At, OpPlaces, Saving
  <2>2. CASE cfg[Base].mode = "base"
    BY <1>26, <2>1, <2>2 DEF SaveDisk, At, GuestDisk, Reset!vars
  <2>3. CASE cfg[Base].mode = "overlay"
    <3>1. new = over[Base].disk /\ over[Base].disk \in Contents
      BY <1>26, <2>1, <2>3 DEF SaveDisk, At, GuestDisk
    <3> QED
      BY <2>1, <3>1 DEF Reset!Save, Reset!Next, Contents, None, Fresh
  <2> QED
    BY <2>2, <2>3 DEF TypeOK, VMs, Configs
<1>27. ASSUME NEW v \in VMs, Discard(v) PROVE [Reset!Next]_(Reset!vars)
  <2>1. CASE v = Base
    <3>1. ~guest[Base].on /\ over'[Base].disk = None /\ UNCHANGED <<disk,
       guest>>
      BY <1>27, <2>1 DEF Discard, At, OpPlaces, NoOverlay, TypeOK, VMs
    <3> QED
      BY <3>1 DEF Reset!Discard, Reset!Next
  <2>2. CASE v # Base
    BY <1>27, <2>2 DEF Discard, Reset!vars, TypeOK, VMs
  <2> QED
    BY <2>1, <2>2
<1>28. ASSUME NEW v \in VMs, Fails(v) PROVE [Reset!Next]_(Reset!vars)
  BY <1>28 DEF Fails, files, Reset!vars
<1>29. ASSUME NEW v \in VMs, GuestWrites(v) PROVE [Reset!Next]_(Reset!vars)
  <2>1. latest' \in Contents
    BY <1>29, BoundAssumption DEF GuestWrites, TypeOK, Contents
  <2>2. CASE v = Base
    <3>1. guest[Base].on /\ guest'[Base].on /\ guest'[Base].disk = latest'
             /\ guest'[Base].mode = guest[Base].mode
      BY <1>29, <2>2 DEF GuestWrites, TypeOK, VMs, Guests
    <3>2. disk' = IF guest[Base].mode = "base" THEN latest' ELSE disk
      BY <1>29, <2>2 DEF GuestWrites
    <3>3. guest[Base].disk # None
      BY <3>1 DEF GuestDisk, Contents, None
    <3> QED
      BY <2>1, <3>1, <3>2, <3>3 DEF Reset!Write, Reset!Next
  <2>3. CASE v # Base
    <3>1. guest[v].mode = "overlay"
      BY <1>29, <2>3 DEF GuestWrites, GuestDisk, VMs
    <3>2. UNCHANGED <<disk, guest[Base], over[Base]>>
      BY <1>29, <2>3, <3>1 DEF GuestWrites, TypeOK, VMs
    <3> QED
      BY <3>2 DEF Reset!vars
  <2> QED
    BY <2>2, <2>3
<1>30. ASSUME NEW v \in VMs, GuestOff(v) PROVE [Reset!Next]_(Reset!vars)
  <2>1. CASE v = Base
    <3>1. guest[Base].on /\ ~guest'[Base].on /\ UNCHANGED <<disk, over>>
      BY <1>30, <2>1 DEF GuestOff, NoGuest, TypeOK, VMs, files
    <3>2. guest[Base].disk \in Contents /\ guest[Base].mode \in {"base",
       "overlay"}
      BY <3>1 DEF GuestDisk, TypeOK, VMs, Guests
    <3>3. CASE guest[Base].mode = "base"
      BY <3>1, <3>2, <3>3 DEF GuestDisk, Reset!Off, Reset!Next, Contents, None,
         Fresh
    <3>4. CASE guest[Base].mode = "overlay"
      BY <3>1, <3>2, <3>4 DEF GuestDisk, Reset!Off, Reset!Next, Contents, None,
         Fresh
    <3> QED
      BY <3>2, <3>3, <3>4
  <2>2. CASE v # Base
    BY <1>30, <2>2 DEF GuestOff, files, Reset!vars, TypeOK, VMs
  <2> QED
    BY <2>1, <2>2
<1>31. ASSUME NEW v \in VMs, Kill(v) PROVE [Reset!Next]_(Reset!vars)
  BY <1>31 DEF Kill, files, Reset!vars
<1> QED
  BY <1>1, <1>2, <1>3, <1>4, <1>5, <1>6, <1>7, <1>8, <1>9, <1>10, <1>11, <1>12,
     <1>13, <1>14, <1>15, <1>16, <1>17, <1>18, <1>19, <1>20, <1>21, <1>22,
     <1>23, <1>24, <1>25, <1>26, <1>27, <1>28, <1>29, <1>30, <1>31 DEF Next,
     Step

\* Every cold boot starts from the saved disk, and it changes only to what a
\* stopped boot left behind.
THEOREM Refinement == Spec => ImplementsResetPoint
<1>1. Init => Reset!Init
  BY DEF Init, Reset!Init, NoGuest, NoOverlay, VMs, None, Fresh
<1>2. IInv /\ [Next]_vars => [Reset!Next]_(Reset!vars)
  <2>1. IInv /\ Next => [Reset!Next]_(Reset!vars)
    BY ResetStep
  <2>2. UNCHANGED vars => UNCHANGED Reset!vars
    BY DEF vars, Reset!vars
  <2> QED
    BY <2>1, <2>2
<1> QED
  BY <1>1, <1>2, Invariant, PTL DEF Spec, ImplementsResetPoint, Reset!Spec

-----------------------------------------------------------------------------
(* A disk stays with its variables.                                        *)

\* A command that ends without having touched a disk, once its guest's share is
\* recorded or while there is none to record or to forget.
Ended(v) ==
    /\ End(v) /\ ~At(v, "saveDisk")
    /\ UNCHANGED <<cfg, disk, efi, over, guest>>
    /\ \/ RecordShare(v)
       \/ ~At(v, "share") /\ (At(v, "stopping") => guest[v].on) /\ UNCHANGED marker

LEMMA GotoOp ==
    ASSUME TypeOK, NEW v \in VMs, NEW pc, Goto(v, pc)
    PROVE  /\ op'[v].pc = pc /\ op'[v].keep = op[v].keep /\ op'[v].share = op[v].share
           /\ \A w \in VMs : w # v => op'[w] = op[w]
BY DEF Goto, TypeOK, Ops

LEMMA EndOp ==
    ASSUME TypeOK, NEW v \in VMs, End(v)
    PROVE  /\ op'[v].pc = "idle" /\ op'[v].keep = FALSE
           /\ \A w \in VMs : w # v => op'[w] = op[w]
BY DEF End, NoOp, TypeOK

LEMMA BeginOp ==
    ASSUME TypeOK, NEW v \in VMs, NEW pc, NEW install, NEW share, NEW keep,
           Begin(v, pc, install, share, keep)
    PROVE  /\ op[v].pc = "idle"
           /\ op'[v].pc = pc /\ op'[v].keep = keep /\ op'[v].share = share
           /\ \A w \in VMs : w # v => op'[w] = op[w]
BY DEF Begin, At, TypeOK

LEMMA LaunchOp ==
    ASSUME TypeOK, NEW v \in VMs, Launch(v)
    PROVE  /\ op'[v].pc \in {"idle", "share"} /\ op'[v].keep \in {FALSE, op[v].keep}
           /\ \A w \in VMs : w # v => op'[w] = op[w]
<1>1. CASE op[v].share = NoShare
  BY <1>1, EndOp DEF Launch
<1>2. CASE op[v].share # NoShare
  BY <1>2, GotoOp DEF Launch
<1> QED
  BY <1>1, <1>2

\* The steps, when no command is killed.
LEMMA StepKinds ==
    ASSUME "kill" \notin Faults, Next
    PROVE  \/ Prepare \/ Provision
           \/ \E v \in VMs :
                \/ \E install \in BOOLEAN, share \in Shares \cup {NoShare} : Up(v, install, share)
                \/ \E keep \in BOOLEAN : Down(v, keep)
                \/ Instance(v) \/ DownStopped(v)
                \/ MakeDisk(v) \/ MakeConfig(v) \/ ResetDisk(v) \/ ResetEfi(v)
                \/ StartDaemon(v) \/ Mark(v) \/ Launch(v) \/ MarkProvisioned(v)
                \/ AskShutdown(v) \/ Stopped(v) \/ Convert(v) \/ SaveEfi(v)
                \/ SaveDisk(v) \/ Discard(v) \/ GuestWrites(v) \/ GuestOff(v)
                \/ Ended(v)
<1>1. ASSUME NEW v \in VMs,
             \/ ResetRefused(v) \/ DaemonFails(v) \/ LaunchFails(v) \/ RecordShare(v)
             \/ ShutdownFails(v) \/ DownTimeout(v) \/ ConvertFails(v) \/ Fails(v)
      PROVE  Ended(v)
  BY <1>1 DEF ResetRefused, DaemonFails, LaunchFails, RecordShare, ShutdownFails,
     DownTimeout, ConvertFails, Fails, ToolFails, Ended, At, files, daemons
<1>2. \A v \in VMs : ~Kill(v)
  BY DEF Kill
<1> QED
  BY <1>1, <1>2 DEF Next, Step

\* Nobody borrows the base while it is being saved.
LEMMA AloneStep ==
    ASSUME WholeInv, Orderly, Next
    PROVE  SavedAlone'
<1>1. TypeOK /\ OpPlaces /\ SavedAlone
  BY DEF WholeInv, IInv
<1>2. Base \in VMs /\ \A i \in Instances : i \in VMs /\ i # Base
  BY VMsAssumption DEF VMs
<1>3. CASE Prepare
  BY ZenonT(40), <1>1, <1>2, <1>3, BeginOp DEF Prepare, SavedAlone, At, InUse, Saving
<1>4. CASE Provision
  <2>1. op'[Base].pc = "provisioned" /\ op'[Base].keep = FALSE
    BY <1>1, <1>2, <1>4, BeginOp DEF Provision
  <2> QED
    BY <2>1 DEF SavedAlone, Saving
<1>5. ASSUME NEW v \in VMs, NEW install \in BOOLEAN, NEW share \in Shares \cup
             {NoShare}, Up(v, install, share)
      PROVE  SavedAlone'
  <2>1. CASE v = Base
    <3>1. op'[Base].pc \in Starting /\ op'[Base].keep = FALSE
      BY ZenonT(40), <1>1, <1>5, <2>1, BeginOp DEF Up, Starting
    <3> QED
      BY <3>1 DEF SavedAlone, Saving, Starting
  <2>2. CASE v # Base
    <3>1. op'[Base] = op[Base]
      BY <1>1, <1>2, <1>5, <2>2, BeginOp DEF Up
    <3>2. ~op[Base].keep
      BY <1>5, <2>2 DEF Up, MayStart, MayUseBase, Orderly, VMs
    <3> QED
      BY <1>1, <3>1, <3>2 DEF SavedAlone
  <2> QED
    BY <2>1, <2>2
<1>6. ASSUME NEW v \in VMs, NEW keep \in BOOLEAN, Down(v, keep)
      PROVE  SavedAlone'
  <2>1. CASE v = Base
    <3>1. op'[Base].pc = "shutdown" /\ op'[Base].keep = keep
      BY ZenonT(40), <1>1, <1>6, <2>1, BeginOp DEF Down
    <3>2. \A i \in Instances : op'[i] = op[i] /\ guest'[i] = guest[i]
      BY <1>1, <1>2, <1>6, <2>1, BeginOp DEF Down
    <3>3. keep => \A i \in Instances : ~InUse(i)
      BY <1>6 DEF Down, MaySave, Orderly
    <3> QED
      BY <3>1, <3>2, <3>3 DEF SavedAlone, Saving, InUse, At
  <2>2. CASE v # Base
    <3>1. op'[Base] = op[Base]
      BY <1>1, <1>2, <1>6, <2>2, BeginOp DEF Down
    <3>2. ~op[Base].keep
      BY <1>1, <1>6, <2>2 DEF Down, SavedAlone, InUse, VMs
    <3> QED
      BY <1>1, <3>1, <3>2 DEF SavedAlone
  <2> QED
    BY <2>1, <2>2
<1>7. ASSUME NEW v \in VMs, Instance(v) PROVE SavedAlone'
  BY <1>1, <1>2, <1>7 DEF Instance, SavedAlone, At, InUse, Saving
<1>8. ASSUME NEW v \in VMs, DownStopped(v) PROVE SavedAlone'
  BY <1>1, <1>2, <1>8 DEF DownStopped, SavedAlone, At, InUse, Saving
<1>9. ASSUME NEW v \in VMs, MakeDisk(v) PROVE SavedAlone'
  BY <1>1, <1>2, <1>9, GotoOp DEF MakeDisk, SavedAlone, At, InUse, Saving
<1>10. ASSUME NEW v \in VMs, MakeConfig(v) PROVE SavedAlone'
  BY <1>1, <1>2, <1>10, EndOp DEF MakeConfig, SavedAlone, At, InUse, Saving
<1>11. ASSUME NEW v \in VMs, ResetDisk(v) PROVE SavedAlone'
  BY <1>1, <1>2, <1>11, GotoOp DEF ResetDisk, SavedAlone, At, InUse, Saving
<1>12. ASSUME NEW v \in VMs, ResetEfi(v) PROVE SavedAlone'
  BY <1>1, <1>2, <1>12, GotoOp DEF ResetEfi, NextOfReset, SavedAlone, At,
     InUse, Saving
<1>13. ASSUME NEW v \in VMs, StartDaemon(v) PROVE SavedAlone'
  BY <1>1, <1>2, <1>13, GotoOp DEF StartDaemon, SavedAlone, At, InUse, Saving
<1>14. ASSUME NEW v \in VMs, Mark(v) PROVE SavedAlone'
  BY <1>1, <1>2, <1>14, GotoOp DEF Mark, SavedAlone, At, InUse, Saving
<1>15. ASSUME NEW v \in VMs, Launch(v) PROVE SavedAlone'
  <2>1. CASE v = Base
    <3>1. op'[Base].pc \in {"idle", "share"} /\ op'[Base].keep \in {FALSE, op[Base].keep}
      BY <1>1, <1>15, <2>1, LaunchOp DEF Launch
    <3>2. \A i \in Instances : op'[i] = op[i] /\ guest'[i] = guest[i]
      BY <1>1, <1>2, <1>15, <2>1, LaunchOp DEF Launch, TypeOK
    <3> QED
      BY <1>1, <3>1, <3>2 DEF SavedAlone, Saving, InUse, At
  <2>2. CASE v # Base
    <3>1. op'[Base] = op[Base]
      BY <1>1, <1>2, <1>15, <2>2, LaunchOp DEF Launch
    <3>2. ~op[Base].keep
      BY <1>1, <1>15, <2>2 DEF Launch, SavedAlone, InUse, VMs, At
    <3> QED
      BY <1>1, <3>1, <3>2 DEF SavedAlone
  <2> QED
    BY <2>1, <2>2
<1>16. ASSUME NEW v \in VMs, MarkProvisioned(v) PROVE SavedAlone'
  BY <1>1, <1>2, <1>16, EndOp DEF MarkProvisioned, SavedAlone, At, InUse,
     Saving
<1>17. ASSUME NEW v \in VMs, AskShutdown(v) PROVE SavedAlone'
  BY <1>1, <1>2, <1>17, GotoOp DEF AskShutdown, SavedAlone, At, InUse, Saving
<1>18. ASSUME NEW v \in VMs, Stopped(v) PROVE SavedAlone'
  BY <1>1, <1>2, <1>18, GotoOp DEF Stopped, SavedAlone, At, InUse, Saving
<1>19. ASSUME NEW v \in VMs, Convert(v) PROVE SavedAlone'
  BY <1>1, <1>2, <1>19, GotoOp DEF Convert, OpPlaces, SavedAlone, At, InUse,
     Saving
<1>20. ASSUME NEW v \in VMs, SaveEfi(v) PROVE SavedAlone'
  BY <1>1, <1>2, <1>20, GotoOp DEF SaveEfi, OpPlaces, SavedAlone, At, InUse,
     Saving
<1>21. ASSUME NEW v \in VMs, SaveDisk(v) PROVE SavedAlone'
  BY <1>1, <1>2, <1>21, GotoOp DEF SaveDisk, OpPlaces, SavedAlone, At, InUse,
     Saving
<1>22. ASSUME NEW v \in VMs, Discard(v) PROVE SavedAlone'
  BY <1>1, <1>2, <1>22, EndOp DEF Discard, SavedAlone, At, InUse, Saving
<1>23. ASSUME NEW v \in VMs, GuestWrites(v) PROVE SavedAlone'
  BY <1>1, <1>2, <1>23 DEF GuestWrites, TypeOK, Guests, SavedAlone, At, InUse,
     Saving
<1>24. ASSUME NEW v \in VMs, GuestOff(v) PROVE SavedAlone'
  BY <1>1, <1>2, <1>24 DEF GuestOff, NoGuest, TypeOK, SavedAlone, At, InUse,
     Saving
<1>25. ASSUME NEW v \in VMs, Ended(v) PROVE SavedAlone'
  BY <1>1, <1>2, <1>25, EndOp DEF Ended, SavedAlone, At, InUse, Saving
<1> QED
  BY StepKinds, <1>3, <1>4, <1>5, <1>6, <1>7, <1>8, <1>9, <1>10, <1>11, <1>12,
     <1>13, <1>14, <1>15, <1>16, <1>17, <1>18, <1>19, <1>20, <1>21, <1>22,
     <1>23, <1>24, <1>25 DEF Orderly

Late == {"resetEfi", "daemon", "mark", "launch"}

\* What of a step BorrowedSound depends on.
LEMMA BorrowedKept ==
    ASSUME BorrowedSound,
           \A v \in VMs : cfg'[v].here = cfg[v].here
                          /\ cfg'[v].provisioned = cfg[v].provisioned,
           \A i \in Instances :
               op'[i].pc \in Late => op[i].pc \in Late /\ over'[i].disk = over[i].disk,
           guest'[Base].on /\ guest'[Base].mode = "base"
               => guest[Base].on /\ guest[Base].mode = "base"
    PROVE  BorrowedSound'
<1>1. ASSUME NEW i \in Instances PROVE (cfg[i].here => cfg[Base].here)'
  BY <1>1 DEF BorrowedSound, VMs
<1>2. ASSUME NEW i \in Instances PROVE (cfg[i].provisioned => cfg[Base].provisioned)'
  BY <1>2 DEF BorrowedSound, VMs
<1>3. ASSUME NEW i \in Instances, op'[i].pc \in Late
      PROVE  over'[i].disk = Fresh /\ ~BaseWritten(i)'
  <2>1. op[i].pc \in Late /\ over'[i].disk = over[i].disk
    BY <1>3
  <2>2. over[i].disk = Fresh /\ ~BaseWritten(i)
    BY <2>1 DEF BorrowedSound, Late
  <2> QED
    BY <2>1, <2>2 DEF BaseWritten
<1> QED
  BY <1>1, <1>2, <1>3 DEF BorrowedSound, Late

\* A base that an instance has been started on is a provisioned one, so no
\* guest writes it before the instance runs.
LEMMA BorrowedStep ==
    ASSUME WholeInv, Orderly, Next
    PROVE  BorrowedSound'
<1>1. TypeOK /\ OpPlaces /\ GuestDisk /\ BorrowedSound
  BY DEF WholeInv, IInv
<1>2. Base \in VMs /\ \A i \in Instances : i \in VMs /\ i # Base
  BY VMsAssumption DEF VMs
<1>3. CASE Prepare
  <2>1. \A i \in Instances :
           op'[i].pc \in Late => op[i].pc \in Late /\ over'[i].disk = over[i].disk
    BY <1>1, <1>2, <1>3, BeginOp DEF Prepare, Late, files
  <2>2. UNCHANGED <<cfg, guest>>
    BY <1>1, <1>2, <1>3 DEF Prepare
  <2> QED
    BY <1>1, <2>1, <2>2, BorrowedKept
<1>4. CASE Provision
  <2>1. \A i \in Instances :
           op'[i].pc \in Late => op[i].pc \in Late /\ over'[i].disk = over[i].disk
    BY <1>1, <1>2, <1>4, BeginOp DEF Provision, Late, files
  <2>2. UNCHANGED <<cfg, guest>>
    BY <1>1, <1>2, <1>4 DEF Provision
  <2> QED
    BY <1>1, <2>1, <2>2, BorrowedKept
<1>5. ASSUME NEW v \in VMs, NEW install \in BOOLEAN, NEW share \in Shares \cup
             {NoShare}, Up(v, install, share)
      PROVE  BorrowedSound'
  <2>1. op'[v].pc = "resetDisk" \/ v \notin Instances
    <3>1. v \in Instances => Mode(v) = "overlay"
      BY <1>5 DEF Up, MayStart, Mode
    <3> QED
      BY <1>1, <1>5, <3>1, BeginOp DEF Up
  <2>2. \A w \in VMs : w # v => op'[w] = op[w]
    BY <1>1, <1>5, BeginOp DEF Up
  <2>3. UNCHANGED <<cfg, over, guest>>
    BY <1>5 DEF Up, files
  <2>4. \A i \in Instances : op'[i].pc \in Late => op[i].pc \in Late
    BY <1>2, <2>1, <2>2 DEF Late
  <2> QED
    BY <1>1, <2>3, <2>4, BorrowedKept
<1>6. ASSUME NEW v \in VMs, NEW keep \in BOOLEAN, Down(v, keep)
      PROVE  BorrowedSound'
  <2>1. \A i \in Instances :
           op'[i].pc \in Late => op[i].pc \in Late /\ over'[i].disk = over[i].disk
    BY ZenonT(40), <1>1, <1>2, <1>6, BeginOp DEF Down, Late, files
  <2>2. UNCHANGED <<cfg, guest>>
    BY <1>1, <1>2, <1>6 DEF Down
  <2> QED
    BY <1>1, <2>1, <2>2, BorrowedKept
<1>7. ASSUME NEW v \in VMs, Instance(v) PROVE BorrowedSound'
  <2>1. cfg[Base].provisioned /\ v \in Instances
    BY <1>7 DEF Instance
  <2>2. cfg[Base].here
    BY <1>1, <2>1 DEF GuestDisk
  <2>3. \A w \in VMs : w # v => cfg'[w] = cfg[w]
    BY <1>1, <1>7 DEF Instance, TypeOK
  <2>4. UNCHANGED <<op, over, guest>>
    BY <1>7 DEF Instance, files
  <2> QED
    BY <1>1, <1>2, <2>1, <2>2, <2>3, <2>4 DEF BorrowedSound, BaseWritten
<1>8. ASSUME NEW v \in VMs, DownStopped(v) PROVE BorrowedSound'
  <2>1. \A i \in Instances :
           op'[i].pc \in Late => op[i].pc \in Late /\ over'[i].disk = over[i].disk
    BY <1>1, <1>2, <1>8, EndOp DEF DownStopped, Late, At, TypeOK
  <2>2. UNCHANGED <<cfg, guest>>
    BY <1>1, <1>2, <1>8 DEF DownStopped
  <2> QED
    BY <1>1, <2>1, <2>2, BorrowedKept
<1>9. ASSUME NEW v \in VMs, MakeDisk(v) PROVE BorrowedSound'
  <2>1. \A i \in Instances :
           op'[i].pc \in Late => op[i].pc \in Late /\ over'[i].disk = over[i].disk
    BY <1>1, <1>2, <1>9, GotoOp DEF MakeDisk, At, Late, files
  <2>2. UNCHANGED <<cfg, guest>>
    BY <1>1, <1>2, <1>9 DEF MakeDisk
  <2> QED
    BY <1>1, <2>1, <2>2, BorrowedKept
<1>10. ASSUME NEW v \in VMs, MakeConfig(v) PROVE BorrowedSound'
  <2>1. v = Base /\ ~cfg[Base].here
    BY <1>1, <1>10 DEF MakeConfig, OpPlaces, At
  <2>2. cfg'[Base].here /\ \A i \in Instances : cfg'[i] = cfg[i]
    BY <1>1, <1>2, <1>10, <2>1 DEF MakeConfig, TypeOK, NoConfig
  <2>3. \A i \in Instances : ~cfg[i].provisioned
    BY <1>1, <2>1 DEF BorrowedSound, GuestDisk
  <2>4. \A i \in Instances : op'[i] = op[i]
    BY <1>1, <1>2, <1>10, <2>1, EndOp DEF MakeConfig
  <2>5. UNCHANGED <<over, guest>>
    BY <1>10 DEF MakeConfig, files
  <2> QED
    BY <1>1, <2>2, <2>3, <2>4, <2>5 DEF BorrowedSound, BaseWritten
<1>11. ASSUME NEW v \in VMs, ResetDisk(v) PROVE BorrowedSound'
  <2>1. op'[v].pc = "resetEfi" /\ \A i \in Instances : i # v => op'[i] = op[i]
    BY <1>1, <1>2, <1>11, GotoOp DEF ResetDisk
  <2>2. over'[v].disk = Fresh /\ (\A w \in VMs : w # v => over'[w] = over[w])
        /\ UNCHANGED <<cfg, guest>>
    BY <1>1, <1>11 DEF ResetDisk, TypeOK, Overlays
  <2>3. ~BaseWritten(v)
    BY <1>11 DEF ResetDisk, Orderly
  <2>4. ASSUME NEW i \in Instances, op'[i].pc \in Late
        PROVE  over'[i].disk = Fresh /\ ~BaseWritten(i)'
    <3>1. CASE i = v
      BY <2>2, <2>3, <3>1 DEF BaseWritten
    <3>2. CASE i # v
      BY <1>1, <1>2, <2>1, <2>2, <2>4, <3>2 DEF BorrowedSound, BaseWritten, Late
    <3> QED
      BY <3>1, <3>2
  <2> QED
    BY <1>1, <2>2, <2>4 DEF BorrowedSound, Late
<1>12. ASSUME NEW v \in VMs, ResetEfi(v) PROVE BorrowedSound'
  <2>1. \A i \in Instances :
           op'[i].pc \in Late => op[i].pc \in Late /\ over'[i].disk = over[i].disk
    BY <1>1, <1>2, <1>12, GotoOp DEF ResetEfi, At, Late, TypeOK, Overlays
  <2>2. UNCHANGED <<cfg, guest>>
    BY <1>1, <1>2, <1>12 DEF ResetEfi
  <2> QED
    BY <1>1, <2>1, <2>2, BorrowedKept
<1>13. ASSUME NEW v \in VMs, StartDaemon(v) PROVE BorrowedSound'
  <2>1. \A i \in Instances :
           op'[i].pc \in Late => op[i].pc \in Late /\ over'[i].disk = over[i].disk
    BY <1>1, <1>2, <1>13, GotoOp DEF StartDaemon, At, Late, files
  <2>2. UNCHANGED <<cfg, guest>>
    BY <1>1, <1>2, <1>13 DEF StartDaemon
  <2> QED
    BY <1>1, <2>1, <2>2, BorrowedKept
<1>14. ASSUME NEW v \in VMs, Mark(v) PROVE BorrowedSound'
  <2>1. \A i \in Instances : op'[i].pc \in Late => op[i].pc \in Late
    BY <1>1, <1>2, <1>14, GotoOp DEF Mark, At, Late
  <2>2. \A w \in VMs : cfg'[w].here = cfg[w].here /\ cfg'[w].provisioned = cfg[w].provisioned
    BY <1>1, <1>14 DEF Mark, TypeOK, Configs
  <2>3. UNCHANGED <<over, guest>>
    BY <1>14 DEF Mark, files
  <2> QED
    BY <1>1, <2>1, <2>2, <2>3, BorrowedKept
<1>15. ASSUME NEW v \in VMs, Launch(v) PROVE BorrowedSound'
  <2>1. \A i \in Instances :
           op'[i].pc \in Late => op[i].pc \in Late /\ over'[i].disk = over[i].disk
    <3>1. op'[v].pc \notin Late /\ \A w \in VMs : w # v => op'[w] = op[w]
      BY <1>1, <1>15, LaunchOp DEF Late
    <3>2. \A w \in VMs : w # v => over'[w] = over[w]
      BY <1>1, <1>15 DEF Launch, TypeOK
    <3> QED
      BY <1>2, <3>1, <3>2
  <2>2. cfg' = cfg /\ \A w \in VMs : w # v => guest'[w] = guest[w]
    BY <1>1, <1>15 DEF Launch, TypeOK
  <2>3. CASE v # Base
    BY <1>1, <1>2, <2>1, <2>2, <2>3, BorrowedKept
  <2>4. CASE v = Base
    <3>1. CASE cfg[Base].provisioned
      <4>1. guest'[Base].mode = "overlay"
        BY <1>1, <1>15, <2>4, <3>1 DEF Launch, Mode, TypeOK
      <4> QED
        BY <1>1, <2>1, <2>2, <4>1, BorrowedKept
    <3>2. CASE ~cfg[Base].provisioned
      <4>1. \A i \in Instances : op[i].pc \notin Late
        BY <1>1, <1>2, <3>2 DEF BorrowedSound, OpPlaces, Starting, Late
      <4> QED
        BY <1>1, <2>1, <2>2, <4>1 DEF BorrowedSound, Late
    <3> QED
      BY <3>1, <3>2
  <2> QED
    BY <2>3, <2>4
<1>16. ASSUME NEW v \in VMs, MarkProvisioned(v) PROVE BorrowedSound'
  <2>1. v = Base
    BY <1>1, <1>16 DEF MarkProvisioned, OpPlaces, At
  <2>2. cfg'[Base].provisioned /\ cfg'[Base].here = cfg[Base].here
        /\ \A i \in Instances : cfg'[i] = cfg[i]
    BY <1>1, <1>2, <1>16, <2>1 DEF MarkProvisioned, TypeOK, Configs
  <2>3. \A i \in Instances : op'[i] = op[i]
    BY <1>1, <1>2, <1>16, <2>1, EndOp DEF MarkProvisioned
  <2>4. UNCHANGED <<over, guest>>
    BY <1>16 DEF MarkProvisioned, files
  <2> QED
    BY <1>1, <2>2, <2>3, <2>4 DEF BorrowedSound, BaseWritten
<1>17. ASSUME NEW v \in VMs, AskShutdown(v) PROVE BorrowedSound'
  <2>1. \A i \in Instances :
           op'[i].pc \in Late => op[i].pc \in Late /\ over'[i].disk = over[i].disk
    BY <1>1, <1>2, <1>17, GotoOp DEF AskShutdown, At, Late, files
  <2>2. UNCHANGED <<cfg, guest>>
    BY <1>1, <1>2, <1>17 DEF AskShutdown
  <2> QED
    BY <1>1, <2>1, <2>2, BorrowedKept
<1>18. ASSUME NEW v \in VMs, Stopped(v) PROVE BorrowedSound'
  <2>1. \A i \in Instances :
           op'[i].pc \in Late => op[i].pc \in Late /\ over'[i].disk = over[i].disk
    BY <1>1, <1>2, <1>18, GotoOp DEF Stopped, At, Late, files
  <2>2. UNCHANGED <<cfg, guest>>
    BY <1>1, <1>2, <1>18 DEF Stopped
  <2> QED
    BY <1>1, <2>1, <2>2, BorrowedKept
<1>19. ASSUME NEW v \in VMs, Convert(v) PROVE BorrowedSound'
  <2>1. \A i \in Instances :
           op'[i].pc \in Late => op[i].pc \in Late /\ over'[i].disk = over[i].disk
    BY <1>1, <1>2, <1>19, GotoOp DEF Convert, At, Late, files
  <2>2. UNCHANGED <<cfg, guest>>
    BY <1>1, <1>2, <1>19 DEF Convert
  <2> QED
    BY <1>1, <2>1, <2>2, BorrowedKept
<1>20. ASSUME NEW v \in VMs, SaveEfi(v) PROVE BorrowedSound'
  <2>1. \A i \in Instances :
           op'[i].pc \in Late => op[i].pc \in Late /\ over'[i].disk = over[i].disk
    BY <1>1, <1>2, <1>20, GotoOp DEF SaveEfi, At, Late, files
  <2>2. UNCHANGED <<cfg, guest>>
    BY <1>1, <1>2, <1>20 DEF SaveEfi
  <2> QED
    BY <1>1, <2>1, <2>2, BorrowedKept
<1>21. ASSUME NEW v \in VMs, SaveDisk(v) PROVE BorrowedSound'
  <2>1. \A i \in Instances :
           op'[i].pc \in Late => op[i].pc \in Late /\ over'[i].disk = over[i].disk
    BY <1>1, <1>2, <1>21, GotoOp DEF SaveDisk, At, Late, files
  <2>2. UNCHANGED <<cfg, guest>>
    BY <1>1, <1>2, <1>21 DEF SaveDisk
  <2> QED
    BY <1>1, <2>1, <2>2, BorrowedKept
<1>22. ASSUME NEW v \in VMs, Discard(v) PROVE BorrowedSound'
  <2>1. \A i \in Instances :
           op'[i].pc \in Late => op[i].pc \in Late /\ over'[i].disk = over[i].disk
    BY <1>1, <1>2, <1>22, EndOp DEF Discard, Late, At, TypeOK
  <2>2. UNCHANGED <<cfg, guest>>
    BY <1>1, <1>2, <1>22 DEF Discard
  <2> QED
    BY <1>1, <2>1, <2>2, BorrowedKept
<1>23. ASSUME NEW v \in VMs, GuestWrites(v) PROVE BorrowedSound'
  <2>1. \A i \in Instances :
           op'[i].pc \in Late => op[i].pc \in Late /\ over'[i].disk = over[i].disk
    BY <1>1, <1>2, <1>23 DEF GuestWrites, Late, Starting, TypeOK, OpPlaces
  <2>2. cfg' = cfg /\ guest'[Base].on = guest[Base].on /\ guest'[Base].mode = guest[Base].mode
    BY <1>1, <1>2, <1>23 DEF GuestWrites, TypeOK, Guests
  <2> QED
    BY <1>1, <2>1, <2>2, BorrowedKept
<1>24. ASSUME NEW v \in VMs, GuestOff(v) PROVE BorrowedSound'
  <2>1. \A i \in Instances :
           op'[i].pc \in Late => op[i].pc \in Late /\ over'[i].disk = over[i].disk
    BY <1>1, <1>2, <1>24 DEF GuestOff, Late, files
  <2>2. cfg' = cfg /\ (guest'[Base].on => guest'[Base] = guest[Base])
    BY <1>1, <1>2, <1>24 DEF GuestOff, NoGuest, TypeOK
  <2> QED
    BY <1>1, <2>1, <2>2, BorrowedKept
<1>25. ASSUME NEW v \in VMs, Ended(v) PROVE BorrowedSound'
  <2>1. \A i \in Instances :
           op'[i].pc \in Late => op[i].pc \in Late /\ over'[i].disk = over[i].disk
    BY <1>1, <1>2, <1>25, EndOp DEF Ended, Late
  <2>2. UNCHANGED <<cfg, guest>>
    BY <1>1, <1>2, <1>25 DEF Ended
  <2> QED
    BY <1>1, <2>1, <2>2, BorrowedKept
<1> QED
  BY StepKinds, <1>3, <1>4, <1>5, <1>6, <1>7, <1>8, <1>9, <1>10, <1>11, <1>12,
     <1>13, <1>14, <1>15, <1>16, <1>17, <1>18, <1>19, <1>20, <1>21, <1>22,
     <1>23, <1>24, <1>25 DEF Orderly

\* What of a step BaseWhole depends on.
LEMMA BaseKept ==
    ASSUME BaseWhole, UNCHANGED <<disk, efi>>, cfg'[Base].here = cfg[Base].here,
           \/ /\ op'[Base].pc = op[Base].pc /\ cfg'[Base].mode = cfg[Base].mode
              /\ over'[Base].efi = over[Base].efi
           \/ /\ op[Base].pc # "saveDisk"
              /\ op'[Base].pc \notin {"makeDisk", "makeConfig", "saveDisk"}
    PROVE  BaseWhole'
BY DEF BaseWhole, At

\* Only a save parts the reset point, and its last step joins it again.
LEMMA BaseStep ==
    ASSUME WholeInv, Orderly, Next
    PROVE  BaseWhole'
<1>1. TypeOK /\ OpPlaces /\ GuestDisk /\ BaseWhole /\ OverlayWhole
  BY DEF WholeInv, IInv
<1>2. Base \in VMs /\ \A i \in Instances : i \in VMs /\ i # Base
  BY VMsAssumption DEF VMs
<1>3. CASE Prepare
  <2>1. op'[Base].pc = "makeDisk" /\ efi' = Blank /\ ~cfg'[Base].here
    BY <1>1, <1>2, <1>3, BeginOp DEF Prepare
  <2> QED
    BY <2>1 DEF BaseWhole, At
<1>4. CASE Provision
  <2>1. \/ /\ op'[Base].pc = op[Base].pc /\ cfg'[Base].mode = cfg[Base].mode
           /\ over'[Base].efi = over[Base].efi
        \/ /\ op[Base].pc # "saveDisk"
           /\ op'[Base].pc \notin {"makeDisk", "makeConfig", "saveDisk"}
    BY ZenonT(40), <1>1, <1>2, <1>4, BeginOp DEF Provision, files
  <2>2. UNCHANGED <<disk, efi>> /\ cfg'[Base].here = cfg[Base].here
    BY <1>1, <1>2, <1>4 DEF Provision, files
  <2> QED
    BY <1>1, <2>1, <2>2, BaseKept
<1>5. ASSUME NEW v \in VMs, NEW install \in BOOLEAN, NEW share \in Shares \cup
             {NoShare}, Up(v, install, share)
      PROVE  BaseWhole'
  <2>1. \/ /\ op'[Base].pc = op[Base].pc /\ cfg'[Base].mode = cfg[Base].mode
           /\ over'[Base].efi = over[Base].efi
        \/ /\ op[Base].pc # "saveDisk"
           /\ op'[Base].pc \notin {"makeDisk", "makeConfig", "saveDisk"}
    BY ZenonT(40), <1>1, <1>2, <1>5, BeginOp DEF Up, files
  <2>2. UNCHANGED <<disk, efi>> /\ cfg'[Base].here = cfg[Base].here
    BY <1>1, <1>2, <1>5 DEF Up, files
  <2> QED
    BY <1>1, <2>1, <2>2, BaseKept
<1>6. ASSUME NEW v \in VMs, NEW keep \in BOOLEAN, Down(v, keep)
      PROVE  BaseWhole'
  <2>1. \/ /\ op'[Base].pc = op[Base].pc /\ cfg'[Base].mode = cfg[Base].mode
           /\ over'[Base].efi = over[Base].efi
        \/ /\ op[Base].pc # "saveDisk"
           /\ op'[Base].pc \notin {"makeDisk", "makeConfig", "saveDisk"}
    BY ZenonT(40), <1>1, <1>2, <1>6, BeginOp DEF Down, files
  <2>2. UNCHANGED <<disk, efi>> /\ cfg'[Base].here = cfg[Base].here
    BY <1>1, <1>2, <1>6 DEF Down, files
  <2> QED
    BY <1>1, <2>1, <2>2, BaseKept
<1>7. ASSUME NEW v \in VMs, Instance(v) PROVE BaseWhole'
  <2>1. \/ /\ op'[Base].pc = op[Base].pc /\ cfg'[Base].mode = cfg[Base].mode
           /\ over'[Base].efi = over[Base].efi
        \/ /\ op[Base].pc # "saveDisk"
           /\ op'[Base].pc \notin {"makeDisk", "makeConfig", "saveDisk"}
    BY <1>1, <1>2, <1>7 DEF Instance, files, TypeOK
  <2>2. UNCHANGED <<disk, efi>> /\ cfg'[Base].here = cfg[Base].here
    BY <1>1, <1>2, <1>7 DEF Instance, files, TypeOK
  <2> QED
    BY <1>1, <2>1, <2>2, BaseKept
<1>8. ASSUME NEW v \in VMs, DownStopped(v) PROVE BaseWhole'
  <2>1. \/ /\ op'[Base].pc = op[Base].pc /\ cfg'[Base].mode = cfg[Base].mode
           /\ over'[Base].efi = over[Base].efi
        \/ /\ op[Base].pc # "saveDisk"
           /\ op'[Base].pc \notin {"makeDisk", "makeConfig", "saveDisk"}
    BY <1>1, <1>2, <1>8 DEF DownStopped, At, TypeOK
  <2>2. UNCHANGED <<disk, efi>> /\ cfg'[Base].here = cfg[Base].here
    BY <1>1, <1>2, <1>8 DEF DownStopped, At, TypeOK
  <2> QED
    BY <1>1, <2>1, <2>2, BaseKept
<1>9. ASSUME NEW v \in VMs, MakeDisk(v) PROVE BaseWhole'
  <2>1. v = Base /\ ~cfg[Base].here
    BY <1>1, <1>9 DEF MakeDisk, OpPlaces, At
  <2>2. op'[Base].pc = "makeConfig" /\ disk' = Blank /\ efi' = efi /\ ~cfg'[Base].here
    BY <1>1, <1>9, <2>1, GotoOp DEF MakeDisk
  <2>3. efi = Blank
    BY <1>1, <1>9, <2>1 DEF MakeDisk, BaseWhole
  <2> QED
    BY <2>2, <2>3 DEF BaseWhole, At
<1>10. ASSUME NEW v \in VMs, MakeConfig(v) PROVE BaseWhole'
  <2>1. v = Base
    BY <1>1, <1>10 DEF MakeConfig, OpPlaces, At
  <2>2. op'[Base].pc = "idle" /\ UNCHANGED <<disk, efi>>
    BY <1>1, <1>10, <2>1, EndOp DEF MakeConfig, files
  <2>3. disk = efi
    BY <1>1, <1>10, <2>1 DEF MakeConfig, BaseWhole
  <2> QED
    BY <2>2, <2>3 DEF BaseWhole, At
<1>11. ASSUME NEW v \in VMs, ResetDisk(v) PROVE BaseWhole'
  <2>1. \/ /\ op'[Base].pc = op[Base].pc /\ cfg'[Base].mode = cfg[Base].mode
           /\ over'[Base].efi = over[Base].efi
        \/ /\ op[Base].pc # "saveDisk"
           /\ op'[Base].pc \notin {"makeDisk", "makeConfig", "saveDisk"}
    BY <1>1, <1>2, <1>11, GotoOp DEF ResetDisk, At, TypeOK, Overlays
  <2>2. UNCHANGED <<disk, efi>> /\ cfg'[Base].here = cfg[Base].here
    BY <1>1, <1>2, <1>11 DEF ResetDisk, At, TypeOK, Overlays
  <2> QED
    BY <1>1, <2>1, <2>2, BaseKept
<1>12. ASSUME NEW v \in VMs, ResetEfi(v) PROVE BaseWhole'
  <2>1. \/ /\ op'[Base].pc = op[Base].pc /\ cfg'[Base].mode = cfg[Base].mode
           /\ over'[Base].efi = over[Base].efi
        \/ /\ op[Base].pc # "saveDisk"
           /\ op'[Base].pc \notin {"makeDisk", "makeConfig", "saveDisk"}
    BY <1>1, <1>2, <1>12, GotoOp DEF ResetEfi, At, TypeOK, Overlays, NextOfReset
  <2>2. UNCHANGED <<disk, efi>> /\ cfg'[Base].here = cfg[Base].here
    BY <1>1, <1>2, <1>12 DEF ResetEfi, At, TypeOK, Overlays, NextOfReset
  <2> QED
    BY <1>1, <2>1, <2>2, BaseKept
<1>13. ASSUME NEW v \in VMs, StartDaemon(v) PROVE BaseWhole'
  <2>1. \/ /\ op'[Base].pc = op[Base].pc /\ cfg'[Base].mode = cfg[Base].mode
           /\ over'[Base].efi = over[Base].efi
        \/ /\ op[Base].pc # "saveDisk"
           /\ op'[Base].pc \notin {"makeDisk", "makeConfig", "saveDisk"}
    BY <1>1, <1>2, <1>13, GotoOp DEF StartDaemon, At, files
  <2>2. UNCHANGED <<disk, efi>> /\ cfg'[Base].here = cfg[Base].here
    BY <1>1, <1>2, <1>13 DEF StartDaemon, At, files
  <2> QED
    BY <1>1, <2>1, <2>2, BaseKept
<1>14. ASSUME NEW v \in VMs, Mark(v) PROVE BaseWhole'
  <2>1. \/ /\ op'[Base].pc = op[Base].pc /\ cfg'[Base].mode = cfg[Base].mode
           /\ over'[Base].efi = over[Base].efi
        \/ /\ op[Base].pc # "saveDisk"
           /\ op'[Base].pc \notin {"makeDisk", "makeConfig", "saveDisk"}
    BY <1>1, <1>2, <1>14, GotoOp DEF Mark, At, TypeOK, Configs, files
  <2>2. UNCHANGED <<disk, efi>> /\ cfg'[Base].here = cfg[Base].here
    BY <1>1, <1>2, <1>14 DEF Mark, At, TypeOK, Configs, files
  <2> QED
    BY <1>1, <2>1, <2>2, BaseKept
<1>15. ASSUME NEW v \in VMs, Launch(v) PROVE BaseWhole'
  <2>1. \/ /\ op'[Base].pc = op[Base].pc /\ cfg'[Base].mode = cfg[Base].mode
           /\ over'[Base].efi = over[Base].efi
        \/ /\ op[Base].pc # "saveDisk"
           /\ op'[Base].pc \notin {"makeDisk", "makeConfig", "saveDisk"}
    BY <1>1, <1>2, <1>15, LaunchOp DEF Launch, At, TypeOK
  <2>2. UNCHANGED <<disk, efi>> /\ cfg'[Base].here = cfg[Base].here
    BY <1>1, <1>2, <1>15 DEF Launch, At, TypeOK
  <2> QED
    BY <1>1, <2>1, <2>2, BaseKept
<1>16. ASSUME NEW v \in VMs, MarkProvisioned(v) PROVE BaseWhole'
  <2>1. \/ /\ op'[Base].pc = op[Base].pc /\ cfg'[Base].mode = cfg[Base].mode
           /\ over'[Base].efi = over[Base].efi
        \/ /\ op[Base].pc # "saveDisk"
           /\ op'[Base].pc \notin {"makeDisk", "makeConfig", "saveDisk"}
    BY <1>1, <1>2, <1>16, EndOp DEF MarkProvisioned, At, files, TypeOK, Configs
  <2>2. UNCHANGED <<disk, efi>> /\ cfg'[Base].here = cfg[Base].here
    BY <1>1, <1>2, <1>16 DEF MarkProvisioned, At, files, TypeOK, Configs
  <2> QED
    BY <1>1, <2>1, <2>2, BaseKept
<1>17. ASSUME NEW v \in VMs, AskShutdown(v) PROVE BaseWhole'
  <2>1. \/ /\ op'[Base].pc = op[Base].pc /\ cfg'[Base].mode = cfg[Base].mode
           /\ over'[Base].efi = over[Base].efi
        \/ /\ op[Base].pc # "saveDisk"
           /\ op'[Base].pc \notin {"makeDisk", "makeConfig", "saveDisk"}
    BY <1>1, <1>2, <1>17, GotoOp DEF AskShutdown, At, files
  <2>2. UNCHANGED <<disk, efi>> /\ cfg'[Base].here = cfg[Base].here
    BY <1>1, <1>2, <1>17 DEF AskShutdown, At, files
  <2> QED
    BY <1>1, <2>1, <2>2, BaseKept
<1>18. ASSUME NEW v \in VMs, Stopped(v) PROVE BaseWhole'
  <2>1. \/ /\ op'[Base].pc = op[Base].pc /\ cfg'[Base].mode = cfg[Base].mode
           /\ over'[Base].efi = over[Base].efi
        \/ /\ op[Base].pc # "saveDisk"
           /\ op'[Base].pc \notin {"makeDisk", "makeConfig", "saveDisk"}
    BY <1>1, <1>2, <1>18, GotoOp DEF Stopped, At, files
  <2>2. UNCHANGED <<disk, efi>> /\ cfg'[Base].here = cfg[Base].here
    BY <1>1, <1>2, <1>18 DEF Stopped, At, files
  <2> QED
    BY <1>1, <2>1, <2>2, BaseKept
<1>19. ASSUME NEW v \in VMs, Convert(v) PROVE BaseWhole'
  <2>1. v = Base /\ UNCHANGED <<cfg, disk, efi, over>>
    BY <1>1, <1>19 DEF Convert, OpPlaces, At, Saving
  <2>2. op[Base].pc = "convert"
        /\ op'[Base].pc = IF cfg[Base].mode = "overlay" THEN "saveEfi" ELSE "saveDisk"
    BY <1>1, <1>19, <2>1, GotoOp DEF Convert, At
  <2> QED
    BY <1>1, <2>1, <2>2 DEF BaseWhole, At
<1>20. ASSUME NEW v \in VMs, SaveEfi(v) PROVE BaseWhole'
  <2>1. v = Base /\ cfg[Base].mode = "overlay"
    BY <1>1, <1>20 DEF SaveEfi, OpPlaces, GuestDisk, At, Saving
  <2>2. op'[Base].pc = "saveDisk" /\ efi' = over[Base].efi /\ UNCHANGED <<cfg, over>>
    BY <1>1, <1>20, <2>1, GotoOp DEF SaveEfi
  <2> QED
    BY <2>1, <2>2 DEF BaseWhole, At
<1>21. ASSUME NEW v \in VMs, SaveDisk(v) PROVE BaseWhole'
  <2>1. v = Base
    BY <1>1, <1>21 DEF SaveDisk, OpPlaces, At, Saving
  <2>2. op'[Base].pc = "discard" /\ disk' = new /\ UNCHANGED <<cfg, efi>>
    BY <1>1, <1>21, <2>1, GotoOp DEF SaveDisk
  <2>3. cfg[Base].here => new = efi
    <3>1. CASE cfg[Base].mode = "overlay"
      BY <1>1, <1>21, <2>1, <3>1 DEF SaveDisk, GuestDisk, OverlayWhole, BaseWhole, At, Saving
    <3>2. CASE cfg[Base].mode = "base"
      BY <1>1, <1>21, <2>1, <3>2 DEF SaveDisk, GuestDisk, BaseWhole, At
    <3> QED
      BY <1>1, <1>2, <3>1, <3>2 DEF TypeOK, Configs
  <2> QED
    BY <2>2, <2>3 DEF BaseWhole, At
<1>22. ASSUME NEW v \in VMs, Discard(v) PROVE BaseWhole'
  <2>1. \/ /\ op'[Base].pc = op[Base].pc /\ cfg'[Base].mode = cfg[Base].mode
           /\ over'[Base].efi = over[Base].efi
        \/ /\ op[Base].pc # "saveDisk"
           /\ op'[Base].pc \notin {"makeDisk", "makeConfig", "saveDisk"}
    BY <1>1, <1>2, <1>22, EndOp DEF Discard, At, TypeOK
  <2>2. UNCHANGED <<disk, efi>> /\ cfg'[Base].here = cfg[Base].here
    BY <1>1, <1>2, <1>22 DEF Discard, At, TypeOK
  <2> QED
    BY <1>1, <2>1, <2>2, BaseKept
<1>23. ASSUME NEW v \in VMs, GuestWrites(v) PROVE BaseWhole'
  <2>1. CASE v = Base
    <3>1. op'[Base].pc \notin {"makeDisk", "makeConfig", "saveDisk"}
      BY <1>1, <1>2, <1>23, <2>1 DEF GuestWrites, OpPlaces, Saving
    <3>2. cfg' = cfg /\ (disk' = efi' \/ UNCHANGED <<disk, efi>>)
      BY <1>23 DEF GuestWrites
    <3> QED
      BY <1>1, <1>23, <3>1, <3>2 DEF BaseWhole, At, GuestWrites
  <2>2. CASE v # Base
    <3>1. guest[v].mode = "overlay"
      BY <1>1, <1>23, <2>2 DEF GuestWrites, GuestDisk, VMs
    <3>2. UNCHANGED <<disk, efi, cfg, op>> /\ over'[Base] = over[Base]
      BY <1>1, <1>2, <1>23, <2>2, <3>1 DEF GuestWrites, TypeOK
    <3> QED
      BY <1>1, <3>2, BaseKept
  <2> QED
    BY <2>1, <2>2
<1>24. ASSUME NEW v \in VMs, GuestOff(v) PROVE BaseWhole'
  <2>1. \/ /\ op'[Base].pc = op[Base].pc /\ cfg'[Base].mode = cfg[Base].mode
           /\ over'[Base].efi = over[Base].efi
        \/ /\ op[Base].pc # "saveDisk"
           /\ op'[Base].pc \notin {"makeDisk", "makeConfig", "saveDisk"}
    BY <1>1, <1>2, <1>24 DEF GuestOff, files
  <2>2. UNCHANGED <<disk, efi>> /\ cfg'[Base].here = cfg[Base].here
    BY <1>1, <1>2, <1>24 DEF GuestOff, files
  <2> QED
    BY <1>1, <2>1, <2>2, BaseKept
<1>25. ASSUME NEW v \in VMs, Ended(v) PROVE BaseWhole'
  <2>1. \/ /\ op'[Base].pc = op[Base].pc /\ cfg'[Base].mode = cfg[Base].mode
           /\ over'[Base].efi = over[Base].efi
        \/ /\ op[Base].pc # "saveDisk"
           /\ op'[Base].pc \notin {"makeDisk", "makeConfig", "saveDisk"}
    BY <1>1, <1>2, <1>25, EndOp DEF Ended, At
  <2>2. UNCHANGED <<disk, efi>> /\ cfg'[Base].here = cfg[Base].here
    BY <1>1, <1>2, <1>25 DEF Ended, At
  <2> QED
    BY <1>1, <2>1, <2>2, BaseKept
<1> QED
  BY StepKinds, <1>3, <1>4, <1>5, <1>6, <1>7, <1>8, <1>9, <1>10, <1>11, <1>12,
     <1>13, <1>14, <1>15, <1>16, <1>17, <1>18, <1>19, <1>20, <1>21, <1>22,
     <1>23, <1>24, <1>25 DEF Orderly

Booting == {"daemon", "mark", "launch"}
Ending == {"shutdown", "stopping"} \cup Saving

\* What of a step OverlayWhole depends on.
LEMMA OverlayKept ==
    ASSUME OverlayWhole, UNCHANGED disk,
           \A v \in VMs : op'[v].pc \in Booting /\ cfg'[v].provisioned =>
               op[v].pc \in Booting /\ cfg[v].provisioned /\ over'[v].efi = over[v].efi,
           guest'[Base].on => guest'[Base] = guest[Base] /\ over'[Base] = over[Base],
           op'[Base].pc \in Ending /\ cfg'[Base].mode = "overlay" =>
               op[Base].pc \in Ending /\ cfg[Base].mode = "overlay" /\ over'[Base] = over[Base]
    PROVE  OverlayWhole'
BY DEF OverlayWhole, Booting, Ending

\* An overlay's two parts come from the reset point together and are written
\* together.
LEMMA OverlayStep ==
    ASSUME WholeInv, Orderly, Next
    PROVE  OverlayWhole'
<1>1. TypeOK /\ ModeRecorded /\ OpPlaces /\ GuestDisk /\ SavedAlone /\
   BorrowedSound /\ BaseWhole /\ OverlayWhole /\ BootsWhole
  BY DEF WholeInv, IInv
<1>2. Base \in VMs /\ \A i \in Instances : i \in VMs /\ i # Base
  BY VMsAssumption DEF VMs
<1>3. CASE Prepare
  <2>1. \A w \in VMs : op'[w].pc \in Booting /\ cfg'[w].provisioned =>
           op[w].pc \in Booting /\ cfg[w].provisioned /\ over'[w].efi = over[w].efi
    BY ZenonT(40), <1>1, <1>2, <1>3, BeginOp DEF Prepare, Booting
  <2>2. op'[Base].pc \in Ending /\ cfg'[Base].mode = "overlay" =>
           op[Base].pc \in Ending /\ cfg[Base].mode = "overlay" /\ over'[Base] = over[Base]
    BY ZenonT(40), <1>1, <1>2, <1>3, BeginOp DEF Prepare, Ending, Saving
  <2>3. disk' = disk /\ (guest'[Base].on => guest'[Base] = guest[Base] /\ over'[Base] = over[Base])
    BY <1>1, <1>2, <1>3 DEF Prepare
  <2> QED
    BY <1>1, <2>1, <2>2, <2>3, OverlayKept
<1>4. CASE Provision
  <2>1. \A w \in VMs : op'[w].pc \in Booting /\ cfg'[w].provisioned =>
           op[w].pc \in Booting /\ cfg[w].provisioned /\ over'[w].efi = over[w].efi
    BY ZenonT(40), <1>1, <1>2, <1>4, BeginOp DEF Provision, files, Booting
  <2>2. op'[Base].pc \in Ending /\ cfg'[Base].mode = "overlay" =>
           op[Base].pc \in Ending /\ cfg[Base].mode = "overlay" /\ over'[Base] = over[Base]
    BY ZenonT(40), <1>1, <1>2, <1>4, BeginOp DEF Provision, files, Ending, Saving
  <2>3. disk' = disk /\ (guest'[Base].on => guest'[Base] = guest[Base] /\ over'[Base] = over[Base])
    BY <1>1, <1>2, <1>4 DEF Provision, files
  <2> QED
    BY <1>1, <2>1, <2>2, <2>3, OverlayKept
<1>5. ASSUME NEW v \in VMs, NEW install \in BOOLEAN, NEW share \in Shares \cup
             {NoShare}, Up(v, install, share)
      PROVE  OverlayWhole'
  <2>1. op[v].pc = "idle" /\ op'[v].pc = (IF Mode(v) = "overlay" THEN "resetDisk"
                                           ELSE IF share = NoShare THEN "mark" ELSE "daemon")
    BY <1>1, <1>5, BeginOp DEF Up
  <2>2. \A w \in VMs : w # v => op'[w] = op[w]
    BY <1>1, <1>5, BeginOp DEF Up
  <2>3. UNCHANGED <<cfg, disk, over, guest>>
    BY <1>5 DEF Up, files
  <2>4. op'[v].pc \in Booting => ~cfg[v].provisioned
    BY <2>1 DEF Mode, Booting
  <2>5. op'[v].pc \notin Ending
    BY <2>1 DEF Ending, Saving
  <2> QED
    BY <1>1, <1>2, <2>2, <2>3, <2>4, <2>5, OverlayKept
<1>6. ASSUME NEW v \in VMs, NEW keep \in BOOLEAN, Down(v, keep)
      PROVE  OverlayWhole'
  <2>1. op'[v].pc = "shutdown" /\ \A w \in VMs : w # v => op'[w] = op[w]
    BY <1>1, <1>6, BeginOp DEF Down
  <2>2. UNCHANGED <<cfg, disk, over, guest>>
    BY <1>6 DEF Down, files
  <2>3. v = Base /\ cfg[Base].mode = "overlay" => over[Base].disk = over[Base].efi
    BY <1>1, <1>2, <1>6 DEF Down, ModeRecorded, GuestDisk, OverlayWhole, BootsWhole
  <2> QED
    BY <1>1, <1>2, <2>1, <2>2, <2>3 DEF OverlayWhole, Saving
<1>7. ASSUME NEW v \in VMs, Instance(v) PROVE OverlayWhole'
  <2>1. \A w \in VMs : op'[w].pc \in Booting /\ cfg'[w].provisioned =>
           op[w].pc \in Booting /\ cfg[w].provisioned /\ over'[w].efi = over[w].efi
    BY <1>1, <1>2, <1>7 DEF Instance, files, At, TypeOK, Booting
  <2>2. op'[Base].pc \in Ending /\ cfg'[Base].mode = "overlay" =>
           op[Base].pc \in Ending /\ cfg[Base].mode = "overlay" /\ over'[Base] = over[Base]
    BY <1>1, <1>2, <1>7 DEF Instance, files, At, TypeOK, Ending, Saving
  <2>3. disk' = disk /\ (guest'[Base].on => guest'[Base] = guest[Base] /\ over'[Base] = over[Base])
    BY <1>1, <1>2, <1>7 DEF Instance, files, At, TypeOK
  <2> QED
    BY <1>1, <2>1, <2>2, <2>3, OverlayKept
<1>8. ASSUME NEW v \in VMs, DownStopped(v) PROVE OverlayWhole'
  <2>1. \A w \in VMs : op'[w].pc \in Booting /\ cfg'[w].provisioned =>
           op[w].pc \in Booting /\ cfg[w].provisioned /\ over'[w].efi = over[w].efi
    BY <1>1, <1>2, <1>8 DEF DownStopped, At, TypeOK, Booting
  <2>2. op'[Base].pc \in Ending /\ cfg'[Base].mode = "overlay" =>
           op[Base].pc \in Ending /\ cfg[Base].mode = "overlay" /\ over'[Base] = over[Base]
    BY <1>1, <1>2, <1>8 DEF DownStopped, At, TypeOK, Ending, Saving
  <2>3. disk' = disk /\ (guest'[Base].on => guest'[Base] = guest[Base] /\ over'[Base] = over[Base])
    BY <1>1, <1>2, <1>8 DEF DownStopped, At, TypeOK
  <2> QED
    BY <1>1, <2>1, <2>2, <2>3, OverlayKept
<1>9. ASSUME NEW v \in VMs, MakeDisk(v) PROVE OverlayWhole'
  <2>1. v = Base /\ ~cfg[Base].here
    BY <1>1, <1>9 DEF MakeDisk, OpPlaces, At
  <2>2. \A w \in VMs : ~cfg[w].provisioned
    BY <1>1, <2>1 DEF BorrowedSound, GuestDisk, VMs
  <2>3. op'[Base].pc = "makeConfig" /\ UNCHANGED <<cfg, over, guest>>
    BY <1>1, <1>9, <2>1, GotoOp DEF MakeDisk
  <2> QED
    BY <1>1, <2>2, <2>3 DEF OverlayWhole, Saving
<1>10. ASSUME NEW v \in VMs, MakeConfig(v) PROVE OverlayWhole'
  <2>1. \A w \in VMs : op'[w].pc \in Booting /\ cfg'[w].provisioned =>
           op[w].pc \in Booting /\ cfg[w].provisioned /\ over'[w].efi = over[w].efi
    BY <1>1, <1>2, <1>10, EndOp DEF MakeConfig, files, TypeOK, Configs, Booting
  <2>2. op'[Base].pc \in Ending /\ cfg'[Base].mode = "overlay" =>
           op[Base].pc \in Ending /\ cfg[Base].mode = "overlay" /\ over'[Base] = over[Base]
    BY <1>1, <1>2, <1>10, EndOp DEF MakeConfig, files, TypeOK, Configs, Ending, Saving
  <2>3. disk' = disk /\ (guest'[Base].on => guest'[Base] = guest[Base] /\ over'[Base] = over[Base])
    BY <1>1, <1>2, <1>10 DEF MakeConfig, files, TypeOK, Configs
  <2> QED
    BY <1>1, <2>1, <2>2, <2>3, OverlayKept
<1>11. ASSUME NEW v \in VMs, ResetDisk(v) PROVE OverlayWhole'
  <2>1. \A w \in VMs : op'[w].pc \in Booting /\ cfg'[w].provisioned =>
           op[w].pc \in Booting /\ cfg[w].provisioned /\ over'[w].efi = over[w].efi
    BY <1>1, <1>2, <1>11, GotoOp DEF ResetDisk, At, TypeOK, Overlays, Booting
  <2>2. op'[Base].pc \in Ending /\ cfg'[Base].mode = "overlay" =>
           op[Base].pc \in Ending /\ cfg[Base].mode = "overlay" /\ over'[Base] = over[Base]
    BY <1>1, <1>2, <1>11, GotoOp DEF ResetDisk, At, TypeOK, Overlays, Ending, Saving
  <2>3. disk' = disk /\ (guest'[Base].on => guest'[Base] = guest[Base] /\ over'[Base] = over[Base])
    BY <1>1, <1>2, <1>11 DEF ResetDisk, At, TypeOK, Overlays, OpPlaces, Starting
  <2> QED
    BY <1>1, <2>1, <2>2, <2>3, OverlayKept
<1>12. ASSUME NEW v \in VMs, ResetEfi(v) PROVE OverlayWhole'
  <2>1. efi = disk
    <3>1. cfg[Base].here
      BY <1>1, <1>2, <1>12 DEF ResetEfi, At, OpPlaces, Starting, BorrowedSound, VMs
    <3>2. ~At(Base, "saveDisk")
      BY <1>1, <1>12 DEF ResetEfi, At, SavedAlone, InUse, Saving, VMs
    <3> QED
      BY <1>1, <3>1, <3>2 DEF BaseWhole
  <2>2. op'[v].pc \in Booting /\ ~guest[v].on
        /\ \A w \in VMs : w # v => op'[w] = op[w]
    BY <1>1, <1>12, GotoOp DEF ResetEfi, NextOfReset, Booting, OpPlaces, Starting, At
  <2>3. over'[v].efi = efi /\ \A w \in VMs : w # v => over'[w] = over[w]
    BY <1>1, <1>12 DEF ResetEfi, TypeOK, Overlays
  <2>4. UNCHANGED <<cfg, disk, guest>>
    BY <1>12 DEF ResetEfi
  <2>5. op'[v].pc \notin Ending
    BY <2>2 DEF Booting, Ending, Saving
  <2> QED
    BY <1>1, <1>2, <2>1, <2>2, <2>3, <2>4, <2>5 DEF OverlayWhole, Booting, Ending
<1>13. ASSUME NEW v \in VMs, StartDaemon(v) PROVE OverlayWhole'
  <2>1. \A w \in VMs : op'[w].pc \in Booting /\ cfg'[w].provisioned =>
           op[w].pc \in Booting /\ cfg[w].provisioned /\ over'[w].efi = over[w].efi
    BY <1>1, <1>2, <1>13, GotoOp DEF StartDaemon, At, files, Booting
  <2>2. op'[Base].pc \in Ending /\ cfg'[Base].mode = "overlay" =>
           op[Base].pc \in Ending /\ cfg[Base].mode = "overlay" /\ over'[Base] = over[Base]
    BY <1>1, <1>2, <1>13, GotoOp DEF StartDaemon, At, files, Ending, Saving
  <2>3. disk' = disk /\ (guest'[Base].on => guest'[Base] = guest[Base] /\ over'[Base] = over[Base])
    BY <1>1, <1>2, <1>13 DEF StartDaemon, At, files
  <2> QED
    BY <1>1, <2>1, <2>2, <2>3, OverlayKept
<1>14. ASSUME NEW v \in VMs, Mark(v) PROVE OverlayWhole'
  <2>1. \A w \in VMs : op'[w].pc \in Booting /\ cfg'[w].provisioned =>
           op[w].pc \in Booting /\ cfg[w].provisioned /\ over'[w].efi = over[w].efi
    BY <1>1, <1>2, <1>14, GotoOp DEF Mark, At, files, TypeOK, Configs, Booting
  <2>2. op'[Base].pc \in Ending /\ cfg'[Base].mode = "overlay" =>
           op[Base].pc \in Ending /\ cfg[Base].mode = "overlay" /\ over'[Base] = over[Base]
    BY <1>1, <1>2, <1>14, GotoOp DEF Mark, At, files, TypeOK, Configs, Ending, Saving
  <2>3. disk' = disk /\ (guest'[Base].on => guest'[Base] = guest[Base] /\ over'[Base] = over[Base])
    BY <1>1, <1>2, <1>14 DEF Mark, At, files, TypeOK, Configs
  <2> QED
    BY <1>1, <2>1, <2>2, <2>3, OverlayKept
<1>15. ASSUME NEW v \in VMs, Launch(v) PROVE OverlayWhole'
  <2>1. op'[v].pc \in {"idle", "share"} /\ \A w \in VMs : w # v => op'[w] = op[w]
    BY <1>1, <1>15, LaunchOp
  <2>2. UNCHANGED <<cfg, disk>>
        /\ \A w \in VMs : w # v => over'[w] = over[w] /\ guest'[w] = guest[w]
    BY <1>1, <1>15 DEF Launch, TypeOK
  <2>3. v = Base /\ guest'[Base].mode = "overlay" => over'[Base].efi = guest'[Base].efi
    BY <1>1, <1>15 DEF Launch, TypeOK
  <2> QED
    BY <1>1, <1>2, <2>1, <2>2, <2>3 DEF OverlayWhole, Saving
<1>16. ASSUME NEW v \in VMs, MarkProvisioned(v) PROVE OverlayWhole'
  <2>1. \A w \in VMs : op'[w].pc \in Booting /\ cfg'[w].provisioned =>
           op[w].pc \in Booting /\ cfg[w].provisioned /\ over'[w].efi = over[w].efi
    BY <1>1, <1>2, <1>16, EndOp DEF MarkProvisioned, At, files, TypeOK, Configs, Booting
  <2>2. op'[Base].pc \in Ending /\ cfg'[Base].mode = "overlay" =>
           op[Base].pc \in Ending /\ cfg[Base].mode = "overlay" /\ over'[Base] = over[Base]
    BY <1>1, <1>2, <1>16, EndOp DEF MarkProvisioned, At, files, TypeOK, Configs, Ending, Saving
  <2>3. disk' = disk /\ (guest'[Base].on => guest'[Base] = guest[Base] /\ over'[Base] = over[Base])
    BY <1>1, <1>2, <1>16 DEF MarkProvisioned, At, files, TypeOK, Configs
  <2> QED
    BY <1>1, <2>1, <2>2, <2>3, OverlayKept
<1>17. ASSUME NEW v \in VMs, AskShutdown(v) PROVE OverlayWhole'
  <2>1. \A w \in VMs : op'[w].pc \in Booting /\ cfg'[w].provisioned =>
           op[w].pc \in Booting /\ cfg[w].provisioned /\ over'[w].efi = over[w].efi
    BY <1>1, <1>2, <1>17, GotoOp DEF AskShutdown, At, files, Booting
  <2>2. op'[Base].pc \in Ending /\ cfg'[Base].mode = "overlay" =>
           op[Base].pc \in Ending /\ cfg[Base].mode = "overlay" /\ over'[Base] = over[Base]
    BY <1>1, <1>2, <1>17, GotoOp DEF AskShutdown, At, files, Ending, Saving
  <2>3. disk' = disk /\ (guest'[Base].on => guest'[Base] = guest[Base] /\ over'[Base] = over[Base])
    BY <1>1, <1>2, <1>17 DEF AskShutdown, At, files
  <2> QED
    BY <1>1, <2>1, <2>2, <2>3, OverlayKept
<1>18. ASSUME NEW v \in VMs, Stopped(v) PROVE OverlayWhole'
  <2>1. \A w \in VMs : op'[w].pc \in Booting /\ cfg'[w].provisioned =>
           op[w].pc \in Booting /\ cfg[w].provisioned /\ over'[w].efi = over[w].efi
    BY <1>1, <1>2, <1>18, GotoOp DEF Stopped, At, files, Booting
  <2>2. op'[Base].pc \in Ending /\ cfg'[Base].mode = "overlay" =>
           op[Base].pc \in Ending /\ cfg[Base].mode = "overlay" /\ over'[Base] = over[Base]
    BY <1>1, <1>2, <1>18, GotoOp DEF Stopped, At, files, Ending, Saving
  <2>3. disk' = disk /\ (guest'[Base].on => guest'[Base] = guest[Base] /\ over'[Base] = over[Base])
    BY <1>1, <1>2, <1>18 DEF Stopped, At, files
  <2> QED
    BY <1>1, <2>1, <2>2, <2>3, OverlayKept
<1>19. ASSUME NEW v \in VMs, Convert(v) PROVE OverlayWhole'
  <2>1. \A w \in VMs : op'[w].pc \in Booting /\ cfg'[w].provisioned =>
           op[w].pc \in Booting /\ cfg[w].provisioned /\ over'[w].efi = over[w].efi
    BY <1>1, <1>2, <1>19, GotoOp DEF Convert, At, files, Booting
  <2>2. op'[Base].pc \in Ending /\ cfg'[Base].mode = "overlay" =>
           op[Base].pc \in Ending /\ cfg[Base].mode = "overlay" /\ over'[Base] = over[Base]
    BY <1>1, <1>2, <1>19, GotoOp DEF Convert, At, files, Ending, Saving
  <2>3. disk' = disk /\ (guest'[Base].on => guest'[Base] = guest[Base] /\ over'[Base] = over[Base])
    BY <1>1, <1>2, <1>19 DEF Convert, At, files
  <2> QED
    BY <1>1, <2>1, <2>2, <2>3, OverlayKept
<1>20. ASSUME NEW v \in VMs, SaveEfi(v) PROVE OverlayWhole'
  <2>1. \A w \in VMs : op'[w].pc \in Booting /\ cfg'[w].provisioned =>
           op[w].pc \in Booting /\ cfg[w].provisioned /\ over'[w].efi = over[w].efi
    BY <1>1, <1>2, <1>20, GotoOp DEF SaveEfi, At, files, Booting
  <2>2. op'[Base].pc \in Ending /\ cfg'[Base].mode = "overlay" =>
           op[Base].pc \in Ending /\ cfg[Base].mode = "overlay" /\ over'[Base] = over[Base]
    BY <1>1, <1>2, <1>20, GotoOp DEF SaveEfi, At, files, Ending, Saving
  <2>3. disk' = disk /\ (guest'[Base].on => guest'[Base] = guest[Base] /\ over'[Base] = over[Base])
    BY <1>1, <1>2, <1>20 DEF SaveEfi, At, files
  <2> QED
    BY <1>1, <2>1, <2>2, <2>3, OverlayKept
<1>21. ASSUME NEW v \in VMs, SaveDisk(v) PROVE OverlayWhole'
  <2>1. v = Base /\ \A i \in Instances : op[i].pc = "idle"
    BY <1>1, <1>21 DEF SaveDisk, OpPlaces, SavedAlone, InUse, At, Saving
  <2>2. op'[Base].pc = "discard" /\ \A i \in Instances : op'[i] = op[i]
    BY <1>1, <1>2, <1>21, <2>1, GotoOp DEF SaveDisk
  <2>3. ~guest[Base].on /\ guest' = guest
    BY <1>1, <1>2, <1>21, <2>1 DEF SaveDisk, OpPlaces, At, Saving
  <2> QED
    BY <2>1, <2>2, <2>3 DEF OverlayWhole, Saving, VMs
<1>22. ASSUME NEW v \in VMs, Discard(v) PROVE OverlayWhole'
  <2>1. \A w \in VMs : op'[w].pc \in Booting /\ cfg'[w].provisioned =>
           op[w].pc \in Booting /\ cfg[w].provisioned /\ over'[w].efi = over[w].efi
    BY <1>1, <1>2, <1>22, EndOp DEF Discard, At, TypeOK, Booting
  <2>2. op'[Base].pc \in Ending /\ cfg'[Base].mode = "overlay" =>
           op[Base].pc \in Ending /\ cfg[Base].mode = "overlay" /\ over'[Base] = over[Base]
    BY <1>1, <1>2, <1>22, EndOp DEF Discard, At, TypeOK, Ending, Saving
  <2>3. disk' = disk /\ (guest'[Base].on => guest'[Base] = guest[Base] /\ over'[Base] = over[Base])
    BY <1>1, <1>2, <1>22 DEF Discard, At, TypeOK, OpPlaces
  <2> QED
    BY <1>1, <2>1, <2>2, <2>3, OverlayKept
<1>23. ASSUME NEW v \in VMs, GuestWrites(v) PROVE OverlayWhole'
  <2>1. op[v].pc \notin Booting \cup Saving
    BY <1>1, <1>23 DEF GuestWrites, OpPlaces, Starting, Booting
  <2>2. UNCHANGED <<cfg, op>> /\ guest[v].on
        /\ \A w \in VMs : w # v => over'[w] = over[w] /\ guest'[w] = guest[w]
    BY <1>1, <1>23 DEF GuestWrites, TypeOK
  <2>3. CASE v = Base /\ guest[Base].mode = "base"
    <3>1. \A i \in Instances : op[i].pc \notin Booting
      BY <1>1, <1>2, <2>2, <2>3 DEF BorrowedSound, BaseWritten, Booting
    <3>2. guest'[Base].mode = "base" /\ cfg[Base].mode = "base"
      BY <1>1, <1>2, <1>23, <2>2, <2>3 DEF GuestWrites, ModeRecorded, TypeOK, Guests
    <3> QED
      BY <2>1, <2>2, <2>3, <3>1, <3>2 DEF OverlayWhole, Booting, VMs
  <2>4. CASE guest[v].mode = "overlay"
    <3>1. disk' = disk /\ over'[v] = [disk |-> latest', efi |-> latest'] /\ guest'[v].efi = latest'
      BY <1>1, <1>23, <2>4 DEF GuestWrites, TypeOK, Guests
    <3> QED
      BY <1>1, <1>2, <2>1, <2>2, <3>1 DEF OverlayWhole, Booting
  <2> QED
    BY <1>1, <1>23, <2>3, <2>4 DEF GuestWrites, GuestDisk, TypeOK, Guests, VMs
<1>24. ASSUME NEW v \in VMs, GuestOff(v) PROVE OverlayWhole'
  <2>1. \A w \in VMs : op'[w].pc \in Booting /\ cfg'[w].provisioned =>
           op[w].pc \in Booting /\ cfg[w].provisioned /\ over'[w].efi = over[w].efi
    BY <1>1, <1>2, <1>24 DEF GuestOff, files, Booting
  <2>2. op'[Base].pc \in Ending /\ cfg'[Base].mode = "overlay" =>
           op[Base].pc \in Ending /\ cfg[Base].mode = "overlay" /\ over'[Base] = over[Base]
    BY <1>1, <1>2, <1>24 DEF GuestOff, files, Ending, Saving
  <2>3. disk' = disk /\ (guest'[Base].on => guest'[Base] = guest[Base] /\ over'[Base] = over[Base])
    BY <1>1, <1>2, <1>24 DEF GuestOff, files, NoGuest, TypeOK
  <2> QED
    BY <1>1, <2>1, <2>2, <2>3, OverlayKept
<1>25. ASSUME NEW v \in VMs, Ended(v) PROVE OverlayWhole'
  <2>1. \A w \in VMs : op'[w].pc \in Booting /\ cfg'[w].provisioned =>
           op[w].pc \in Booting /\ cfg[w].provisioned /\ over'[w].efi = over[w].efi
    BY <1>1, <1>2, <1>25, EndOp DEF Ended, Booting
  <2>2. op'[Base].pc \in Ending /\ cfg'[Base].mode = "overlay" =>
           op[Base].pc \in Ending /\ cfg[Base].mode = "overlay" /\ over'[Base] = over[Base]
    BY <1>1, <1>2, <1>25, EndOp DEF Ended, Ending, Saving
  <2>3. disk' = disk /\ (guest'[Base].on => guest'[Base] = guest[Base] /\ over'[Base] = over[Base])
    BY <1>1, <1>2, <1>25 DEF Ended
  <2> QED
    BY <1>1, <2>1, <2>2, <2>3, OverlayKept
<1> QED
  BY StepKinds, <1>3, <1>4, <1>5, <1>6, <1>7, <1>8, <1>9, <1>10, <1>11, <1>12,
     <1>13, <1>14, <1>15, <1>16, <1>17, <1>18, <1>19, <1>20, <1>21, <1>22,
     <1>23, <1>24, <1>25 DEF Orderly

\* What a launched guest finds on its disk belongs with its variables.
LEMMA FoundWhole ==
    ASSUME WholeInv, NEW v \in VMs, At(v, "launch")
    PROVE  Found(v).disk = Found(v).efi
<1>1. TypeOK /\ OpPlaces /\ GuestDisk /\ BorrowedSound /\ BaseWhole /\ OverlayWhole
  BY DEF WholeInv, IInv
<1>2. CASE ~cfg[v].provisioned
  <2>1. v = Base /\ cfg[Base].here
    BY <1>1, <1>2 DEF OpPlaces, Starting, At, VMs
  <2>2. disk = efi
    BY <1>1, <2>1 DEF BaseWhole, At
  <2> QED
    BY <1>2, <2>2 DEF Found, Mode
<1>3. CASE cfg[v].provisioned
  <2>1. over[v].disk = Fresh
    BY <1>1, <1>3 DEF GuestDisk, BorrowedSound, At, VMs
  <2>2. over[v].efi = disk
    BY <1>1, <1>3 DEF OverlayWhole, At
  <2> QED
    BY <1>3, <2>1, <2>2 DEF Found, Mode
<1> QED
  BY <1>2, <1>3

\* A guest is launched on a whole disk, and writes both parts of it.
LEMMA BootsStep ==
    ASSUME WholeInv, Orderly, Next
    PROVE  BootsWhole'
<1>1. TypeOK /\ BootsWhole
  BY DEF WholeInv, IInv
<1>2. ASSUME NEW v \in VMs, Launch(v) PROVE BootsWhole'
  <2>1. guest'[v].disk = guest'[v].efi
    BY <1>1, <1>2, FoundWhole DEF Launch, TypeOK
  <2> QED
    BY <1>1, <1>2, <2>1 DEF Launch, BootsWhole, TypeOK
<1>3. ASSUME NEW v \in VMs, GuestWrites(v) PROVE BootsWhole'
  <2>1. guest'[v].disk = latest' /\ guest'[v].efi = latest'
    BY <1>1, <1>3 DEF GuestWrites, TypeOK, Guests
  <2> QED
    BY <1>1, <1>3, <2>1 DEF GuestWrites, BootsWhole, TypeOK
<1>4. ASSUME NEW v \in VMs, GuestOff(v) PROVE BootsWhole'
  BY <1>1, <1>4 DEF GuestOff, NoGuest, BootsWhole, TypeOK
<1>5. CASE UNCHANGED guest
  BY <1>1, <1>5 DEF BootsWhole
<1> QED
  BY <1>2, <1>3, <1>4, <1>5, StepKinds DEF Orderly, Prepare, Provision, Up, Down,
     Instance, DownStopped, MakeDisk, MakeConfig, ResetDisk, ResetEfi,
     StartDaemon, Mark, MarkProvisioned, AskShutdown, Stopped, Convert, SaveEfi,
     SaveDisk, Discard, Ended

\* While the base is saved only when no instance is in use, QEMU's tools refuse
\* an image that a guest writes, and no command is killed, a disk is never
\* parted from its variables.
THEOREM WholeDisks == ASSUME Orderly PROVE Spec => []DiskWithItsVariables
<1>1. Init => WholeInv
  <2>1. Init => IInv
    BY InitInv
  <2>2. Init => SavedAlone /\ BorrowedSound /\ BaseWhole /\ OverlayWhole /\ BootsWhole
    BY VMsAssumption DEF Init, SavedAlone, BorrowedSound, BaseWhole, OverlayWhole,
       BootsWhole, Saving, At, NoOp, NoConfig, NoGuest, VMs
  <2> QED
    BY <2>1, <2>2 DEF WholeInv
<1>2. WholeInv /\ [Next]_vars => WholeInv'
  <2> SUFFICES ASSUME WholeInv, [Next]_vars PROVE WholeInv'
    OBVIOUS
  <2>1. IInv'
    BY InvStep DEF WholeInv
  <2>2. CASE Next
    BY <2>1, <2>2, AloneStep, BorrowedStep, BaseStep, OverlayStep, BootsStep DEF WholeInv
  <2>3. CASE UNCHANGED vars
    BY <2>1, <2>3 DEF vars, WholeInv, SavedAlone, BorrowedSound, BaseWhole, OverlayWhole,
       BootsWhole, At, InUse, BaseWritten
  <2> QED
    BY <2>2, <2>3
<1>3. WholeInv => DiskWithItsVariables
  BY DEF WholeInv, BaseWhole, DiskWithItsVariables, ResetPointWhole, At
<1> QED
  BY <1>1, <1>2, <1>3, PTL DEF Spec

-----------------------------------------------------------------------------
(* A running guest is reused with its share.                               *)

\* What of a step MarkerTrue depends on: the share of one directory.
LEMMA MarkerKept ==
    ASSUME MarkerTrue, NEW v \in VMs,
           \A w \in VMs : w # v => op'[w] = op[w] /\ guest'[w] = guest[w] /\ marker'[w] = marker[w],
           guest'[v].on /\ op'[v].pc # "share" => marker'[v] = guest'[v].share,
           ~guest'[v].on /\ op'[v].pc # "stopping" => marker'[v] = NoShare,
           op'[v].pc = "share" => guest'[v].on /\ guest'[v].share = op'[v].share
    PROVE  MarkerTrue'
BY DEF MarkerTrue, At

\* A command that neither starts nor stops a guest.
LEMMA MarkerQuiet ==
    ASSUME MarkerTrue, NEW v \in VMs, UNCHANGED <<guest, marker>>,
           \A w \in VMs : w # v => op'[w] = op[w],
           op[v].pc # "share" /\ op'[v].pc # "share",
           guest[v].on \/ (op[v].pc # "stopping" /\ op'[v].pc # "stopping")
    PROVE  MarkerTrue'
BY DEF MarkerTrue, At

\* share.json parts from the guest only when a guest stops on its own or a
\* command is killed.
LEMMA MarkerStep ==
    ASSUME IInv, MarkerTrue, Faults \subseteq {"tool"}, Next
    PROVE  MarkerTrue'
<1>1. TypeOK /\ OpPlaces
  BY DEF IInv
<1>2. Base \in VMs
  BY DEF VMs
<1>3. CASE Prepare
  <2>1. op[Base].pc = "idle" /\ op'[Base].pc = "makeDisk"
    BY <1>1, <1>2, <1>3, BeginOp DEF Prepare
  <2>2. UNCHANGED <<guest, marker>> /\ \A w \in VMs : w # Base => op'[w] = op[w]
    BY <1>1, <1>2, <1>3, BeginOp DEF Prepare, daemons
  <2> QED
    BY <1>2, <2>1, <2>2, MarkerQuiet
<1>4. CASE Provision
  <2>1. op[Base].pc = "idle" /\ op'[Base].pc = "provisioned"
    BY <1>1, <1>2, <1>4, BeginOp DEF Provision
  <2>2. UNCHANGED <<guest, marker>> /\ \A w \in VMs : w # Base => op'[w] = op[w]
    BY <1>1, <1>2, <1>4, BeginOp DEF Provision, daemons
  <2> QED
    BY <1>2, <2>1, <2>2, MarkerQuiet
<1>5. ASSUME NEW v \in VMs, NEW install \in BOOLEAN, NEW share \in Shares \cup
             {NoShare}, Up(v, install, share)
      PROVE  MarkerTrue'
  <2>1. op[v].pc \notin {"share", "stopping"} /\ op'[v].pc \notin {"share", "stopping"}
    BY <1>1, <1>5, BeginOp DEF Up, At
  <2>2. UNCHANGED <<guest, marker>> /\ \A w \in VMs : w # v => op'[w] = op[w]
    BY <1>1, <1>5, BeginOp DEF Up, daemons
  <2> QED
    BY <2>1, <2>2, MarkerQuiet
<1>6. ASSUME NEW v \in VMs, NEW keep \in BOOLEAN, Down(v, keep)
      PROVE  MarkerTrue'
  <2>1. op[v].pc \notin {"share", "stopping"} /\ op'[v].pc \notin {"share", "stopping"}
    BY <1>1, <1>6, BeginOp DEF Down, At
  <2>2. UNCHANGED <<guest, marker>> /\ \A w \in VMs : w # v => op'[w] = op[w]
    BY <1>1, <1>6, BeginOp DEF Down, daemons
  <2> QED
    BY <2>1, <2>2, MarkerQuiet
<1>7. ASSUME NEW v \in VMs, Instance(v) PROVE MarkerTrue'
  BY <1>7 DEF Instance, daemons, MarkerTrue, At
<1>8. ASSUME NEW v \in VMs, DownStopped(v) PROVE MarkerTrue'
  <2>1. marker'[v] = NoShare /\ \A w \in VMs : w # v => marker'[w] = marker[w]
    BY <1>1, <1>8 DEF DownStopped, StopDaemon, TypeOK
  <2> QED
    BY <1>8, <2>1, MarkerKept DEF DownStopped, At
<1>9. ASSUME NEW v \in VMs, MakeDisk(v) PROVE MarkerTrue'
  <2>1. op[v].pc \notin {"share", "stopping"} /\ op'[v].pc \notin {"share", "stopping"}
    BY <1>1, <1>9, GotoOp DEF MakeDisk, At
  <2>2. UNCHANGED <<guest, marker>> /\ \A w \in VMs : w # v => op'[w] = op[w]
    BY <1>1, <1>9, GotoOp DEF MakeDisk, daemons
  <2> QED
    BY <2>1, <2>2, MarkerQuiet
<1>10. ASSUME NEW v \in VMs, MakeConfig(v) PROVE MarkerTrue'
  <2>1. op[v].pc \notin {"share", "stopping"} /\ op'[v].pc \notin {"share", "stopping"}
    BY <1>1, <1>10, EndOp DEF MakeConfig, At
  <2>2. UNCHANGED <<guest, marker>> /\ \A w \in VMs : w # v => op'[w] = op[w]
    BY <1>1, <1>10, EndOp DEF MakeConfig, daemons
  <2> QED
    BY <2>1, <2>2, MarkerQuiet
<1>11. ASSUME NEW v \in VMs, ResetDisk(v) PROVE MarkerTrue'
  <2>1. op[v].pc \notin {"share", "stopping"} /\ op'[v].pc \notin {"share", "stopping"}
    BY <1>1, <1>11, GotoOp DEF ResetDisk, At
  <2>2. UNCHANGED <<guest, marker>> /\ \A w \in VMs : w # v => op'[w] = op[w]
    BY <1>1, <1>11, GotoOp DEF ResetDisk, daemons
  <2> QED
    BY <2>1, <2>2, MarkerQuiet
<1>12. ASSUME NEW v \in VMs, ResetEfi(v) PROVE MarkerTrue'
  <2>1. op[v].pc \notin {"share", "stopping"} /\ op'[v].pc \notin {"share", "stopping"}
    BY <1>1, <1>12, GotoOp DEF ResetEfi, At, NextOfReset
  <2>2. UNCHANGED <<guest, marker>> /\ \A w \in VMs : w # v => op'[w] = op[w]
    BY <1>1, <1>12, GotoOp DEF ResetEfi, daemons
  <2> QED
    BY <2>1, <2>2, MarkerQuiet
<1>13. ASSUME NEW v \in VMs, StartDaemon(v) PROVE MarkerTrue'
  <2>1. op[v].pc \notin {"share", "stopping"} /\ op'[v].pc \notin {"share", "stopping"}
    BY <1>1, <1>13, GotoOp DEF StartDaemon, At
  <2>2. UNCHANGED <<guest, marker>> /\ \A w \in VMs : w # v => op'[w] = op[w]
    BY <1>1, <1>13, GotoOp DEF StartDaemon, daemons
  <2> QED
    BY <2>1, <2>2, MarkerQuiet
<1>14. ASSUME NEW v \in VMs, Mark(v) PROVE MarkerTrue'
  <2>1. op[v].pc \notin {"share", "stopping"} /\ op'[v].pc \notin {"share", "stopping"}
    BY <1>1, <1>14, GotoOp DEF Mark, At
  <2>2. UNCHANGED <<guest, marker>> /\ \A w \in VMs : w # v => op'[w] = op[w]
    BY <1>1, <1>14, GotoOp DEF Mark, daemons
  <2> QED
    BY <2>1, <2>2, MarkerQuiet
<1>15. ASSUME NEW v \in VMs, Launch(v) PROVE MarkerTrue'
  <2>1. ~guest[v].on /\ marker[v] = NoShare
    BY <1>1, <1>15 DEF Launch, At, OpPlaces, Starting, MarkerTrue
  <2>2. guest'[v].on /\ guest'[v].share = op[v].share /\ UNCHANGED marker
        /\ \A w \in VMs : w # v => guest'[w] = guest[w]
    BY <1>1, <1>15 DEF Launch, TypeOK, daemons
  <2>3. CASE op[v].share = NoShare
    <3>1. op'[v].pc = "idle" /\ \A w \in VMs : w # v => op'[w] = op[w]
      BY <1>1, <1>15, <2>3, EndOp DEF Launch
    <3> QED
      BY <2>1, <2>2, <2>3, <3>1, MarkerKept
  <2>4. CASE op[v].share # NoShare
    <3>1. op'[v].pc = "share" /\ op'[v].share = op[v].share
          /\ \A w \in VMs : w # v => op'[w] = op[w]
      BY <1>1, <1>15, <2>4, GotoOp DEF Launch
    <3> QED
      BY <2>2, <3>1, MarkerKept
  <2> QED
    BY <2>3, <2>4
<1>16. ASSUME NEW v \in VMs, MarkProvisioned(v) PROVE MarkerTrue'
  <2>1. op[v].pc \notin {"share", "stopping"} /\ op'[v].pc \notin {"share", "stopping"}
    BY <1>1, <1>16, EndOp DEF MarkProvisioned, At
  <2>2. UNCHANGED <<guest, marker>> /\ \A w \in VMs : w # v => op'[w] = op[w]
    BY <1>1, <1>16, EndOp DEF MarkProvisioned, daemons
  <2> QED
    BY <2>1, <2>2, MarkerQuiet
<1>17. ASSUME NEW v \in VMs, AskShutdown(v) PROVE MarkerTrue'
  <2>1. op[v].pc = "shutdown" /\ op'[v].pc = "stopping" /\ guest[v].on
    BY <1>1, <1>17, GotoOp DEF AskShutdown, At
  <2>2. UNCHANGED <<guest, marker>> /\ \A w \in VMs : w # v => op'[w] = op[w]
    BY <1>1, <1>17, GotoOp DEF AskShutdown, daemons
  <2> QED
    BY <2>1, <2>2, MarkerQuiet
<1>18. ASSUME NEW v \in VMs, Stopped(v) PROVE MarkerTrue'
  <2>1. marker'[v] = NoShare /\ \A w \in VMs : w # v => marker'[w] = marker[w]
    BY <1>1, <1>18 DEF Stopped, StopDaemon, TypeOK
  <2>2. op'[v].pc \in {"convert", "discard"} /\ \A w \in VMs : w # v => op'[w] = op[w]
    BY <1>1, <1>18, GotoOp DEF Stopped
  <2>3. ~guest[v].on /\ guest' = guest
    BY <1>18 DEF Stopped
  <2> QED
    BY <2>1, <2>2, <2>3, MarkerKept
<1>19. ASSUME NEW v \in VMs, Convert(v) PROVE MarkerTrue'
  <2>1. op[v].pc \notin {"share", "stopping"} /\ op'[v].pc \notin {"share", "stopping"}
    BY <1>1, <1>19, GotoOp DEF Convert, At
  <2>2. UNCHANGED <<guest, marker>> /\ \A w \in VMs : w # v => op'[w] = op[w]
    BY <1>1, <1>19, GotoOp DEF Convert, daemons
  <2> QED
    BY <2>1, <2>2, MarkerQuiet
<1>20. ASSUME NEW v \in VMs, SaveEfi(v) PROVE MarkerTrue'
  <2>1. op[v].pc \notin {"share", "stopping"} /\ op'[v].pc \notin {"share", "stopping"}
    BY <1>1, <1>20, GotoOp DEF SaveEfi, At
  <2>2. UNCHANGED <<guest, marker>> /\ \A w \in VMs : w # v => op'[w] = op[w]
    BY <1>1, <1>20, GotoOp DEF SaveEfi, daemons
  <2> QED
    BY <2>1, <2>2, MarkerQuiet
<1>21. ASSUME NEW v \in VMs, SaveDisk(v) PROVE MarkerTrue'
  <2>1. op[v].pc \notin {"share", "stopping"} /\ op'[v].pc \notin {"share", "stopping"}
    BY <1>1, <1>21, GotoOp DEF SaveDisk, At
  <2>2. UNCHANGED <<guest, marker>> /\ \A w \in VMs : w # v => op'[w] = op[w]
    BY <1>1, <1>21, GotoOp DEF SaveDisk, daemons
  <2> QED
    BY <2>1, <2>2, MarkerQuiet
<1>22. ASSUME NEW v \in VMs, Discard(v) PROVE MarkerTrue'
  <2>1. op[v].pc \notin {"share", "stopping"} /\ op'[v].pc \notin {"share", "stopping"}
    BY <1>1, <1>22, EndOp DEF Discard, At
  <2>2. UNCHANGED <<guest, marker>> /\ \A w \in VMs : w # v => op'[w] = op[w]
    BY <1>1, <1>22, EndOp DEF Discard, daemons
  <2> QED
    BY <2>1, <2>2, MarkerQuiet
<1>23. ASSUME NEW v \in VMs, GuestWrites(v) PROVE MarkerTrue'
  <2>1. UNCHANGED <<op, marker>>
    BY <1>23 DEF GuestWrites, daemons
  <2>2. guest[v] \in Guests
    BY <1>1 DEF TypeOK
  <2>3. guest' = [guest EXCEPT ![v] = [guest[v] EXCEPT !.disk = latest', !.efi = latest']]
    BY <1>23 DEF GuestWrites
  <2>4. guest'[v].on = guest[v].on /\ guest'[v].share = guest[v].share
    BY <1>1, <2>2, <2>3 DEF TypeOK, Guests
  <2>5. \A w \in VMs : w # v => guest'[w] = guest[w]
    BY <1>1, <2>3 DEF TypeOK
  <2> QED
    BY <2>1, <2>4, <2>5 DEF MarkerTrue, At
<1>24. ASSUME NEW v \in VMs, GuestOff(v) PROVE MarkerTrue'
  <2>1. op[v].pc = "stopping"
    BY <1>24 DEF GuestOff, At
  <2>2. UNCHANGED <<op, marker>> /\ ~guest'[v].on /\ \A w \in VMs : w # v => guest'[w] = guest[w]
    BY <1>1, <1>24 DEF GuestOff, NoGuest, TypeOK
  <2> QED
    BY <2>1, <2>2, MarkerKept
<1>25. ASSUME NEW v \in VMs, Ended(v) PROVE MarkerTrue'
  <2>1. op'[v].pc = "idle" /\ (\A w \in VMs : w # v => op'[w] = op[w]) /\ guest' = guest
    BY <1>1, <1>25, EndOp DEF Ended
  <2>2. CASE RecordShare(v)
    <3>1. marker'[v] = guest[v].share /\ guest[v].on
      BY <1>1, <2>2 DEF RecordShare, MarkerTrue, TypeOK
    <3>2. \A w \in VMs : w # v => marker'[w] = marker[w]
      BY <1>1, <2>2 DEF RecordShare, TypeOK
    <3> QED
      BY <2>1, <3>1, <3>2, MarkerKept
  <2>3. CASE ~RecordShare(v)
    BY <1>25, <2>1, <2>3, MarkerQuiet DEF Ended, At
  <2> QED
    BY <2>2, <2>3
<1> QED
  BY StepKinds, <1>3, <1>4, <1>5, <1>6, <1>7, <1>8, <1>9, <1>10, <1>11, <1>12,
     <1>13, <1>14, <1>15, <1>16, <1>17, <1>18, <1>19, <1>20, <1>21, <1>22,
     <1>23, <1>24, <1>25

\* docs/qemu-vm.md:215-216 holds of guests that do not stop on their own and
\* commands that are not killed: a running guest is reused only with its share.
THEOREM SameShare == ASSUME Faults \subseteq {"tool"} PROVE Spec => []ReusedWithSameShare
<1>1. Init => MarkerTrue
  BY DEF Init, MarkerTrue, At, NoOp, NoGuest
<1>2. IInv /\ MarkerTrue /\ [Next]_vars => MarkerTrue'
  <2>1. IInv /\ MarkerTrue /\ Next => MarkerTrue'
    BY MarkerStep
  <2>2. MarkerTrue /\ UNCHANGED vars => MarkerTrue'
    BY DEF MarkerTrue, At, vars
  <2> QED
    BY <2>1, <2>2
<1>3. MarkerTrue => ReusedWithSameShare
  BY DEF MarkerTrue, ReusedWithSameShare, Reuses, At
<1> QED
  BY <1>1, <1>2, <1>3, Invariant, PTL DEF Spec
=============================================================================
