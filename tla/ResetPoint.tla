----------------------------- MODULE ResetPoint -----------------------------
(***************************************************************************)
(* What the QEMU guest's disk promises (docs/qemu-vm.md, Reset point):     *)
(* once provisioned, every cold boot starts from the saved disk, whatever  *)
(* the last boot wrote, and the saved disk becomes what a stopped boot     *)
(* left behind or stays as it is.  LocalVM is shown to implement this.     *)
(***************************************************************************)
EXTENDS Integers

CONSTANTS
    Contents,  \* what a disk may contain
    None       \* no disk, or no guest running

VARIABLES
    saved,   \* what the reset point's disk contains
    guest,   \* what the running guest sees on its disk
    direct,  \* the guest writes the reset point's own disk
    left     \* what the last boot left in its overlay

vars == <<saved, guest, direct, left>>

Init == saved = None /\ guest = None /\ ~direct /\ left = None

Create == saved = None /\ saved' \in Contents /\ UNCHANGED <<guest, direct, left>>

\* A cold boot sees the saved disk; the overlay of the boot before is gone.
Boot ==
    /\ guest = None /\ saved # None
    /\ guest' = saved
    /\ direct' \in BOOLEAN
    /\ left' \in {left, None}
    /\ UNCHANGED saved

Write ==
    /\ guest # None
    /\ guest' \in Contents
    /\ saved' = IF direct THEN guest' ELSE saved
    /\ UNCHANGED <<direct, left>>

Off ==
    /\ guest # None
    /\ guest' = None /\ ~direct'
    /\ left' = IF direct THEN left ELSE guest
    /\ UNCHANGED saved

Save == guest = None /\ left # None /\ saved' = left /\ UNCHANGED <<guest, direct, left>>

Discard == guest = None /\ left' = None /\ UNCHANGED <<saved, guest, direct>>

Next == Create \/ Boot \/ Write \/ Off \/ Save \/ Discard

Spec == Init /\ [][Next]_vars
=============================================================================
