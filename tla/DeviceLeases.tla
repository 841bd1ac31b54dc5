----------------------------- MODULE DeviceLeases -----------------------------
(***************************************************************************)
(* What the operation barrier promises about one device: an operation is    *)
(* admitted under the device's current epoch only, and a transfer revokes,  *)
(* in one step, every lease that was admitted under an earlier epoch.  A    *)
(* transfer whose commit its own caller never learns of revokes none.       *)
(* The barrier of playauth/device_operation_barrier.go is shown to          *)
(* implement this.                                                          *)
(***************************************************************************)
EXTENDS Naturals

CONSTANT Ops

VARIABLES
    epoch,     \* epoch of the device
    lease,     \* lease[o]: epoch under which o was admitted, 0 without a lease
    revoked    \* operations whose lease has been revoked

leaseVars == <<epoch, lease, revoked>>

Init ==
    /\ epoch = 1
    /\ lease = [o \in Ops |-> 0]
    /\ revoked = {}

Admit(o) ==
    /\ lease[o] = 0
    /\ lease' = [lease EXCEPT ![o] = epoch]
    /\ UNCHANGED <<epoch, revoked>>

End(o) ==
    /\ lease[o] # 0
    /\ lease' = [lease EXCEPT ![o] = 0]
    /\ revoked' = revoked \ {o}
    /\ UNCHANGED epoch

Transfer ==
    /\ epoch' = epoch + 1
    /\ revoked' = {o \in Ops : lease[o] # 0}
    /\ UNCHANGED lease

TransferUnseen ==
    /\ epoch' = epoch + 1
    /\ UNCHANGED <<lease, revoked>>

Next ==
    \/ \E o \in Ops : Admit(o) \/ End(o)
    \/ Transfer \/ TransferUnseen

Spec == Init /\ [][Next]_leaseVars

===============================================================================
