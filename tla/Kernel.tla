------------------------------- MODULE Kernel -------------------------------
(***************************************************************************)
(* What the drivers of this repository assume of the Linux kernel they run *)
(* in: who may execute kernel code, and what spin_lock does.  The code is  *)
(* written with spin locks, so it is meant to run on a multiprocessor      *)
(* kernel (SMP = TRUE), where every process may take a step at any moment  *)
(* and a spin lock excludes.  The .ko files in the tree are built for      *)
(* vermagic "4.9.59 mod_unload modversions ARMv6 p2v8", a kernel that is   *)
(* neither SMP nor preemptible (SMP = FALSE): spin_lock compiles to        *)
(* nothing, and a process that runs in the kernel keeps the processor      *)
(* until it sleeps, may sleep, or returns to user mode.                    *)
(***************************************************************************)

CONSTANTS
  SMP,      \* TRUE: multiprocessor kernel; FALSE: the kernel of the .ko files
  Nobody    \* no process

ASSUME SMPType == SMP \in BOOLEAN

VARIABLES
  cpu,      \* UP only: the process that keeps the processor, or Nobody
  spinlock  \* the process that holds the driver's spin lock, or Nobody

KernelInit == cpu = Nobody /\ spinlock = Nobody

(* Process p may execute its next kernel instruction.                      *)
Runs(p) == SMP \/ cpu \in {p, Nobody}

(* A step after which the kernel code of p goes on without a scheduling    *)
(* point, and one after which another process may be scheduled.            *)
KeepCpu(p) == cpu' = IF SMP THEN Nobody ELSE p
GiveUpCpu  == cpu' = Nobody

SpinLock(p) ==
  IF SMP THEN spinlock = Nobody /\ spinlock' = p ELSE UNCHANGED spinlock

SpinUnlock == spinlock' = Nobody
=============================================================================
