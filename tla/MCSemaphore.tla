---------------------------- MODULE MCSemaphore ----------------------------
(* A small instance of Semaphore: three provider runs and a spawn body. The *)
(* program gives each kind of caller a semaphore of its own; sharing one is *)
(* the harder case and contains both.                                       *)
EXTENDS Semaphore

AnyLimits == {-1, 0, 1, 2}
=============================================================================
