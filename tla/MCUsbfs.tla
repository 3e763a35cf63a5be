------------------------------ MODULE MCUsbfs -------------------------------
(* A device whose transferring goroutines are interchangeable.              *)
EXTENDS Usbfs, TLC

Symmetry == Permutations(Users)
=============================================================================
