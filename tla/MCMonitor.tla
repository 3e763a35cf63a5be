----------------------------- MODULE MCMonitor ------------------------------
(* A monitor on a framer, with a second goroutine that may call Close.      *)
EXTENDS Monitor
=============================================================================
