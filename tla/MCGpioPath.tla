----------------------------- MODULE MCGpioPath -----------------------------
(* GpioPath with the numbers of MCGpioPath.cfg. *)
EXTENDS GpioPath
=============================================================================
