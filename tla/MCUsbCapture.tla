----------------------------- MODULE MCUsbCapture -----------------------------
(* Three repetitions, and a board that is reset once during the capture. *)
EXTENDS UsbCapture
=============================================================================
