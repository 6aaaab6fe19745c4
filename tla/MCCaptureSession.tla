-------------------------- MODULE MCCaptureSession --------------------------
(* One process after another; the setting, the backup and the kills are    *)
(* shared.  Connections are alike.                                         *)
EXTENDS CaptureSession, TLC

=============================================================================
