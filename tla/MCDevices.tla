----------------------------- MODULE MCDevices -----------------------------
(***************************************************************************)
(* Devices on a small instance.  The dialog and the rest share nothing but *)
(* the page and the request to save: it is used while nothing is in flight.*)
(***************************************************************************)
EXTENDS Devices

DialogAlone == dlg # NoDialog => reqs = <<>> /\ status.st = "idle" /\ list.st = "idle"

=============================================================================
