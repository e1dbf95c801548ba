--------------------------- MODULE MCAlertPolling ---------------------------
(***************************************************************************)
(* A small instance of AlertPolling, with one problem: problems meet in    *)
(* the toasts only, where those of alert rules compete with it.            *)
(***************************************************************************)
EXTENDS AlertPolling
=============================================================================
