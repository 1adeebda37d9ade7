------------------------- MODULE MCTelegramPolling -------------------------
(* A task, an update without text, a second task and an approval.          *)
EXTENDS TelegramPolling

TaskAndMore == <<"task", "other", "task", "approve">>
=============================================================================
