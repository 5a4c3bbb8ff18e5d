----------------------------- MODULE MCDeckFollow -----------------------------
(* Two tracks and short clocks, with RESYNC_RETRY_MS < RESYNC_STUCK_MS <=  *)
(* RESYNC_BACKOFF_CAP_MS as in the code.                                   *)
EXTENDS DeckFollow
=============================================================================
