----------------------------- MODULE MCLiveFeed -----------------------------
(* Small instances of LiveFeed for TLC.                                    *)
EXTENDS LiveFeed, TLC
=============================================================================
