------------------------- MODULE MCBrowserSessions -------------------------
(* BrowserSessions for TLC: the second key takes the id of the first. *)
EXTENDS BrowserSessions, TLC

SecondTakesId == 1 :> "k1" @@ 2 :> "k1" @@ 3 :> "k3"

=============================================================================
