------------------------------- MODULE MCBoot -------------------------------
(* Two workers, a thread in each, and three tables with a column added to each. *)
EXTENDS Boot, TLC

CONSTANTS w1, w2, t1, t2

TheCallers == {w1, w2, t1, t2}
TheHomes == t1 :> w1 @@ t2 :> w2
TheColumns == [setting |-> {"keep_daily"}, admin_user |-> {"role"},
               site |-> {"restore_url_pinned"}]
=============================================================================
