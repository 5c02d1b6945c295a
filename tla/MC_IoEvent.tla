----------------------------- MODULE MC_IoEvent -----------------------------
(* IoEvent for TLC: a task that reads, and one that makes all other calls. *)
EXTENDS IoEvent
CONSTANTS t1, t2, tf1, tf2, f1, f2

TimerFdTwo == (t1 :> tf1) @@ (t2 :> tf2)
DoesTwo ==
    (t1 :> (f1 :> {"socket", "listen", "accept", "co_poll"}
            @@ f2 :> {"socket", "connect", "write", "sendmsg", "co_poll", "close"}))
    @@ (t2 :> (f1 :> {"read"} @@ f2 :> {}))
ArrivalsTwo == (f1 :> {"in"}) @@ (f2 :> {"out", "err"})
=============================================================================
