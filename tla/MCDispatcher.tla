---------------------------- MODULE MCDispatcher ----------------------------
(***************************************************************************)
(* The wiring of the runs.  A backtest: an exchange that passes bars on,   *)
(* and whose order updates go before other events (order_mgr.py:65).  A    *)
(* strategy made of jobs: signals that a risk manager passes on.           *)
(***************************************************************************)
EXTENDS DispatcherProperties

\* The second bar source has bars of the same time, and of another.
BarSources == <<"bars", "more", "pair", "updates">>
BarPriority == [s \in SourceSet |-> IF s = "updates" THEN 1 ELSE 0]
BarScripts ==
    {[s \in SourceSet |-> CASE s = "bars" -> bars [] s = "more" -> more [] OTHER -> <<>>] :
        bars \in {<<2, 4>>}, more \in {<<2>>, <<3>>}}
To(from, to) == [s \in SourceSet |-> IF s = from THEN {to} ELSE {}]
BarForwards == To("bars", "pair")
BarEmits == To("pair", "updates")
DelaysAround == {-1, 0, 1}

SignalSources == <<"bars", "signals", "checked">>
SignalPriority == [s \in SourceSet |-> 0]
SignalScripts == {[s \in SourceSet |-> IF s = "bars" THEN <<2, 4>> ELSE <<>>]}
SignalForwards == To("signals", "checked")
NoEmits == [s \in SourceSet |-> {}]
=============================================================================
