-------------------------- MODULE MCObjectMonitor --------------------------
(***************************************************************************)
(* Instances of ObjectMonitor for TLC: a run explores several settings,    *)
(* each as small as the case it is for allows.                             *)
(***************************************************************************)
EXTENDS ObjectMonitor

CONSTANTS t1, t2, t3

Does(a, b, c) == [t \in Thread |-> CASE t = t1 -> a [] t = t2 -> b [] OTHER -> c]

\* The defaults of synchronizer.cpp: one thread waits, one notifies, a third one
\* contends; two enter, and one may be in the monitor when it is inflated.
Default ==
  [ ExitPolicy |-> 0, QMode |-> 0, MoveNotifyee |-> 2, SpinAt |-> {},
    Ops |-> Does({"wait"}, {"notify"}, {"nothing"}),
    MaxCalls |-> 2, MaxRecursions |-> 0, MaxEvents |-> 0 ]

WaitNotify == [Default EXCEPT !.Ops = Does({"wait"}, {"notify"}, {})]

MonitorSettings ==
  { Default,
    \* every round of spinning
    [WaitNotify EXCEPT !.SpinAt = {"contend", "reset", "futile", "rPark"}],
    \* an interrupt or a suspension, anywhere
    [WaitNotify EXCEPT !.MaxEvents = 1],
    \* timeouts that race with notifyAll()
    [Default EXCEPT !.Ops = Does({"timed_wait"}, {"notifyAll"}, {})],
    \* recursion, and complete_exit()
    [Default EXCEPT !.Ops = Does({"wait"}, {"complete_exit"}, {}),
                    !.MaxRecursions = 1] }
  \* the other policies
  \cup { [Default EXCEPT !.Ops = Does({"wait"}, {"notify", "notifyAll"}, {}),
                         !.ExitPolicy = q % 2, !.QMode = q,
                         !.MoveNotifyee = IF q > 2 THEN q ELSE q - 1] : q \in 1..4 }

\* An interrupt of a waiter.
InterruptSettings == {[WaitNotify EXCEPT !.MaxEvents = 1]}

=============================================================================
