----------------------------- MODULE MCTopProcs -----------------------------
(* Two processes, the first with a second thread; see the README for the bounds. *)
EXTENDS TopProcs

MCTasks == {<<1, 1>>, <<1, 3>>, <<2, 2>>}
MCSize == [t \in MCTasks |-> t[1]]

Opt(t, s, m, d, n) ==
    [threads |-> t, sort |-> s, max_procs |-> m, delay |-> d, iterations |-> n]
MCOptions ==
    {Opt(TRUE, "size", 2, 1, 1), Opt(TRUE, "thr", 0, 1, -1), Opt(FALSE, "cpu", 1, 1, 2),
     Opt(FALSE, "thr", 1, 0, 1)}
=============================================================================
