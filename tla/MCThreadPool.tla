---------------------------- MODULE MCThreadPool -----------------------------
(* ThreadPool with two submitting threads, two workers and three tasks.     *)
EXTENDS ThreadPool

CONSTANTS w1, w2, c1, c2, t1, t2, t3

MCWorkers == {w1, w2}
MCClients == {c1, c2}
MCTasks == {t1, t2, t3}
=============================================================================
