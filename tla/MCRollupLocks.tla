---------------------------- MODULE MCRollupLocks ---------------------------
(***************************************************************************)
(* Small instances of RollupLocks for TLC: two calls of a batch.           *)
(***************************************************************************)
EXTENDS RollupLocks

CONSTANTS c1, c2, p

TwoCalls == {c1, c2}

\* Both executors, a judge, a cancel of one call and of the batch, the reaper.
EverySide ==
    {<<"worker", c1>>, <<"worker", c2>>, <<"judge", c2>>,
     <<"user", c1>>, <<"batch", p>>, <<"reaper", p>>}

=============================================================================
