--------------------------- MODULE MCRunLifecycle ---------------------------
(* Small instances of RunLifecycle for TLC. *)
EXTENDS RunLifecycle, TLC

CONSTANTS w1, w2

WorkerSymmetry == Permutations({w1, w2})

\* Every call that is possible at all: each run may be asked for as a fresh
\* run, and as a recovery of each other run.
AllRequests == {q \in Request : q.parent # q.run}

\* Two fresh runs, and run 2 as a recovery of run 1, which asks for the lock of
\* its parent first and for its own second.
OneWayRequests == {q \in AllRequests : q.parent # 2}

\* A chain: run 1 is fresh, run 2 recovers it, with the same settings or with
\* others, and run 3 recovers run 2.
ChainRequests ==
    {q \in AllRequests :
        <<q.run, q.parent, q.config.settings>> \in
            {<<1, None, "s1">>, <<2, 1, "s1">>, <<2, 1, "s2">>, <<3, 2, "s1">>}}

\* One fresh run, 2, and its recovery, 1, which asks for its own lock first and
\* for that of run 2 second.
RecoveryRequests ==
    {q \in AllRequests : <<q.run, q.parent>> \in {<<2, None>>, <<1, 2>>}}
=============================================================================
