------------------------------ MODULE MCSession ------------------------------
(* A small instance of Session for TLC, with 4 for 1024 and 2^6 for 2^32. *)
EXTENDS Session

\* Blocks below, at and above a KB; no block, fewer KB than a MB, a size that
\* is no multiple of anything, and more KB than a word holds.
SmallStatfs ==
    {m \in [bsize : {2, 4, 8}, blocks : {0, 50}, bavail : {0, 3, 19, 37, 50}] :
        m.bavail <= m.blocks}

\* getopt hands over any number.
AnyJobs == 0..3
AnySize == 0..5
=============================================================================
