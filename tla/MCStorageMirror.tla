-------------------------- MODULE MCStorageMirror --------------------------
(* Both storages for TLC: three jobs under arbitrary callers.  The key k1  *)
(* is used in Ignore mode with a TTL and in Replace mode without one, and  *)
(* some jobs have no key.  A clock unit is half a second, so that the TTL  *)
(* of one unit is rounded up.                                              *)
EXTENDS StorageMirror, TLC

CONSTANTS j1, j2, j3, k1, t1

Options == INSTANCE JobOptions WITH DefaultBase <- 1, DefaultCap <- 1

MCRequest ==
    LET job == Options!Defined(t1, Options!WithAttempts(2)) IN
    {Options!Pushed(job, <<Options!DedupKey(k1), Options!DedupTTL(1)>>),
     Options!Pushed(job, <<Options!DedupReplace, Options!DedupKey(k1)>>),
     Options!Pushed(job, <<>>)}

MCSymmetry == Permutations(JobId)

=============================================================================
