---------------------------- MODULE MCAsyncJoblib ----------------------------
(* Model-checking instances of AsyncJoblib.  Threads and requests are
   interchangeable, so the safety runs use their symmetry. *)
EXTENDS AsyncJoblib, TLC

Symmetry == Permutations(Waiters) \cup Permutations(Controllers)
              \cup Permutations(Requests)
=============================================================================
