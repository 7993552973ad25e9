----------------------------- MODULE LocalSearch -----------------------------
(* The backends of a local search side by side: the kernels for structured
   discrete spaces and the SciPy kernel.  They share no state, and both promise
   the same of the slot they report. *)
EXTENDS StructuredSearch, ScipyEpisode

(* A local search reports what its evaluations found and, in a success, how many
   they were, whichever of the backends ran it (the _optimize_proposal methods of
   all kernels).  CallsCounted says what a failure of the SciPy kernel leaves out. *)
EpisodesReported == EpisodeReported /\ ScipyReported
=============================================================================
