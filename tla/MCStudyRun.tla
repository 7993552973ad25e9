------------------------------ MODULE MCStudyRun ------------------------------
(* Model-checking instance of the run loop and of one batch of request-local
   episodes.  The loop takes from a batch no more than what it reserved and what
   it used, so a behaviour is about one of them; `part` says which. *)
EXTENDS StudyRun, EpisodeBatch

CONSTANT Parts

VARIABLE part

studyVars == <<vars, episodesVars, part>>

(* A call that ended at once, with a run method that was exhausted already. *)
Ended ==
  LET s == [FreshState EXCEPT !.safe = TRUE, !.exhausted = TRUE] IN
  /\ pc = "done" /\ remaining = MaxEvaluations /\ state = s /\ evaluated = 0
  /\ step = NoStep /\ history = EmptyHistory /\ unsafeSince = FALSE
  /\ snapshot = IF StopAtCheckpoint THEN Cut(EmptyHistory, s) ELSE NoCut
  /\ outcome = [NoOutcome EXCEPT !.kind = "report", !.state = s]

StudyInit ==
  /\ part \in Parts
  /\ IF part = "run" THEN Init ELSE Ended
  /\ IF part = "episodes" THEN BatchInit
     ELSE BatchInit /\ available = 0 /\ preferred = [i \in Slots |-> 1]

RunStep == part = "run" /\ Next /\ UNCHANGED <<episodesVars, part>>

EpisodeStep == part = "episodes" /\ BatchNext /\ UNCHANGED <<vars, part>>

StudyNext == RunStep \/ EpisodeStep

(* The loop is a sequential call: while it can continue, it does. *)
StudySpec == StudyInit /\ [][StudyNext]_studyVars /\ WF_studyVars(RunStep)
=============================================================================
