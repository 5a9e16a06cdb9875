----------------------------- MODULE MCService ------------------------------
(***************************************************************************)
(* What a worker thread keeps up, each by itself: the timers with the      *)
(* objects they own, and a session between a client and a server.          *)
(***************************************************************************)
EXTENDS WorkerTimers, Session

CONSTANT Subjects
VARIABLE subject
serviceVars == <<subject, allVars, sessionVars>>

Init == subject \in Subjects /\ TimerInit /\ SessionInit
Next == \/ subject = "timers" /\ TimerNext /\ UNCHANGED <<subject, sessionVars>>
        \/ subject = "session" /\ SessionNext /\ UNCHANGED <<subject, allVars>>

(* The fairness of the two modules, for the subject alone. *)
Fairness ==
  /\ WF_allVars(subject = "timers" /\ RefStep(ReaperStep))
  /\ WF_allVars(subject = "timers" /\ ((WorkerStep /\ Quiet) \/ RefStep(ThreadFinishes(Worker))))
  /\ SF_allVars(subject = "timers" /\ TickMerge)
  /\ \A t \in Users :
       WF_allVars(subject = "timers" /\ (AssociateAddRef(t) \/ RefStep(ThreadFinishes(t))))
  /\ WF_sessionVars(subject = "session" /\ ClientTick)
  /\ \A s \in Slots : WF_sessionVars(subject = "session" /\ ConnTick(s))
Spec == Init /\ [][Next]_serviceVars /\ Fairness

(* What a worker keeps up comes to its end: it gives the references of its
   timers back, finalizing the reference-counted objects ends, and so do
   attempts to connect, disconnects and half-open sessions. *)
ServiceEnds == TimerReleased /\ ShutdownEnds /\ SessionsEnd
=============================================================================
