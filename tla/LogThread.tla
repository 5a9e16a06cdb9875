----------------------------- MODULE LogThread -----------------------------
(***************************************************************************)
(* The log, src/src/io/Log.cpp and LogThread.cpp.  The first message starts *)
(* a thread that puts itself in front of the output: from then on a message *)
(* is added to one of two lists under the lock of the log, and the thread,  *)
(* woken by a flag, swaps the lists and writes the full one out without     *)
(* the lock.                                                                *)
(***************************************************************************)
EXTENDS Integers, Sequences, FiniteSets

CONSTANTS Loggers,        \* threads that log
          MaxListSize,    \* MAX_LIST_SIZE
          MaxLogged       \* bound: messages

ASSUME LogAssumption == MaxListSize \in Nat \ {0} /\ MaxLogged \in Nat

Lists == {0, 1}
VARIABLES frontend,       \* _frontend: "setup", "direct" or "thread"
          list,           \* _list_a, _list_b, up to _list_size
          list_writing, flagged, wakeup, die,
          logger,         \* where each thread is in Write()
          reader,         \* where the log thread is, in which list and at which item
          runs,           \* RunList()s that Cleanup() has left
          printed,         \* what the backend was given
          logged,         \* messages, as they were accepted
          lost            \* messages that were refused
logVars == <<frontend, list, list_writing, flagged, wakeup, die, logger, reader, runs,
             printed, logged, lost>>

NotStarted == [pc |-> "none", from |-> 0, item |-> 0]
LogInit == /\ frontend = "setup" /\ list = [l \in Lists |-> <<>>] /\ list_writing = 0
           /\ flagged = FALSE /\ wakeup = FALSE /\ die = "no"
           /\ logger = [t \in Loggers |-> "idle"] /\ reader = NotStarted /\ runs = 0
           /\ printed = <<>> /\ logged = <<>> /\ lost = {}

Message == [id |-> Len(logged) + Cardinality(lost) + 1, overflow |-> FALSE]
LoggerGoes(t, pc) == logger' = [logger EXCEPT ![t] = pc]
ReaderGoes(pc) == reader' = [reader EXCEPT !.pc = pc]

-----------------------------------------------------------------------------
(* InvokeFrontend, with the lock of the log held. *)
InvokeBackend(m) == printed' = Append(printed, m) /\ logged' = Append(logged, m)

InvokeBackendAndSetupThreaded(t) ==
  /\ frontend = "setup"
  /\ frontend' = "direct" /\ InvokeBackend(Message) /\ LoggerGoes(t, "start")
  /\ UNCHANGED <<list, lost>>
InvokeBackendAndUnlock(t) ==
  /\ frontend = "direct"
  /\ InvokeBackend(Message)
  /\ UNCHANGED <<frontend, list, logger, lost>>
(* The last message there is room for is said to overflow, and those after it
   are refused.  Mutant: the message before is not marked. *)
MarkedNever(m, size) == m
Marked(m, size) == [m EXCEPT !.overflow = (size >= MaxListSize - 1)]
Write(t) ==
  LET m == Marked(Message, Len(list[list_writing])) IN
  /\ frontend = "thread"
  /\ IF Len(list[list_writing]) >= MaxListSize
     THEN lost' = lost \cup {m.id} /\ UNCHANGED <<list, logged, logger>>
     ELSE /\ list' = [list EXCEPT ![list_writing] = Append(@, m)]
          /\ logged' = Append(logged, m)
          /\ LoggerGoes(t, "flag") /\ UNCHANGED lost
  /\ UNCHANGED <<frontend, printed>>
InvokeFrontend(t) ==
  /\ logger[t] = "idle" /\ Message.id <= MaxLogged
  /\ InvokeBackendAndSetupThreaded(t) \/ InvokeBackendAndUnlock(t) \/ Write(t)
  /\ UNCHANGED <<list_writing, flagged, wakeup, die, reader, runs>>

(* LogThread::ref() starts the thread. *)
StartLogThread(t) ==
  /\ logger[t] = "start"
  /\ LoggerGoes(t, "idle") /\ ReaderGoes("start")
  /\ UNCHANGED <<frontend, list, list_writing, flagged, wakeup, die, runs, printed, logged, lost>>

(* The end of Write(), after the lock is left. *)
SetFlagged(t) ==
  /\ logger[t] = "flag"
  /\ flagged' = TRUE /\ LoggerGoes(t, IF flagged THEN "idle" ELSE "wake")
  /\ UNCHANGED <<frontend, list, list_writing, wakeup, die, reader, runs, printed, logged, lost>>
GiveSemaphore(t) ==
  /\ logger[t] = "wake"
  /\ wakeup' = TRUE /\ LoggerGoes(t, "idle")
  /\ UNCHANGED <<frontend, list, list_writing, flagged, die, reader, runs, printed, logged, lost>>

(* OnFinalize: the thread is told to end, and woken. *)
SetDie == /\ die = "no" /\ reader.pc # "none" /\ die' = "set"
          /\ UNCHANGED <<frontend, list, list_writing, flagged, wakeup, logger, reader, runs,
                         printed, logged, lost>>
WakeToDie == /\ die = "set" /\ die' = "woken" /\ wakeup' = TRUE
             /\ UNCHANGED <<frontend, list, list_writing, flagged, logger, reader, runs,
                            printed, logged, lost>>

-----------------------------------------------------------------------------
(* Entrypoint: the thread puts itself in front, and waits. *)
Entrypoint == /\ reader.pc = "start"
              /\ frontend' = "thread" /\ ReaderGoes("wait")
              /\ UNCHANGED <<list, list_writing, flagged, wakeup, die, logger, runs,
                             printed, logged, lost>>
WakeUp == /\ reader.pc = "wait" /\ wakeup
          /\ wakeup' = FALSE /\ ReaderGoes("woken")
          /\ UNCHANGED <<frontend, list, list_writing, flagged, die, logger, runs,
                         printed, logged, lost>>
Unflag == /\ reader.pc = "woken"
          /\ flagged' = FALSE /\ ReaderGoes("check")
          /\ UNCHANGED <<frontend, list, list_writing, wakeup, die, logger, runs,
                         printed, logged, lost>>
CheckDie == /\ reader.pc = "check"
            /\ ReaderGoes(IF die = "no" THEN "run" ELSE "cleanup")
            /\ UNCHANGED <<frontend, list, list_writing, flagged, wakeup, die, logger, runs,
                           printed, logged, lost>>
(* Cleanup: the thread takes itself out, and runs what remains.  Mutant: it
   stays in front. *)
ResetFrontendNot == frontend
ResetFrontend == "direct"
Cleanup == /\ reader.pc = "cleanup"
           /\ frontend' = ResetFrontend /\ runs' = 2 /\ ReaderGoes("run")
           /\ UNCHANGED <<list, list_writing, flagged, wakeup, die, logger, printed, logged, lost>>

(* RunList: the size is looked at without the lock. *)
RanList == reader' = [NotStarted EXCEPT !.pc = "ran"]
LookAtList ==
  /\ reader.pc = "run"
  /\ IF list[list_writing] = <<>> THEN RanList
     ELSE reader' = [pc |-> "swap", from |-> list_writing, item |-> 1]
  /\ UNCHANGED <<frontend, list, list_writing, flagged, wakeup, die, logger, runs,
                 printed, logged, lost>>
(* Mutant: the lists are not swapped. *)
SwappedNot(from) == from
Swapped(from) == 1 - from
SwapLists ==
  /\ reader.pc = "swap"
  /\ list_writing' = Swapped(reader.from) /\ ReaderGoes("output")
  /\ UNCHANGED <<frontend, list, flagged, wakeup, die, logger, runs, printed, logged, lost>>
OutputItem ==
  /\ reader.pc = "output"
  /\ printed' = Append(printed, list[reader.from][reader.item])
  /\ IF reader.item = Len(list[reader.from]) THEN ReaderGoes("reset")
     ELSE reader' = [reader EXCEPT !.item = @ + 1]
  /\ UNCHANGED <<frontend, list, list_writing, flagged, wakeup, die, logger, runs, logged, lost>>
ResetSize ==
  /\ reader.pc = "reset"
  /\ list' = [list EXCEPT ![reader.from] = <<>>] /\ RanList
  /\ UNCHANGED <<frontend, list_writing, flagged, wakeup, die, logger, runs, printed, logged, lost>>

(* After RunList: again if the flag was set since, else the thread waits; in
   Cleanup() it ends. *)
AfterRun ==
  /\ reader.pc = "ran"
  /\ IF runs > 0
     THEN /\ runs' = runs - 1 /\ ReaderGoes(IF runs = 1 THEN "dead" ELSE "run")
          /\ UNCHANGED flagged
     ELSE /\ flagged' = FALSE /\ ReaderGoes(IF flagged THEN "check" ELSE "wait")
          /\ UNCHANGED runs
  /\ UNCHANGED <<frontend, list, list_writing, wakeup, die, logger, printed, logged, lost>>

LoggerStep(t) == StartLogThread(t) \/ SetFlagged(t) \/ GiveSemaphore(t)
ReaderStep == \/ Entrypoint \/ WakeUp \/ Unflag \/ CheckDie \/ Cleanup \/ LookAtList
              \/ SwapLists \/ OutputItem \/ ResetSize \/ AfterRun
LogNext == \/ \E t \in Loggers : InvokeFrontend(t) \/ LoggerStep(t)
           \/ SetDie \/ WakeToDie \/ ReaderStep
(* A thread that logs goes on, and so does the log thread; OnFinalize() goes
   from the one step to the other. *)
LogFairness == /\ \A t \in Loggers : WF_logVars(LoggerStep(t))
               /\ WF_logVars(ReaderStep) /\ WF_logVars(WakeToDie)
LogSpec == LogInit /\ [][LogNext]_logVars /\ LogFairness

-----------------------------------------------------------------------------
(* Messages that still wait, the oldest first: what the thread has not written
   of its list, then the list that is added to. *)
Unwritten(l) == IF reader.pc = "reset" /\ l = reader.from THEN <<>>
                ELSE IF reader.pc \in {"swap", "output"} /\ l = reader.from
                THEN SubSeq(list[l], reader.item, Len(list[l])) ELSE list[l]
Unprinted == IF reader.pc \in {"output", "reset"} THEN Unwritten(reader.from) \o Unwritten(1 - reader.from)
           ELSE Unwritten(list_writing)
Leaving == reader.pc = "dead" \/ runs > 0
ItemsOf(s) == {s[n] : n \in 1 .. Len(s)}

(* Every message that is accepted is written once, and in the order in which
   they were accepted, however the swap of the lists falls between the writers;
   while the thread leaves, a message may overtake those in the lists, and still
   none is lost or written twice.  A message is only refused after one that says
   that the list overflows. *)
LogKept ==
  /\ IF Leaving THEN /\ ItemsOf(printed) \cup ItemsOf(Unprinted) = ItemsOf(logged)
                     /\ Len(printed) + Len(Unprinted) = Len(logged)
     ELSE printed \o Unprinted = logged
  /\ reader.pc = "dead" => Unprinted = <<>>
  /\ \A id \in lost : \E n \in 1 .. Len(logged) : logged[n].overflow /\ logged[n].id < id

(* What is accepted is written in the end. *)
LogDrains == \A id \in 1 .. MaxLogged :
  (\E m \in ItemsOf(logged) : m.id = id) ~> (\E m \in ItemsOf(printed) : m.id = id)
=============================================================================
