---------------------------- MODULE Singletons ----------------------------
(***************************************************************************)
(* Singletons with a finalizer, src/include/cat/lang/RefSingleton.hpp and   *)
(* src/src/lang/RefSingleton.cpp.  The first use of a singleton initializes *)
(* it, and in OnInitialize() it says which others it uses, which initializes *)
(* those first; at exit all are finalized in the order of the priorities    *)
(* that came of that.  The lock that is held meanwhile may be taken again   *)
(* by the thread that has it, so that an initialization is one thread's.    *)
(***************************************************************************)
EXTENDS Integers, Sequences, FiniteSets

CONSTANTS Singles,        \* singletons 1 .. n: one uses only lower ones
          LastPriority    \* 9001

ASSUME SingletonsAssumption ==
  Singles \subseteq Nat /\ IsFiniteSet(Singles) /\ LastPriority \in Nat

VARIABLES uses,           \* what OnInitialize() uses
          wish,           \* "first", "last" or "none": FinalizeFirst, FinalizeLast
          final_priority, init_success, init,
          stack,          \* the singletons being initialized, and what each has left to use
          active_list, final
singletonVars == <<uses, wish, final_priority, init_success, init, stack, active_list, final>>

SingletonInit ==
  /\ uses \in {u \in [Singles -> SUBSET Singles] : \A s \in Singles : \A t \in u[s] : t < s}
  /\ wish \in [Singles -> {"none", "first", "last"}]
  /\ final_priority = [s \in Singles |-> -1]
  /\ init_success = [s \in Singles |-> FALSE] /\ init = [s \in Singles |-> FALSE]
  /\ stack = <<>> /\ active_list = <<>> /\ final = "no"

-----------------------------------------------------------------------------
(* GetRef: the singleton asks to be finalized first or last, if it does. *)
Wished(s) == CASE wish[s] = "first" -> 0 [] wish[s] = "last" -> LastPriority [] OTHER -> -1
Begin(s) ==
  /\ stack' = <<[of |-> s, left |-> uses[s]]>> \o stack
  /\ final_priority' = [final_priority EXCEPT ![s] = Wished(s)]
  /\ init_success' = [init_success EXCEPT ![s] = TRUE]
  /\ UNCHANGED <<uses, wish, init, active_list, final>>
GetRef(s) == stack = <<>> /\ final = "no" /\ ~init[s] /\ Begin(s)

(* Use: another singleton is initialized, and its priority and its failure are
   passed on.  Mutant: its failure is not. *)
UseFirst == stack # <<>> /\ \E t \in Head(stack).left : ~init[t] /\ Begin(t)
PassedNot(s, t) == init_success[s]
Passed(s, t) == init_success[s] /\ init_success[t]
(* Mutant: priorities are not passed on. *)
RaisedNot(s, t) == final_priority[s]
Raised(s, t) == IF final_priority[s] <= final_priority[t] THEN final_priority[t] + 1
                ELSE final_priority[s]
UpdatePriority ==
  /\ stack # <<>>
  /\ LET s == Head(stack).of IN \E t \in Head(stack).left :
       /\ init[t]
       /\ final_priority' = [final_priority EXCEPT ![s] = Raised(s, t)]
       /\ init_success' = [init_success EXCEPT ![s] = Passed(s, t)]
       /\ stack' = [stack EXCEPT ![1].left = @ \ {t}]
  /\ UNCHANGED <<uses, wish, init, active_list, final>>

(* The end of GetRef: OnInitialize() returns, and the singleton is watched. *)
Initialized(ok) ==
  /\ stack # <<>> /\ Head(stack).left = {}
  /\ LET s == Head(stack).of IN
     /\ init_success' = [init_success EXCEPT ![s] = @ /\ ok]
     /\ final_priority' = [final_priority EXCEPT ![s] = IF @ < 0 THEN 1 ELSE @]
     /\ init' = [init EXCEPT ![s] = TRUE]
     /\ active_list' = <<s>> \o active_list
  /\ stack' = Tail(stack)
  /\ UNCHANGED <<uses, wish, final>>

-----------------------------------------------------------------------------
(* OnFinalize: the bins in order, each from the first watched on, then the
   others by priority (MergeSort).  The one to be finalized n-th: *)
Position(s) == CHOOSE n \in 1 .. Len(active_list) : active_list[n] = s
Before(s, t) == \/ final_priority[s] < final_priority[t]
                \/ final_priority[s] = final_priority[t] /\ Position(s) > Position(t)
Watched == {active_list[n] : n \in 1 .. Len(active_list)}
FinalOrder == [n \in 1 .. Len(active_list) |->
                 CHOOSE s \in Watched : Cardinality({t \in Watched : Before(t, s)}) = n - 1]
OnFinalize == /\ stack = <<>> /\ final = "no"
              /\ active_list' = FinalOrder /\ final' = "yes"
              /\ UNCHANGED <<uses, wish, final_priority, init_success, init, stack>>

SingletonNext == \/ \E s \in Singles : GetRef(s)
                 \/ UseFirst \/ UpdatePriority \/ \E ok \in BOOLEAN : Initialized(ok)
                 \/ OnFinalize
SingletonSpec == SingletonInit /\ [][SingletonNext]_singletonVars

-----------------------------------------------------------------------------
(* s uses t, itself or through others: what it stands on was initialized. *)
Reaches(s, t) == t \in uses[s] \/ \E u \in uses[s] : t \in uses[u]
Finalized(s) == CHOOSE n \in 1 .. Len(active_list) : active_list[n] = s

(* A singleton is only said to be initialized when all that it uses is, however
   the initializations nest; all that were initialized are finalized, each once,
   and what is used goes before its user, whatever was initialized first. *)
SingletonsRight ==
  /\ \A s, t \in Singles : init[s] /\ init_success[s] /\ Reaches(s, t) => init[t] /\ init_success[t]
  /\ Watched = {s \in Singles : init[s]} /\ Len(active_list) = Cardinality(Watched)
  /\ final = "yes" => \A s, t \in Watched : Reaches(s, t) => Finalized(t) < Finalized(s)

(* "Add a reference to Clock RefSingleton so order of finalization is correct"
   (RefSingleton.hpp): a singleton is finalized before what it uses. *)
UsersFinalizedFirst ==
  final = "yes" => \A s, t \in Watched : Reaches(s, t) => Finalized(s) < Finalized(t)
=============================================================================
