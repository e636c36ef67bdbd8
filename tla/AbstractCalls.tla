---------------------------- MODULE AbstractCalls ----------------------------
(***************************************************************************)
(* What calls between separately loaded modules promise to the code they   *)
(* connect, with nothing of how it is done: there is one stack of          *)
(* suspended callers, a module always runs with its own offset table in    *)
(* r9, the runtime system (Host) runs with whatever r9 its caller left,    *)
(* and a return gives back to the suspended caller both the control and    *)
(* the r9 it had when it made the call.  Where that cannot be done control *)
(* is lost for good, and never passes unnoticed to the wrong caller; calls *)
(* that are Reliable do not lose it.                                       *)
(***************************************************************************)
EXTENDS Naturals, SequencesExt

CONSTANTS Modules,   \* the module instances
          Host,      \* the runtime system, and the r9 it starts with
          Reliable   \* whether control is never lost

VARIABLES code,      \* who runs
          r9,        \* whose offset table r9 addresses
          stack,     \* the suspended callers, each with the r9 it had
          control    \* "running" or "lost"

vars == <<code, r9, stack, control>>

Init == code = Host /\ r9 = Host /\ stack = <<>> /\ control = "running"

Suspend ==
  /\ control = "running"
  /\ stack' = Append(stack, [code |-> code, r9 |-> r9])
  /\ UNCHANGED control

\* A module is entered on its own table.
Enter(m) == Suspend /\ code' = m /\ r9' = m

\* A function of the runtime system is called directly: r9 stays.
EnterHost == Suspend /\ code' = Host /\ UNCHANGED r9

Return ==
  /\ control = "running" /\ stack # <<>>
  /\ code' = Last(stack).code
  /\ r9' = Last(stack).r9
  /\ stack' = Front(stack)
  /\ UNCHANGED control

\* The stack is left as it is; r9 may be anything.
Lose ==
  /\ ~Reliable
  /\ control = "running" /\ control' = "lost"
  /\ UNCHANGED <<code, stack>>

Next == (\E m \in Modules : Enter(m)) \/ EnterHost \/ Return \/ Lose

Spec == Init /\ [][Next]_vars
=============================================================================
