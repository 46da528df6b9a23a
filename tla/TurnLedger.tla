------------------------------ MODULE TurnLedger ------------------------------
(***************************************************************************)
(* What the chat runtime promises about one durable turn, with no mention  *)
(* of tasks, sessions, flags or server processes: a turn is opened once,   *)
(* closed for good, answered at most once, and each invocation of its      *)
(* provider is paid for by the first launch or by a counted retry, and     *)
(* never made once the answer is saved.                                    *)
(***************************************************************************)
EXTENDS Naturals

CONSTANTS Turns,    \* turns that may be opened
          Retries   \* retries a turn is allowed

VARIABLES phase,    \* "absent", "open" or "closed"
          retries,  \* retries counted
          invoked,  \* provider invocations
          answers   \* answers saved

ledger == <<phase, retries, invoked, answers>>

Init == /\ phase = [t \in Turns |-> "absent"]
        /\ retries = [t \in Turns |-> 0]
        /\ invoked = [t \in Turns |-> 0]
        /\ answers = [t \in Turns |-> 0]

Open(t) == /\ phase[t] = "absent"
           /\ phase' = [phase EXCEPT ![t] = "open"]
           /\ UNCHANGED <<retries, invoked, answers>>

Retry(t) == /\ phase[t] = "open"
            /\ retries[t] < Retries
            /\ retries' = [retries EXCEPT ![t] = @ + 1]
            /\ UNCHANGED <<phase, invoked, answers>>

\* A superseded or aborted turn may still be on its way to its provider.
Invoke(t) == /\ phase[t] # "absent"
             /\ answers[t] = 0
             /\ invoked[t] <= retries[t]
             /\ invoked' = [invoked EXCEPT ![t] = @ + 1]
             /\ UNCHANGED <<phase, retries, answers>>

Answer(t) == /\ phase[t] # "absent"
             /\ answers[t] = 0
             /\ answers' = [answers EXCEPT ![t] = 1]
             /\ UNCHANGED <<phase, retries, invoked>>

Close(t) == /\ phase[t] = "open"
            /\ phase' = [phase EXCEPT ![t] = "closed"]
            /\ UNCHANGED <<retries, invoked, answers>>

Next == \E t \in Turns : \/ Open(t)   \/ Retry(t) \/ Invoke(t)
                         \/ Answer(t) \/ Close(t)

Spec == Init /\ [][Next]_ledger
=============================================================================
