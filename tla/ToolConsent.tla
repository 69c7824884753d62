------------------------------ MODULE ToolConsent ------------------------------
(***************************************************************************)
(* What the workbench promises about the side effects of tool calls: an    *)
(* effect begins with the approval mode or with the user's answer to a     *)
(* question that is open and awaited; a question that was refused or       *)
(* withdrawn stays refused; while a run waits for an answer, no other      *)
(* effect of it begins; an effect ends once, a restart makes every effect  *)
(* under way uncertain and leaves nobody waiting; and nothing is heard     *)
(* again of the calls of a deleted session.                                *)
(*                                                                         *)
(* WorkbenchTask is shown to implement this specification.                 *)
(***************************************************************************)

CONSTANTS
    Runs,    \* runs of the tasks
    Calls    \* tool calls a run may make

VARIABLES
    stage,     \* how far each call of each run has come
    awaited    \* the calls whose turn waits for the answer

consentVars == <<stage, awaited>>

AllCalls == Runs \X Calls

Asked == {a \in AllCalls : stage[a] = "asked"}

RunWaits(r) == \E a \in awaited : a[1] = r

At(a, s) == stage' = [stage EXCEPT ![a] = s]

----------------------------------------------------------------------------

ConsentInit ==
    /\ stage = [a \in AllCalls |-> "unasked"]
    /\ awaited = {}

\* A new call of a run that does not wait: let through, or put to the user.
Let(a) ==
    /\ stage[a] = "unasked" /\ ~ RunWaits(a[1])
    /\ At(a, "executing")
    /\ UNCHANGED awaited

Ask(a) ==
    /\ stage[a] = "unasked" /\ ~ RunWaits(a[1])
    /\ At(a, "asked")
    /\ awaited' = awaited \cup {a}

\* The user's consent.
Grant(a) ==
    /\ stage[a] = "asked" /\ a \in awaited
    /\ At(a, "executing")
    /\ awaited' = awaited \ {a}

\* Open questions are denied or expire together; their turns are told, or not.
Refuse(K) ==
    /\ K \subseteq Asked
    /\ stage' = [a \in AllCalls |-> IF a \in K THEN "refused" ELSE stage[a]]
    /\ awaited' = awaited \ K \/ UNCHANGED awaited

Report(a, result) ==
    /\ stage[a] = "executing"
    /\ At(a, result)
    /\ UNCHANGED awaited

\* The runs of a session are deleted, and its open questions refused.
Forget(R) ==
    /\ stage' = [a \in AllCalls |-> IF a[1] \in R THEN "gone" ELSE stage[a]]
    /\ awaited' = awaited \ {a \in Asked : a[1] \in R}

\* The process dies: nobody knows how the effects under way ended.
Recover ==
    /\ stage' = [a \in AllCalls |-> IF stage[a] = "executing" THEN "needs_review" ELSE stage[a]]
    /\ awaited' = {}

ConsentNext ==
    \/ \E a \in AllCalls :
         \/ Let(a) \/ Ask(a) \/ Grant(a)
         \/ \E result \in {"succeeded", "failed"} : Report(a, result)
    \/ \E K \in SUBSET Asked : Refuse(K)
    \/ \E R \in SUBSET Runs : Forget(R)
    \/ Recover

ConsentSpec == ConsentInit /\ [][ConsentNext]_consentVars

=============================================================================
