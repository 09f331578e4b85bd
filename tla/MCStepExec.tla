----------------------------- MODULE MCStepExec -----------------------------
(* Model-checking instance of StepExec.                                    *)
EXTENDS StepExec

CONSTANTS n1, n2

Check(check, should, n, since) ==
  [check |-> check, should |-> should, n |-> n, since |-> since, base |-> n1,
   nodes |-> IF check = "same_tip" THEN <<n1, n2>> ELSE <<n2>>]

\* Does n2 follow n1?  Is it quiet afterwards?
Mined == [action |-> "mine", on |-> Check("expr", FALSE, 0, "step"),
          assert |-> <<Check("height", FALSE, 0, "step"), Check("no_event", FALSE, 1, "step")>>]
Agreed == [action |-> "mark", on |-> Check("expr", FALSE, 0, "step"),
           assert |-> <<Check("same_tip", TRUE, 0, "step"), Check("event", FALSE, 1, "mark")>>]
Waited == [action |-> "wait_for", on |-> Check("event", FALSE, 2, "step"),
           assert |-> <<Check("expr", TRUE, 1, "step"), Check("event", FALSE, 1, "zero")>>]
Called == [action |-> "call", on |-> Check("expr", FALSE, 0, "step"),
           assert |-> <<Check("same_tip", FALSE, 0, "step")>>]

AllSteps == {Mined, Agreed, Waited, Called}
==============================================================================
