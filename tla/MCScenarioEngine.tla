-------------------------- MODULE MCScenarioEngine --------------------------
(* Model-checking instances of ScenarioEngine.                             *)
EXTENDS ScenarioEngine, TLC

CONSTANTS l1, l2

Do(links) == [links |-> links, on |-> TRUE]
Undo(links) == [links |-> links, on |-> FALSE]
Other == Do(<<>>)

\* One scenario cuts two links and heals one; the other has a step before.
TwoLinks == {<<Do(<<l1, l2>>), Undo(<<l1>>)>>, <<Other, Do(<<l1>>)>>}
\* The smallest scenario with a pause and a partition.
OneLink == {<<Other, Do(<<l1>>)>>}
==============================================================================
