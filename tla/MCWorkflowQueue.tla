-------------------------- MODULE MCWorkflowQueue --------------------------
EXTENDS WorkflowQueue, TLC
CONSTANTS m, w
\* The manager assigns to the worker and to itself and edits the worker's tasks.
ManagerAcl == {<<m, w>>}
Holdable == {{}, {w}}
NeverHeld == {{}}
Symm == Permutations(Task) \cup Permutations(Key) \cup Permutations(Uuid) \cup Permutations(Data)
ManagerOf == {<<m, w>>}
============================================================================
