---------------------------- MODULE TaskContract ----------------------------
(***************************************************************************)
(* What the task scheduler promises to those who hold its handles, with no *)
(* queue, slot, timer or retry in sight: a call of enqueue either joins    *)
(* the pending promise of its key or opens a new one, and a pending        *)
(* promise is decided once.  Promises are resolved one at a time; a cancel *)
(* or a sweep may reject several together.                                 *)
(***************************************************************************)
CONSTANTS Tasks, TaskKeys

VARIABLES
  promise,  \* [Tasks -> "absent" | "pending" | "resolved" | "rejected"]
  keyOf     \* the key a task was opened for

Pending == {t \in Tasks : promise[t] = "pending"}

Init ==
  /\ promise = [t \in Tasks |-> "absent"]
  /\ keyOf \in [Tasks -> TaskKeys]

Open(t, k) ==
  /\ promise[t] = "absent"
  /\ \A u \in Pending : keyOf[u] # k
  /\ promise' = [promise EXCEPT ![t] = "pending"]
  /\ keyOf' = [keyOf EXCEPT ![t] = k]

Resolve(t) ==
  /\ t \in Pending
  /\ promise' = [promise EXCEPT ![t] = "resolved"]
  /\ UNCHANGED keyOf

Reject(S) ==
  /\ S # {} /\ S \subseteq Pending
  /\ promise' = [t \in Tasks |-> IF t \in S THEN "rejected" ELSE promise[t]]
  /\ UNCHANGED keyOf

Next == \/ \E t \in Tasks : Resolve(t) \/ \E k \in TaskKeys : Open(t, k)
        \/ \E S \in SUBSET Tasks : Reject(S)

Spec == Init /\ [][Next]_<<promise, keyOf>>
=============================================================================
