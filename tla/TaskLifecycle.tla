--------------------------- MODULE TaskLifecycle ---------------------------
(***************************************************************************)
(* What the task queue promises about each task, without queue, threads,   *)
(* stop or poison pills: a submitted task is run, at most MaxRetries times *)
(* (once when MaxRetries is 0), until it succeeds; a task that has used    *)
(* its attempts is dead and is listed as a dead letter once.               *)
(***************************************************************************)
EXTENDS Integers

CONSTANTS Tasks, MaxRetries

VARIABLES state, attempts, deadLetters

vars == <<state, attempts, deadLetters>>

Init ==
    /\ state = [t \in Tasks |-> "NEW"]
    /\ attempts = [t \in Tasks |-> 0]
    /\ deadLetters = {}

Move(t, from, to) == state[t] = from /\ state' = [state EXCEPT ![t] = to]

Submit(t) == /\ Move(t, "NEW", "PENDING")
             /\ UNCHANGED <<attempts, deadLetters>>

Attempt(t) == /\ Move(t, "PENDING", "RUNNING")
              /\ attempts' = [attempts EXCEPT ![t] = @ + 1]
              /\ UNCHANGED deadLetters

Succeed(t) == /\ Move(t, "RUNNING", "SUCCESS")
              /\ UNCHANGED <<attempts, deadLetters>>

Retry(t) == /\ attempts[t] < MaxRetries
            /\ Move(t, "RUNNING", "PENDING")
            /\ UNCHANGED <<attempts, deadLetters>>

Die(t) == /\ attempts[t] >= MaxRetries
          /\ Move(t, "RUNNING", "DEAD")
          /\ UNCHANGED <<attempts, deadLetters>>

ListDead(t) == /\ state[t] = "DEAD" /\ t \notin deadLetters
               /\ deadLetters' = deadLetters \cup {t}
               /\ UNCHANGED <<state, attempts>>

Next == \E t \in Tasks : \/ Submit(t) \/ Attempt(t) \/ Succeed(t)
                         \/ Retry(t) \/ Die(t) \/ ListDead(t)

Spec == Init /\ [][Next]_vars

=============================================================================
