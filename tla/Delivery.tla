------------------------------ MODULE Delivery ------------------------------
(***************************************************************************)
(* What a node's work queue promises its producers (node/queue.go): a      *)
(* durable list of tasks in the order they were accepted, each with the    *)
(* number of times it was handed out.  A task leaves only after it was     *)
(* handed out, is handed out at most MaxAttempts times, and no task ever   *)
(* overtakes another.  One write of the list may carry several changes.    *)
(***************************************************************************)
EXTENDS Naturals, Sequences

CONSTANTS Tasks, MaxAttempts

VARIABLE list    \* the tasks that would be found after a restart

Entries == [id : Tasks, attempts : 0 .. MaxAttempts]

\* No task is in the list twice.
Unique(l) == \A i, j \in DOMAIN l : l[i].id = l[j].id => i = j

Stays(e, m) == \E j \in DOMAIN m : m[j].id = e.id

Init == list = <<>>

\* The list m that replaces l forgets no attempt, drops no task that nobody was
\* given, and keeps the tasks that stay in their order, before the new ones.
Follows(l, m) ==
    /\ \A i \in DOMAIN l : l[i].attempts > 0 \/ Stays(l[i], m)
    /\ \A i \in DOMAIN l, j \in DOMAIN m :
          l[i].id = m[j].id =>
              /\ l[i].attempts <= m[j].attempts
              /\ \A k \in DOMAIN l, n \in DOMAIN m :
                    l[k].id = m[n].id /\ i < k => j < n
              /\ \A n \in DOMAIN m : ~Stays(m[n], l) => j < n

Next == list' \in Seq(Entries) /\ Unique(list') /\ Follows(list, list')

Spec == Init /\ [][Next]_list
=============================================================================
