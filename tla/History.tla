------------------------------ MODULE History ------------------------------
(***************************************************************************)
(* What the control plane's history promises across failovers              *)
(* (server/standby.go, eventlog/anchor.go): records are added at the end,  *)
(* a part of the history is witnessed outside the store, and whatever      *)
(* server takes over continues a history that begins with that part.       *)
(***************************************************************************)
EXTENDS Naturals, Sequences

CONSTANT Events

VARIABLES
    log,     \* the history the live, or the last live, server acts on
    safe     \* the part of it that is witnessed

\* All that is witnessed is there in the history h.
Kept(h) == Len(safe) <= Len(h) /\ safe = SubSeq(h, 1, Len(safe))

Init == log = <<>> /\ safe = <<>>

Record ==
    \E e \in Events :
        /\ log' = Append(log, e)
        /\ safe' \in {safe, log'}

\* More of the history is witnessed.
Witness ==
    /\ safe' \in {SubSeq(log, 1, n) : n \in 0 .. Len(log)}
    /\ Kept(safe')
    /\ UNCHANGED log

\* A server starts: what was witnessed is there.
TakeOver ==
    /\ log' \in Seq(Events)
    /\ Kept(log')
    /\ safe' \in {safe, log'}

Next == Record \/ Witness \/ TakeOver

Spec == Init /\ [][Next]_<<log, safe>>
=============================================================================
