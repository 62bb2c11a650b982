------------------------------ MODULE CaseLedger ------------------------------
(***************************************************************************)
(* What a batch analysis promises its caller: a case is open until it is   *)
(* answered, and an answer once given stays.  How cases are grouped,       *)
(* retried or given up is not said here.  The rule cache makes the same    *)
(* promise of its items, as long as its updates do not overlap.            *)
(***************************************************************************)
CONSTANTS Cases,      \* the case ids of a batch
          Answers,    \* what a case may be answered with
          Unanswered  \* no answer yet

VARIABLE ledger

Init == ledger = [c \in Cases |-> Unanswered]

\* Some open cases are answered, the others are left alone.
Answer ==
  /\ ledger' \in [Cases -> Answers \cup {Unanswered}]
  /\ \A c \in Cases : ledger[c] # Unanswered => ledger'[c] = ledger[c]

Spec == Init /\ [][Answer]_ledger
=============================================================================
