------------------------------- MODULE Market -------------------------------
(***************************************************************************)
(* What the rule engine promises its players, whatever its bookkeeping: a  *)
(* market of deals between parties that own goods.  A deal is put on the   *)
(* table once, and is then either taken off or settled; it is settled      *)
(* once, between two parties that can pay, and both bundles change hands   *)
(* in that one step.  Within a day nothing else moves goods.  A new day    *)
(* brings a party at most one output of its own product, and takes at most *)
(* what it needs for the day.                                              *)
(***************************************************************************)
EXTENDS Bundles

CONSTANTS Party,
          Product,  \* the resource each party makes
          Output,   \* the quantities a party may make in a day
          Need      \* the bundle each party uses up in a day

VARIABLES day,
          owns,     \* what each party owns
          table,    \* the deals that can still be settled
          done      \* the deals that were settled

Ids(deals) == {d.id : d \in deals}

Init ==
    /\ day = 0
    /\ owns \in [Party -> Bundle]
    /\ table = {}
    /\ done = {}

Propose ==
    /\ \E d \in table' \ table :
          /\ table' = table \cup {d}
          /\ d.id \notin Ids(table) \cup Ids(done)
          /\ d.proposer \in Party /\ d.recipient \in Party \ {d.proposer}
    /\ UNCHANGED <<day, owns, done>>

TakeOff ==
    /\ table' \subseteq table
    /\ UNCHANGED <<day, owns, done>>

Exchange(d) ==
    [owns EXCEPT
       ![d.proposer] = Add(Sub(@, d.give), d.receive),
       ![d.recipient] = Add(Sub(@, d.receive), d.give)]

Settle ==
    \E d \in table :
        /\ Dominates(owns[d.proposer], d.give)
        /\ Dominates(owns[d.recipient], d.receive)
        /\ owns' = Exchange(d)
        /\ table' = table \ {d}
        /\ done' = done \cup {d}
        /\ UNCHANGED day

NewDay ==
    /\ day' = day + 1
    /\ owns' \in [Party -> Bundle]
    /\ \A p \in Party :
          /\ \A r \in Resource : owns[p][r] <= owns'[p][r] + Need[p][r]
          /\ \A r \in Resource \ {Product[p]} : owns'[p][r] <= owns[p][r]
          /\ \E made \in Output :
                owns'[p][Product[p]] <= owns[p][Product[p]] + made
    /\ table' \subseteq table
    /\ UNCHANGED done

Next == Propose \/ TakeOff \/ Settle \/ NewDay

Spec == Init /\ [][Next]_<<day, owns, table, done>>
=============================================================================
