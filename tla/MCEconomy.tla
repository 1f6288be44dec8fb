----------------------------- MODULE MCEconomy -----------------------------
(***************************************************************************)
(* Small worlds for model checking the rule engine.                        *)
(***************************************************************************)
EXTENDS Economy

Amount(w, f, c) == [r \in Resource |-> CASE r = "WATER" -> w
                                         [] r = "FOOD" -> f
                                         [] r = "COMPONENTS" -> c]

MCStation == {"P01", "P02"}
MCSpecialty == [s \in MCStation |-> IF s = "P01" THEN "WATER" ELSE "FOOD"]
MCUpkeep == [s \in MCStation |-> Amount(1, 1, 0)]
\* Each station can only lack what it makes itself: a tick without output can
\* make it fail and a later tick supply it fully again.
MCInitial == [s \in MCStation |->
                    IF s = "P01" THEN Amount(0, 2, 0) ELSE Amount(2, 0, 0)]
\* Two exchanges, a gift, and an offer that gives nothing.
MCOfferTerms == {<<Amount(1, 0, 0), Amount(0, 1, 0)>>,
                 <<Amount(0, 1, 0), Amount(1, 0, 0)>>,
                 <<Amount(1, 0, 0), Zero>>,
                 <<Zero, Amount(1, 0, 0)>>}
\* What an advertisement says steers nothing in the engine: one pair is enough.
MCAdTerms == {<<{"WATER"}, {"FOOD"}>>}
=============================================================================
