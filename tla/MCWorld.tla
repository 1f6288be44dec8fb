------------------------------ MODULE MCWorld ------------------------------
(***************************************************************************)
(* Worlds of four planets, two of which make water.                        *)
(***************************************************************************)
EXTENDS World

MCStation == {"P01", "P02", "P03", "P04"}
MCRoster == <<"P01", "P02", "P03", "P04">>
MCSpecialty == [s \in MCStation |-> CASE s = "P02" -> "FOOD"
                                      [] s = "P03" -> "COMPONENTS"
                                      [] OTHER -> "WATER"]
MCUpkeep == [s \in MCStation |-> [r \in Resource |-> 1]]
MCInventory == [s \in MCStation |-> Zero]

Players(a, b, c, d) == [s \in MCStation |-> CASE s = "P01" -> a [] s = "P02" -> b
                                             [] s = "P03" -> c [] s = "P04" -> d]

Setup(players, stock, schedule, offset, variation) ==
    [players |-> players, schedule |-> schedule, offset |-> offset,
     variation |-> variation, size |-> IF offset = 1 THEN 5 ELSE 3,
     stock |-> stock]

Same(n) == [s \in MCStation |-> n]
Stocks(a, b, c, d) == Players(a, b, c, d)

\* Copies of the policy in a world that makes just what it consumes, from rather
\* less stock than the 24 to 36 units the benchmark draws.
SelfPlay ==
    {Setup(Players("OURS", "OURS", "OURS", "OURS"), stock, "BALANCED", 0, v) :
        stock \in {Same(20), Stocks(20, 30, 25, 22), Stocks(26, 20, 20, 30)}, v \in {0, 1}}

\* The policy among the stand-ins: poor worlds in which planets fail, worlds as
\* the benchmark starts them, and rich ones with stock to give away.
Fields ==
    {Setup(players, Same(n), "RUN_TWO", offset, 0) :
        players \in {Players("OURS", "SMALL_FAIR", "GREEDY", "OURS"),
                     Players("QUITTER", "OURS", "GIFTER", "PASSIVE"),
                     Players("SMALL_FAIR", "OURS", "OURS", "GREEDY")},
        n \in {7, 20, 34, 112}, offset \in {0, 1}}

MCSetups == SelfPlay \cup Fields
=============================================================================
