----------------------------- MODULE MCRelPrep -----------------------------
(* Two browsers, with one project that both have and one of Tor Browser    *)
(* only, and a history with builds made again, a version of one browser    *)
(* only, and more versions than are wanted.                                *)
EXTENDS RelPrep

TwoBrowsers == {"tbb", "mb"}
TwoProjects == [b \in TwoBrowsers |-> IF b = "tbb" THEN {"browser", "tor"} ELSE {"browser"}]

OneHistory ==
    {<< <<"mb", 1, 1>>, <<"tbb", 1, 1>>, <<"tbb", 2, 1>>, <<"mb", 2, 1>>, <<"mb", 2, 2>>, <<"tbb", 3, 1>> >>}
=============================================================================
