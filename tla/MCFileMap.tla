------------------------------ MODULE MCFileMap -------------------------------
(* A mod with two data folders, two archives of one number and a required   *)
(* mod with a data folder that is an output as well; and an archive opened  *)
(* as a mod, with two extractions.                                          *)
EXTENDS FileMap, TLC

CONSTANTS f1, f2

MCFiles == {f1, f2}
MCHome == (f1 :> "top") @@ (f2 :> "sub")

Src(id, mod, sga, num, output) ==
  [id |-> id, mod |-> mod, sga |-> sga, num |-> num, output |-> output, pure |-> FALSE]

MCPlans == {
  << [folders |-> << Src("data", 0, FALSE, 15001, TRUE), Src("whm", 0, FALSE, 15002, FALSE) >>,
      archives |-> << Src("sga1", 0, TRUE, 15000, FALSE), Src("sga2", 0, TRUE, 15000, FALSE) >>],
     [folders |-> << Src("req", 15001, FALSE, 15001, TRUE) >>, archives |-> <<>>] >>,
  << [folders |-> <<>>, archives |-> << Src("mod", 0, TRUE, 0, FALSE) >>] >> }

Out(id) == [id |-> id, mod |-> 0, sga |-> FALSE, num |-> 0, output |-> TRUE, pure |-> TRUE]
MCFaux == << Out("out1"), Out("out2") >>
=============================================================================
