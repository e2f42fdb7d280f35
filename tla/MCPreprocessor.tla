--------------------------- MODULE MCPreprocessor ---------------------------
(***************************************************************************)
(* The data base of MCDetect with patterns over two letters: patterns that *)
(* begin alike, that overlap themselves, that fall back over two states,   *)
(* and that contain, end in or equal one another.                          *)
(***************************************************************************)
EXTENDS MCDetect, Preprocessor

MCPatternTables ==
  {(2 :> x[1]) @@ (5 :> x[2]) @@ (7 :> x[3]) :
     x \in {<< <<1, 2, 1>>, <<2, 1>>, <<1>> >>,
            << <<1, 1, 2>>, <<1, 2>>, <<1, 2>> >>,
            << <<1, 1, 1>>, <<1, 1, 2>>, <<2, 2>> >>,
            << <<>>, <<1, 2, 1>>, <<2>> >>}}

MCTexts == {<<1>>, <<2>>, <<2, 1, 1>>}
=============================================================================
