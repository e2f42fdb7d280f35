------------------------------- MODULE MCLoad -------------------------------
(***************************************************************************)
(* Lists of files over three events.  The array of events has room for one *)
(* at first, so it grows while items are on its lists; one list repeats a  *)
(* number in another file, one names a file twice, one declares an event   *)
(* twice and uses one that is not defined.  Two files import a library.    *)
(* Five cells are on two lines of the hashes of names.                     *)
(***************************************************************************)
EXTENDS Load

Sig(i, a) == [id |-> i, alternatives |-> a]

FileA == [name |-> "a.ey", imports |-> <<"l">>, events |-> <<"e1", "e2">>,
          signatures |-> <<Sig(1, <<<<"e1", "e2", "e1">>, <<"e1">>>>), Sig(2, <<<<"e2">>>>)>>]
FileB == [name |-> "b.ey", imports |-> <<"l", "k">>, events |-> <<"e2", "e3">>,
          signatures |-> <<Sig(3, <<<<"e3", "e1">>, <<"e2">>>>)>>]
FileC == [name |-> "c.ey", imports |-> <<>>, events |-> <<>>,
          signatures |-> <<Sig(4, <<<<"e1">>>>), Sig(1, <<<<"e2">>>>)>>]
FileD == [name |-> "d.ey", imports |-> <<>>, events |-> <<"e3", "e1", "e3">>,
          signatures |-> <<Sig(5, <<<<"e1", "e4">>>>)>>]

MCNames == {"a.ey", "b.ey", "c.ey", "d.ey", "k", "l", "e1", "e2", "e3", "e4"}
MCInputs == {<<FileA, FileB>>, <<FileB, FileA>>, <<FileA, FileC>>,
             <<FileA, FileA>>, <<FileA, FileD>>}
MCLineOf == <<0, 0, 1, 1, 1>>
=============================================================================
