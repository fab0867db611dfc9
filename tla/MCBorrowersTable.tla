-------------------------- MODULE MCBorrowersTable --------------------------
(***************************************************************************)
(* Two names that share a substring in different cases and one that does   *)
(* not contain it, and three texts: the list is filtered to all, some and  *)
(* none of its borrowers.                                                  *)
(***************************************************************************)
EXTENDS BorrowersTable

MCName == {"Ann", "JOANNE", "Bob"}
MCText == {"", "an", "B"}
MCLowercased == [s \in MCName \cup MCText |->
                   CASE s = "Ann" -> "ann" [] s = "JOANNE" -> "joanne"
                     [] s = "Bob" -> "bob" [] s = "B" -> "b" [] OTHER -> s]
MCWithin == {<<"an", "ann">>, <<"an", "joanne">>, <<"b", "bob">>}
=============================================================================
