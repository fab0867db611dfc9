----------------------------- MODULE MCDatabase -----------------------------
(* The database with a few writes, crashes and I/O errors. *)
EXTENDS DBImpl

Plan(w, s, f, r) == [writes |-> w, stops |-> s, faults |-> f, readers |-> r]

\* More writes or more that goes wrong.
MCPlans == {Plan(3, 1, 1, 0), Plan(3, 0, 0, 1), Plan(2, 2, 1, 0), Plan(2, 1, 0, 1)}

\* Two logs are left by a crash and the first cannot be recovered.
RecoverPlans == {Plan(2, 1, 1, 0)}
=============================================================================
