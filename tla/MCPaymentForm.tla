---------------------------- MODULE MCPaymentForm ----------------------------
(***************************************************************************)
(* Two days, two amounts and three payments, with borrowers opened in the  *)
(* early morning and late in the evening, west of UTC.                     *)
(***************************************************************************)
EXTENDS PaymentForm

\* Time zones west of Greenwich have negative offsets.
West == -300
=============================================================================
