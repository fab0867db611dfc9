---------------------------- MODULE PaymentForm ----------------------------
(***************************************************************************)
(* BorrowerViewController: the amount, the date picker and Add Payment.    *)
(*                                                                         *)
(* dateDisplayed is nil until the picker reports a change, and is then the *)
(* description of a Date, which is in UTC, while the picker shows the day  *)
(* in the user's time zone. Days are counted from a fixed day, times are   *)
(* in minutes. Each borrower that is opened gets a new controller, whose   *)
(* picker starts at the present moment; in mode .date it keeps the time of *)
(* day when the user turns it to another day.                              *)
(***************************************************************************)
EXTENDS Integers, Sequences

CONSTANTS
  Amount,       \* texts of paymentTextfield other than ""
  Day,          \* days the picker can show
  TimeOfDay,    \* local times of day at which borrowers are opened
  Offset,       \* the time zone's offset from UTC
  NoDate,       \* dateDisplayed = nil
  MaxTaps       \* bound on the payments added

ASSUME DayAssumption == Day \subseteq Int /\ NoDate \notin Int
ASSUME TimeAssumption ==
  TimeOfDay \subseteq 0..1439 /\ Offset \in (-720)..840 /\ MaxTaps \in Nat
ASSUME AmountAssumption == "" \notin Amount

VARIABLES
  screen,          \* "BorrowersTVC", "BorrowerVC" or "PaymentsTVC"
  paymentTextfield,
  pickerDay,       \* the day datePicker shows
  pickerTime,      \* the time of day of its date, which it does not show
  dateDisplayed,   \* the UTC day of dateDisplayed, or NoDate
  sent,            \* payments given to setValue: amount, date and tap
  taps             \* history: taps of Add Payment with an amount, with the
                   \* amount, the day on screen and the picker's time

formVars ==
  <<screen, paymentTextfield, pickerDay, pickerTime, dateDisplayed, sent, taps>>

-----------------------------------------------------------------------------
\* Mutant: the offset has the wrong sign.
UTCDayWrongSign(d, m) == (d * 1440 + m + Offset) \div 1440

\* "\(date)" for the local day d and time m: its day in UTC.
UTCDay(d, m) == (d * 1440 + m - Offset) \div 1440

FormInit ==
  /\ screen = "BorrowersTVC"
  /\ paymentTextfield = ""
  /\ pickerDay \in Day
  /\ pickerTime \in TimeOfDay
  /\ dateDisplayed = NoDate
  /\ sent = <<>>
  /\ taps = <<>>

\* Mutant: the controller is sharedInstance, so dateDisplayed is left over.
OpenBorrowerShared(d, m) ==
  /\ screen = "BorrowersTVC"
  /\ screen' = "BorrowerVC"
  /\ paymentTextfield' = ""
  /\ pickerDay' = d
  /\ pickerTime' = m
  /\ UNCHANGED <<dateDisplayed, sent, taps>>

\* The segue to a new BorrowerVC on day d at time m, and its viewDidLoad.
OpenBorrower(d, m) ==
  /\ screen = "BorrowersTVC"
  /\ screen' = "BorrowerVC"
  /\ paymentTextfield' = ""
  /\ pickerDay' = d
  /\ pickerTime' = m
  /\ dateDisplayed' = NoDate
  /\ UNCHANGED <<sent, taps>>

EditAmount(a) ==
  /\ screen = "BorrowerVC"
  /\ paymentTextfield' = a
  /\ UNCHANGED <<screen, pickerDay, pickerTime, dateDisplayed, sent, taps>>

\* pickedDateOfPayment, sent by the picker when the user has turned it.
PickedDateOfPayment(d) ==
  /\ screen = "BorrowerVC"
  /\ pickerDay' = d
  /\ dateDisplayed' = UTCDay(d, pickerTime)
  /\ UNCHANGED <<screen, paymentTextfield, pickerTime, sent, taps>>

ThisPayment == [amount |-> paymentTextfield, date |-> dateDisplayed,
                tap |-> Len(taps) + 1]

\* sendPaymentsToDatabase: setValue, only if a date was picked.
SendPaymentsToDatabase ==
  sent' = IF dateDisplayed = NoDate THEN sent ELSE Append(sent, ThisPayment)

\* Send and show the payments.
AddPayment ==
  /\ screen = "BorrowerVC"
  /\ Len(taps) < MaxTaps
  /\ SendPaymentsToDatabase
  /\ taps' = Append(taps, [amount |-> paymentTextfield, day |-> pickerDay,
                           time |-> pickerTime])
  /\ screen' = "PaymentsTVC"
  /\ UNCHANGED <<paymentTextfield, pickerDay, pickerTime, dateDisplayed>>

\* addPaymentButtonTapped: return if the amount is empty; send; then show the
\* payments whether or not anything was sent. The amount stays in its field.
AddPaymentButtonTapped == paymentTextfield # "" /\ AddPayment

PaymentsFolderButtonTapped ==
  /\ screen = "BorrowerVC"
  /\ screen' = "PaymentsTVC"
  /\ UNCHANGED <<paymentTextfield, pickerDay, pickerTime, dateDisplayed, sent, taps>>

BackFromForm ==
  /\ screen # "BorrowersTVC"
  /\ screen' = CASE screen = "PaymentsTVC" -> "BorrowerVC"
                 [] OTHER -> "BorrowersTVC"
  /\ UNCHANGED <<paymentTextfield, pickerDay, pickerTime, dateDisplayed, sent, taps>>

FormNext ==
  \/ \E d \in Day, m \in TimeOfDay : OpenBorrower(d, m)
  \/ \E a \in Amount \cup {""} : EditAmount(a)
  \/ \E d \in Day : PickedDateOfPayment(d)
  \/ AddPaymentButtonTapped
  \/ PaymentsFolderButtonTapped
  \/ BackFromForm

FormSpec == FormInit /\ [][FormNext]_formVars

-----------------------------------------------------------------------------
(* Properties                                                              *)

Payment == [amount : Amount, date : Int, tap : 1..MaxTaps]
Tap == [amount : Amount, day : Day, time : TimeOfDay]

\* Type invariant of the form.
FormTypeOK ==
  /\ screen \in {"BorrowersTVC", "BorrowerVC", "PaymentsTVC"}
  /\ paymentTextfield \in Amount \cup {""}
  /\ pickerDay \in Day
  /\ pickerTime \in TimeOfDay
  /\ dateDisplayed \in Int \cup {NoDate}
  /\ sent \in Seq(Payment)
  /\ taps \in Seq(Tap)
  /\ Len(taps) <= MaxTaps

\* A date that was picked is never stale: it belongs to the day on screen,
\* also after another borrower was opened.
DateFollowsPicker ==
  dateDisplayed # NoDate => dateDisplayed = UTCDay(pickerDay, pickerTime)

\* Every payment in the database comes from a tap of its own, with the amount
\* of that tap and the UTC day of the day that was on screen: taps, payments
\* and borrowers do not get mixed up.
OnePaymentPerTap ==
  /\ \A i, j \in 1..Len(sent) : i < j => sent[i].tap < sent[j].tap
  /\ \A i \in 1..Len(sent) :
       /\ sent[i].tap <= Len(taps)
       /\ sent[i].amount = taps[sent[i].tap].amount
       /\ sent[i].date = UTCDay(taps[sent[i].tap].day, taps[sent[i].tap].time)

\* What holds of the form and of the payments it sends, in every time zone.
FormInvariant == FormTypeOK /\ DateFollowsPicker /\ OnePaymentPerTap

\* The day on screen when payment i was added.
DayShown(i) == taps[sent[i].tap].day

\* pickedDateOfPayment stores the picker's date in UTC, so one day on screen
\* may be stored as two dates, of two borrowers opened at different hours. But
\* payments for an earlier and a later day on screen are never stored in the
\* other order, whenever their forms were opened, and a date is at most one day
\* off: late east of UTC never, early west of it never.
DatesKeepOrder ==
  /\ \A i, j \in 1..Len(sent) : DayShown(i) < DayShown(j) => sent[i].date <= sent[j].date
  /\ \A i \in 1..Len(sent) :
       sent[i].date - DayShown(i) \in IF Offset > 0 THEN {-1, 0} ELSE {0, 1}

\* "Send payments to the payments database": a payment the user adds is sent.
\* It is not if the user accepts the day the picker shows first.
EveryTapSends == Len(sent) = Len(taps)
=============================================================================
