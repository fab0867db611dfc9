------------------------------- MODULE Session -------------------------------
(***************************************************************************)
(* Signing in, signing up, logging out and the navigation stack.           *)
(*                                                                         *)
(* SignInViewController and SignUpViewController hand a request to         *)
(* Firebase Auth and stay on screen with their buttons enabled. Auth       *)
(* answers in any order: it first changes currentUser and then enqueues    *)
(* the completion block on the main queue, so taps run between the two.    *)
(* The block opens BorrowersTableViewController, whose viewDidLoad, like   *)
(* every screen above it, force-unwraps Auth.auth().currentUser.           *)
(*                                                                         *)
(* The navigation controller (UIKit) and Auth and its server (Firebase)    *)
(* are modelled from how the screens use them.                             *)
(***************************************************************************)
EXTENDS Naturals, Sequences

CONSTANTS
  Account,       \* e-mail addresses, one account (uid) each
  NoUser,        \* nil
  MaxRequests    \* bound on the requests between two launches

ASSUME NoUserAssumption == NoUser \notin Account
ASSUME RequestsAssumption == MaxRequests \in Nat

VARIABLES
  currentUser,      \* Auth.auth().currentUser
  registered,       \* accounts the server knows
  stack,            \* the navigation controller's view controllers
  password,         \* SignInVC's passwordTextfield
  emailErrorLabel,  \* SignInVC's emailErrorLabel
  requests,         \* requests Auth has not answered yet
  mainQueue,        \* completion blocks waiting for the main thread
  attempts,         \* requests made since launch, numbers them
  crashed,          \* "yes" after a trap
  overlapped,       \* history: a request was made while another was pending
  lastWrite         \* history: account a borrower was written to and
                    \* account of the list under the AddBorrowerVC

auth == <<currentUser, registered>>
form == <<password, emailErrorLabel>>
pending == <<requests, mainQueue, attempts>>
vars == <<auth, stack, form, pending, crashed, overlapped, lastWrite>>

-----------------------------------------------------------------------------
(* Screens. A list and a payments screen observe the account that was      *)
(* signed in when they were loaded.                                        *)

Inside == {"BorrowersTVC", "BorrowerVC", "AddBorrowerVC", "PaymentsTVC"}
Screen == {"SignInVC", "SignUpVC"} \cup Inside
Frame == [vc : Screen, uid : Account \cup {NoUser}]

Show(vc, uid) == [vc |-> vc, uid |-> uid]
Root == <<Show("SignInVC", NoUser)>>
TopFrame == stack[Len(stack)]
OnTop(vc) == crashed = "no" /\ TopFrame.vc = vc
Pop(s) == SubSeq(s, 1, Len(s) - 1)

\* A completion block holds its controller. Once a SignUpVC has left the
\* stack, its performSegue finds no navigation controller to push on.
Orphan(r) == [r EXCEPT !.from = IF @ = "SignUpVC" THEN "gone" ELSE @]
OrphanSignUps ==
  /\ requests' = {Orphan(r) : r \in requests}
  /\ mainQueue' = [i \in DOMAIN mainQueue |-> Orphan(mainQueue[i])]
  /\ UNCHANGED attempts

Request == [id : 1..MaxRequests, from : {"SignInVC", "SignUpVC", "gone"},
            email : Account, password : {"", "right", "wrong"}]
Block == [id : 1..MaxRequests, from : {"SignInVC", "SignUpVC", "gone"},
          email : Account, error : {"none", "some"}]

-----------------------------------------------------------------------------
(* Launch: AppDelegate configures Firebase, Auth loads the user saved in   *)
(* the keychain, and the storyboard shows the SignInVC whoever that is.    *)
Init ==
  /\ registered \in SUBSET Account
  /\ currentUser \in registered \cup {NoUser}
  /\ stack = Root
  /\ password = ""
  /\ emailErrorLabel = ""
  /\ requests = {}
  /\ mainQueue = <<>>
  /\ attempts = 0
  /\ crashed = "no"
  /\ overlapped = "no"
  /\ lastWrite = <<>>

\* The user edits the SignInVC's password field.
EditPassword(p) ==
  /\ OnTop("SignInVC")
  /\ password' = p
  /\ UNCHANGED <<auth, stack, emailErrorLabel, pending, crashed, overlapped,
                 lastWrite>>

\* Auth.auth().signIn / createUser: the request leaves, the screen stays.
Send(from, email, pw) ==
  /\ attempts < MaxRequests
  /\ attempts' = attempts + 1
  /\ requests' = requests \cup {[id |-> attempts', from |-> from,
                                 email |-> email, password |-> pw]}
  /\ overlapped' = IF requests = {} /\ mainQueue = <<>> THEN overlapped
                                                        ELSE "yes"
  /\ UNCHANGED <<auth, stack, form, mainQueue, crashed, lastWrite>>

SignInButtonTapped(email) ==
  /\ OnTop("SignInVC")
  /\ Send("SignInVC", email, password)

\* createAccountButtonTapped with password == confirmPassword; otherwise it
\* only prints.
CreateAccountButtonTapped(email) ==
  /\ OnTop("SignUpVC")
  /\ Send("SignUpVC", email, "right")

SignUpButtonTapped ==
  /\ OnTop("SignInVC")
  /\ stack' = Append(stack, Show("SignUpVC", NoUser))
  /\ UNCHANGED <<auth, form, pending, crashed, overlapped, lastWrite>>

-----------------------------------------------------------------------------
(* Firebase Auth answers request r.                                        *)

Answer(r, error) ==
  /\ crashed = "no"
  /\ requests' = requests \ {r}
  /\ mainQueue' = Append(mainQueue, [id |-> r.id, from |-> r.from,
                                     email |-> r.email, error |-> error])
  /\ UNCHANGED <<stack, form, attempts, crashed, overlapped, lastWrite>>

AuthSignsIn(r) ==
  /\ r.from = "SignInVC"
  /\ r.password = "right"
  /\ r.email \in registered
  /\ currentUser' = r.email
  /\ UNCHANGED registered
  /\ Answer(r, "none")

AuthCreatesUser(r) ==
  /\ r.from # "SignInVC"
  /\ r.email \notin registered
  /\ registered' = registered \cup {r.email}
  /\ currentUser' = r.email
  /\ Answer(r, "none")

\* A wrong password, an unknown or taken address, no network...
AuthFails(r) ==
  /\ UNCHANGED auth
  /\ Answer(r, "some")

-----------------------------------------------------------------------------
(* The completion block at the head of the main queue runs.                *)

\* performSegue("toBorrowersTVC"): the list is pushed on whatever is on top
\* and its viewDidLoad unwraps currentUser.
ShowBorrowers ==
  IF currentUser = NoUser
    THEN crashed' = "yes" /\ UNCHANGED stack
    ELSE /\ stack' = Append(stack, Show("BorrowersTVC", currentUser))
         /\ UNCHANGED crashed

RunBlock(from, error) ==
  /\ crashed = "no"
  /\ mainQueue # <<>>
  /\ Head(mainQueue).from = from
  /\ Head(mainQueue).error = error
  /\ mainQueue' = Tail(mainQueue)
  /\ UNCHANGED <<auth, requests, attempts, overlapped, lastWrite>>

SignInFailed ==
  /\ RunBlock("SignInVC", "some")
  /\ emailErrorLabel' = "incorrect"
  /\ UNCHANGED <<stack, password, crashed>>

SignInSucceeded ==
  /\ RunBlock("SignInVC", "none")
  /\ ShowBorrowers
  /\ password' = ""
  /\ emailErrorLabel' = ""

SignUpFailed ==
  /\ RunBlock("SignUpVC", "some")
  /\ UNCHANGED <<stack, form, crashed>>

SignUpSucceeded ==
  /\ RunBlock("SignUpVC", "none")
  /\ ShowBorrowers
  /\ UNCHANGED form

\* Mutant: the block waits until a SignUpVC is shown again.
OrphanedBlockWaits ==
  /\ OnTop("SignUpVC")
  /\ \E error \in {"none", "some"} : RunBlock("gone", error)
  /\ UNCHANGED <<stack, form, crashed>>

\* The block of a SignUpVC that is no longer on the stack.
OrphanedBlock ==
  /\ \E error \in {"none", "some"} : RunBlock("gone", error)
  /\ UNCHANGED <<stack, form, crashed>>

-----------------------------------------------------------------------------
(* Inside.                                                                 *)

\* A screen opened from the screen on top.
Open(from, vc, uid) ==
  /\ OnTop(from)
  /\ stack' = Append(stack, Show(vc, uid))
  /\ UNCHANGED <<auth, form, pending, crashed, overlapped, lastWrite>>

\* addButtonTapped, and didSelectRowAt (BorrowersTable models which borrower).
AddButtonTapped == Open("BorrowersTVC", "AddBorrowerVC", NoUser)
DidSelectRowAt == Open("BorrowersTVC", "BorrowerVC", NoUser)

\* paymentsFolderButtonTapped; addPaymentButtonTapped ends the same way. The
\* PaymentsTVC's viewDidLoad unwraps currentUser.
ShowPayments ==
  IF currentUser = NoUser
    THEN /\ OnTop("BorrowerVC")
         /\ crashed' = "yes"
         /\ UNCHANGED <<auth, stack, form, pending, overlapped, lastWrite>>
    ELSE Open("BorrowerVC", "PaymentsTVC", currentUser)

\* Write a borrower under Borrowers/currentUser!.uid, then leave for to.
WriteBorrower(to) ==
  /\ OnTop("AddBorrowerVC")
  /\ IF currentUser = NoUser
       THEN crashed' = "yes" /\ UNCHANGED <<stack, lastWrite>>
       ELSE /\ lastWrite' = <<currentUser, stack[Len(stack) - 1].uid>>
            /\ stack' = to
            /\ UNCHANGED crashed
  /\ UNCHANGED <<auth, form, pending, overlapped>>

\* Mutant: the way back to the list is a segue to a new list.
AddBorrowerButtonTappedBySegue ==
  WriteBorrower(Append(stack, Show("BorrowersTVC", currentUser)))

\* addBorrowerButtonTapped: write and pop.
AddBorrowerButtonTapped == WriteBorrower(Pop(stack))

\* signOut, which may throw, then leave for to.
LogoutTo(to, outcome) ==
  /\ OnTop("BorrowersTVC")
  /\ currentUser' = IF outcome = "error" THEN currentUser ELSE NoUser
  /\ stack' = to
  /\ OrphanSignUps
  /\ UNCHANGED <<registered, form, crashed, overlapped, lastWrite>>

\* Mutant: logging out pops one screen.
LogoutButtonTappedPopsOne(outcome) == LogoutTo(Pop(stack), outcome)

\* logoutButtonTapped: popToRootViewController, whether signOut threw or not.
LogoutButtonTapped(outcome) == LogoutTo(Root, outcome)

\* The back button. The list has Logout in its place, the root has none.
Back ==
  /\ \E vc \in Screen \ {"SignInVC", "BorrowersTVC"} : OnTop(vc)
  /\ stack' = Pop(stack)
  /\ IF TopFrame.vc = "SignUpVC" THEN OrphanSignUps ELSE UNCHANGED pending
  /\ UNCHANGED <<auth, form, crashed, overlapped, lastWrite>>

\* The process ends, by a trap or by the user, and is launched again. The
\* keychain keeps the user; requests under way may still create accounts.
Restart ==
  /\ registered' \in {registered \cup S :
        S \in SUBSET {r.email : r \in {q \in requests : q.from # "SignInVC"}}}
  /\ stack' = Root
  /\ password' = ""
  /\ emailErrorLabel' = ""
  /\ requests' = {}
  /\ mainQueue' = <<>>
  /\ attempts' = 0
  /\ crashed' = "no"
  /\ overlapped' = "no"
  /\ lastWrite' = <<>>
  /\ UNCHANGED currentUser

-----------------------------------------------------------------------------
Server == \E r \in requests : AuthSignsIn(r) \/ AuthCreatesUser(r) \/ AuthFails(r)

MainThread == \/ SignInFailed \/ SignInSucceeded
              \/ SignUpFailed \/ SignUpSucceeded \/ OrphanedBlock

User ==
  \/ \E p \in {"", "right", "wrong"} : EditPassword(p)
  \/ \E email \in Account : SignInButtonTapped(email)
  \/ \E email \in Account : CreateAccountButtonTapped(email)
  \/ SignUpButtonTapped
  \/ AddButtonTapped \/ DidSelectRowAt \/ ShowPayments
  \/ AddBorrowerButtonTapped
  \/ \E outcome \in {"ok", "error"} : LogoutButtonTapped(outcome)
  \/ Back

Next == User \/ Server \/ MainThread \/ Restart

Spec == Init /\ [][Next]_vars

\* Auth answers or times out every request; the run loop serves its queue.
FairSpec ==
  /\ Spec
  /\ \A i \in 1..MaxRequests :
       WF_vars(\E r \in requests : r.id = i /\
                 (AuthSignsIn(r) \/ AuthCreatesUser(r) \/ AuthFails(r)))
  /\ WF_vars(MainThread)

-----------------------------------------------------------------------------
(* Properties                                                              *)

Pending(i) == \/ \E r \in requests : r.id = i
              \/ \E k \in 1..Len(mainQueue) : mainQueue[k].id = i

Lists == {i \in 1..Len(stack) : stack[i].vc = "BorrowersTVC"}

\* Type invariant. A list or a payments screen always has an account.
TypeOK ==
  /\ registered \subseteq Account
  /\ currentUser \in registered \cup {NoUser}
  /\ stack \in Seq(Frame)
  /\ \A i \in 1..Len(stack) :
       stack[i].uid = NoUser <=> stack[i].vc \notin {"BorrowersTVC", "PaymentsTVC"}
  /\ password \in {"", "right", "wrong"}
  /\ emailErrorLabel \in {"", "incorrect"}
  /\ requests \subseteq Request
  /\ mainQueue \in Seq(Block)
  /\ attempts \in 0..MaxRequests
  /\ crashed \in {"no", "yes"}
  /\ overlapped \in {"no", "yes"}
  /\ lastWrite = <<>> \/ lastWrite \in Account \X (Account \cup {NoUser})

\* The stack is rooted at the SignInVC, which is nowhere else, a SignUpVC is
\* second, and a borrower's screens are above the screen that opened them,
\* wherever late completion blocks pushed lists.
StackShape ==
  /\ Len(stack) > 0
  /\ \A i \in 1..Len(stack) :
       /\ stack[i].vc = "SignInVC" <=> i = 1
       /\ stack[i].vc = "SignUpVC" => i = 2
       /\ stack[i].vc \in {"AddBorrowerVC", "BorrowerVC"} =>
            i > 1 /\ stack[i - 1].vc = "BorrowersTVC"
       /\ stack[i].vc = "PaymentsTVC" =>
            i > 1 /\ stack[i - 1].vc = "BorrowerVC"

\* While a screen of the inside is on the stack a user is signed in, so the
\* unwraps in sendBorrowersToDatabase, sendPaymentsToDatabase and
\* retrievePayments never trap, however requests overlap.
UserWhileInside ==
  (\E i \in 1..Len(stack) : stack[i].vc \in Inside) => currentUser # NoUser

\* As long as no request is made while another is pending, a completion block
\* finds the user it signed in: the list's viewDidLoad never traps.
SequentialNeverTraps == overlapped = "no" => crashed = "no"

\* ... there is one list, and what it shows and what is written from it is
\* the signed-in account's.
SequentialLists ==
  overlapped = "no" =>
    /\ \A i, j \in Lists : i = j
    /\ \A i \in 1..Len(stack) : stack[i].uid \in {currentUser, NoUser}
    /\ lastWrite = <<>> \/ lastWrite[1] = lastWrite[2]

\* ... and a list opened by signing in leaves neither a password nor an error
\* behind on the form the user gets back to after Logout.
SequentialFormClean ==
  (overlapped = "no" /\ Len(stack) > 1 /\ stack[2].vc = "BorrowersTVC") =>
    password = "" /\ emailErrorLabel = ""

\* However requests overlap, the stack keeps its shape and no screen of the
\* inside is without a user: inductive together.
SessionInvariant == TypeOK /\ StackShape /\ UserWhileInside

\* What makes the Sequential properties inductive: one request at a time,
\* none while a screen of the inside is shown, and a successful block that
\* waits is for the current user. A SignUpVC that may still push is second.
OneAtATime ==
  /\ \A r, q \in requests : r = q
  /\ requests # {} => mainQueue = <<>>
  /\ Len(mainQueue) <= 1
  /\ (\E i \in 1..Len(stack) : stack[i].vc \in Inside) =>
       requests = {} /\ mainQueue = <<>>
  /\ \A i \in 1..Len(mainQueue) :
       mainQueue[i].error = "none" => currentUser = mainQueue[i].email

SignUpSecond ==
  \/ Len(stack) > 1 /\ stack[2].vc = "SignUpVC"
  \/ /\ \A r \in requests : r.from # "SignUpVC"
     /\ \A i \in 1..Len(mainQueue) : mainQueue[i].from # "SignUpVC"

\* While requests do not overlap, no block traps, there is one list, it is the
\* signed-in account's, and the form is clean: the conjunction of the above.
SequentialInvariant ==
  /\ SignUpSecond
  /\ SequentialNeverTraps
  /\ SequentialLists
  /\ SequentialFormClean
  /\ overlapped = "no" => OneAtATime

\* Every request is eventually answered and its completion block run, unless
\* the process ends: no order of answers, pops and logouts loses a block.
RequestsSettle ==
  \A i \in 1..MaxRequests :
    Pending(i) ~> (~Pending(i) \/ crashed = "yes")
=============================================================================
