--------------------------- MODULE Session_proofs ---------------------------
(***************************************************************************)
(* Proofs about sessions and the navigation stack, for every set of        *)
(* accounts and every number of requests.                                  *)
(***************************************************************************)
EXTENDS Session, SequenceTheorems, TLAPS

\* The parts of TypeOK and StackShape about the stack, and about the rest.
StackOK ==
  /\ stack \in Seq(Frame)
  /\ \A i \in 1..Len(stack) :
       stack[i].uid = NoUser <=> stack[i].vc \notin {"BorrowersTVC", "PaymentsTVC"}
  /\ StackShape

RestOK ==
  /\ registered \subseteq Account
  /\ currentUser \in registered \cup {NoUser}
  /\ password \in {"", "right", "wrong"}
  /\ emailErrorLabel \in {"", "incorrect"}
  /\ requests \subseteq Request
  /\ mainQueue \in Seq(Block)
  /\ attempts \in 0..MaxRequests
  /\ crashed \in {"no", "yes"}
  /\ overlapped \in {"no", "yes"}
  /\ lastWrite = <<>> \/ lastWrite \in Account \X (Account \cup {NoUser})

\* The inductive invariant, split by what the steps change.
LEMMA IInvParts == SessionInvariant <=> StackOK /\ RestOK /\ UserWhileInside
BY DEF SessionInvariant, TypeOK, StackOK, RestOK

-----------------------------------------------------------------------------
(* What the operations on the stack preserve.                              *)

\* A screen may be pushed where StackShape allows it.
LEMMA PushStack ==
  ASSUME StackOK,
         NEW vc \in Screen, NEW uid \in Account \cup {NoUser},
         uid = NoUser <=> vc \notin {"BorrowersTVC", "PaymentsTVC"},
         vc # "SignInVC",
         vc = "SignUpVC" => TopFrame.vc = "SignInVC",
         vc \in {"AddBorrowerVC", "BorrowerVC"} => TopFrame.vc = "BorrowersTVC",
         vc = "PaymentsTVC" => TopFrame.vc = "BorrowerVC",
         stack' = Append(stack, Show(vc, uid))
  PROVE  StackOK'
<1> DEFINE f == Show(vc, uid)
           n == Len(stack)
<1>1. f \in Frame /\ f.vc = vc /\ f.uid = uid
  BY DEF Show, Frame
<1>2. stack \in Seq(Frame) /\ n \in Nat /\ n > 0
  BY LenProperties DEF StackOK, StackShape
<1>3. /\ stack' \in Seq(Frame)
      /\ Len(stack') = n + 1
      /\ \A i \in 1..n : stack'[i] = stack[i]
      /\ stack'[n + 1] = f
  <2> HIDE DEF f
  <2>1. stack' = Append(stack, f)
    BY DEF f
  <2> QED
    BY <1>1, <1>2, <2>1, AppendProperties
<1>4. vc = "SignUpVC" => n = 1
  <2>1. n \in 1..n
    BY <1>2
  <2>2. stack[n].vc = "SignInVC" <=> n = 1
    BY <2>1 DEF StackOK, StackShape
  <2> QED
    BY <2>2 DEF TopFrame
<1> HIDE DEF f
<1>5. ASSUME NEW i \in 1..Len(stack')
      PROVE  /\ stack'[i].uid = NoUser <=> stack'[i].vc \notin {"BorrowersTVC", "PaymentsTVC"}
             /\ stack'[i].vc = "SignInVC" <=> i = 1
             /\ stack'[i].vc = "SignUpVC" => i = 2
             /\ stack'[i].vc \in {"AddBorrowerVC", "BorrowerVC"} =>
                  i > 1 /\ stack'[i - 1].vc = "BorrowersTVC"
             /\ stack'[i].vc = "PaymentsTVC" =>
                  i > 1 /\ stack'[i - 1].vc = "BorrowerVC"
  <2>1. CASE i \in 1..n
    <3>1. stack'[i] = stack[i] /\ (i > 1 => stack'[i - 1] = stack[i - 1])
      BY <1>2, <1>3, <2>1
    <3> QED
      BY <2>1, <3>1, <1>2 DEF StackOK, StackShape
  <2>2. CASE i = n + 1
    <3>1. stack'[i] = f /\ stack'[i - 1] = TopFrame /\ i > 1
      BY <1>2, <1>3, <2>2 DEF TopFrame
    <3> QED
      BY <1>1, <1>2, <1>4, <2>2, <3>1
  <2> QED
    BY <1>2, <1>3, <2>1, <2>2
<1> QED
  BY <1>2, <1>3, <1>5 DEF StackOK, StackShape

\* Popping a screen that is not the root leaves a well-formed stack.
LEMMA PopStack ==
  ASSUME StackOK, TopFrame.vc # "SignInVC", stack' = Pop(stack)
  PROVE  /\ StackOK'
         /\ Len(stack') = Len(stack) - 1
         /\ Len(stack') \in Nat
         /\ \A i \in 1..Len(stack') : stack'[i] = stack[i]
<1> DEFINE n == Len(stack)
<1>1. stack \in Seq(Frame) /\ n \in Nat /\ n > 0
  BY LenProperties DEF StackOK, StackShape
<1>2. n > 1
  BY <1>1 DEF StackOK, StackShape, TopFrame
<1>3. /\ stack' \in Seq(Frame)
      /\ Len(stack') = n - 1
      /\ \A i \in 1..(n - 1) : stack'[i] = stack[i]
  BY <1>1, <1>2, SubSeqProperties DEF Pop
<1>4. ASSUME NEW i \in 1..Len(stack')
      PROVE  stack'[i] = stack[i] /\ (i > 1 => stack'[i - 1] = stack[i - 1]) /\ i \in 1..n
  BY <1>1, <1>3
<1>5. StackOK'
  BY <1>1, <1>2, <1>3, <1>4 DEF StackOK, StackShape
<1> QED
  BY <1>1, <1>2, <1>3, <1>5

\* The stack the app starts with, and Logout returns to.
LEMMA RootStack ==
  ASSUME stack' = Root
  PROVE  /\ StackOK' /\ Len(stack') = 1
         /\ \A i \in 1..Len(stack') : stack'[i] = Show("SignInVC", NoUser)
<1>1. Show("SignInVC", NoUser) \in Frame
  BY DEF Show, Frame, Screen
<1>2. /\ stack' \in Seq(Frame) /\ Len(stack') = 1
      /\ stack'[1] = Show("SignInVC", NoUser)
  BY <1>1 DEF Root
<1>3. \A i \in 1..Len(stack') : i = 1
  BY <1>2
<1> QED
  BY <1>2, <1>3 DEF StackOK, StackShape, Show

\* Steps that leave the stack alone keep it well formed.
LEMMA SameStack ==
  ASSUME StackOK, UNCHANGED stack
  PROVE  StackOK'
BY DEF StackOK, StackShape

\* Orphaning keeps requests and blocks well-typed and nothing else changes.
LEMMA OrphanType ==
  ASSUME RestOK, OrphanSignUps
  PROVE  /\ requests' \subseteq Request
         /\ mainQueue' \in Seq(Block)
         /\ Len(mainQueue') = Len(mainQueue)
         /\ attempts' \in 0..MaxRequests
<1>1. \A r \in Request : Orphan(r) \in Request
  BY DEF Orphan, Request
<1>2. \A b \in Block : Orphan(b) \in Block
  BY DEF Orphan, Block
<1>3. requests' \subseteq Request
  BY <1>1 DEF OrphanSignUps, RestOK
<1>4. mainQueue \in Seq(Block) /\ Len(mainQueue) \in Nat /\ DOMAIN mainQueue = 1..Len(mainQueue)
  BY LenProperties DEF RestOK
<1>5. \A i \in 1..Len(mainQueue) : Orphan(mainQueue[i]) \in Block
  BY <1>2, <1>4, ElementOfSeq
<1>6. mainQueue' = [i \in 1..Len(mainQueue) |-> Orphan(mainQueue[i])]
  BY <1>4 DEF OrphanSignUps
<1>7. mainQueue' \in Seq(Block) /\ Len(mainQueue') = Len(mainQueue)
  <2> HIDE DEF Orphan
  <2>1. mainQueue' \in [1..Len(mainQueue) -> Block]
    BY <1>5, <1>6
  <2>2. mainQueue' \in Seq(Block)
    BY <1>4, <2>1, IsASeq
  <2>3. Len(mainQueue') \in Nat /\ DOMAIN mainQueue' = 1..Len(mainQueue')
    BY <2>2, LenProperties
  <2>4. DOMAIN mainQueue' = 1..Len(mainQueue)
    BY <2>1
  <2>5. \A m, n \in Nat : 1..m = 1..n => m = n
    <3> SUFFICES ASSUME NEW m \in Nat, NEW n \in Nat, 1..m = 1..n
                 PROVE  m = n
      OBVIOUS
    <3>1. (m > 0 => m \in 1..n) /\ (n > 0 => n \in 1..m)
      OBVIOUS
    <3> QED
      BY <3>1
  <2> QED
    BY <1>4, <2>2, <2>3, <2>4, <2>5
<1> QED
  BY <1>3, <1>7 DEF OrphanSignUps, RestOK

\* Logout, Back and Restart: no screen of the inside appears.
LEMMA InsideShrinks ==
  ASSUME UserWhileInside, currentUser' = currentUser,
         \A i \in 1..Len(stack') :
           stack'[i].vc \in Inside => i \in 1..Len(stack) /\ stack'[i] = stack[i]
  PROVE  UserWhileInside'
BY DEF UserWhileInside

\* The screen on top is one of the stack.
LEMMA TopInside ==
  ASSUME StackOK, UserWhileInside, TopFrame.vc \in Inside
  PROVE  currentUser # NoUser
<1>1. Len(stack) \in 1..Len(stack)
  BY LenProperties DEF StackOK, StackShape
<1> QED
  BY <1>1 DEF UserWhileInside, TopFrame

\* A screen of the inside opened from another one.
LEMMA OpenIInv ==
  ASSUME SessionInvariant, NEW from \in Inside, NEW vc \in Inside,
         NEW uid \in Account \cup {NoUser}, Open(from, vc, uid),
         uid = NoUser <=> vc # "PaymentsTVC",
         vc # "BorrowersTVC",
         vc \in {"AddBorrowerVC", "BorrowerVC"} => from = "BorrowersTVC",
         vc = "PaymentsTVC" => from = "BorrowerVC"
  PROVE  SessionInvariant'
<1>1. StackOK /\ RestOK /\ UserWhileInside
  BY IInvParts
<1>2. TopFrame.vc = from
  BY DEF Open, OnTop
<1>3. StackOK'
  BY <1>1, <1>2, PushStack DEF Open, Screen, Inside
<1>4. RestOK'
  BY <1>1 DEF RestOK, Open, auth, form, pending
<1>5. UserWhileInside'
  BY <1>1, <1>2, TopInside DEF UserWhileInside, Open, auth
<1> QED
  BY <1>3, <1>4, <1>5, IInvParts DEF SessionInvariant, TypeOK, StackOK, RestOK

\* A list pushed by a completion block, on whatever is on top.
LEMMA ShowBorrowersOK ==
  ASSUME SessionInvariant, ShowBorrowers, UNCHANGED currentUser
  PROVE  StackOK' /\ UserWhileInside' /\ crashed' \in {"no", "yes"}
<1>1. StackOK /\ RestOK /\ UserWhileInside
  BY IInvParts
<1>2. CASE currentUser = NoUser
  BY <1>1, <1>2, SameStack DEF ShowBorrowers, UserWhileInside
<1>3. CASE currentUser # NoUser
  <2>1. currentUser \in Account \cup {NoUser}
    BY <1>1 DEF RestOK
  <2>2. StackOK'
    BY <1>1, <1>3, <2>1, PushStack DEF ShowBorrowers, Screen, Inside
  <2> QED
    BY <1>1, <1>3, <2>2 DEF ShowBorrowers, UserWhileInside, RestOK
<1> QED
  BY <1>2, <1>3

\* Taking the head of the main queue.
LEMMA RunBlockType ==
  ASSUME RestOK, NEW from, NEW error, RunBlock(from, error)
  PROVE  mainQueue' \in Seq(Block)
BY HeadTailProperties DEF RunBlock, RestOK

-----------------------------------------------------------------------------
(* Every action preserves the inductive invariant.                         *)

\* At launch only the SignInVC is on the stack.
LEMMA InitIInv == Init => SessionInvariant
<1> SUFFICES ASSUME Init PROVE SessionInvariant
  OBVIOUS
<1>1. Show("SignInVC", NoUser) \in Frame
  BY DEF Show, Frame, Screen
<1>2. stack \in Seq(Frame) /\ Len(stack) = 1 /\ stack[1] = Show("SignInVC", NoUser)
  <2>1. stack = <<Show("SignInVC", NoUser)>>
    BY DEF Init, Root
  <2> QED
    BY <1>1, <2>1
<1>3. StackOK
  BY <1>2 DEF StackOK, StackShape, Show
<1>4. RestOK
  <2>1. <<>> \in Seq(Block) /\ 0 \in 0..MaxRequests
    BY RequestsAssumption, EmptySeq
  <2> QED
    BY <2>1 DEF Init, RestOK
<1>5. UserWhileInside
  BY <1>2 DEF UserWhileInside, Inside, Show
<1> QED
  BY <1>3, <1>4, <1>5, IInvParts

\* The number of the next request is within the bound.
LEMMA CountUp ==
  ASSUME NEW m \in Nat, NEW a \in 0..m, a < m
  PROVE  a + 1 \in 1..m /\ a + 1 \in 0..m
<1>1. a \in Nat /\ m \in Int /\ a + 1 <= m /\ a + 1 >= 1
  OBVIOUS
<1> QED
  BY <1>1

\* Requests leave the stack alone.
LEMMA SendIInv ==
  ASSUME SessionInvariant, NEW from \in {"SignInVC", "SignUpVC"}, NEW email \in Account,
         NEW pw \in {"", "right", "wrong"}, Send(from, email, pw)
  PROVE  SessionInvariant'
<1>1. StackOK /\ RestOK /\ UserWhileInside
  BY IInvParts
<1>2. attempts' \in 1..MaxRequests /\ attempts' \in 0..MaxRequests
  <2>1. attempts \in 0..MaxRequests
    BY <1>1 DEF RestOK
  <2>2. attempts < MaxRequests /\ attempts' = attempts + 1
    BY DEF Send
  <2> QED
    BY <2>1, <2>2, CountUp, RequestsAssumption
<1>3. [id |-> attempts', from |-> from, email |-> email, password |-> pw] \in Request
  BY <1>2 DEF Request
<1>4. requests' \subseteq Request
  BY <1>1, <1>3 DEF Send, RestOK
<1>5. RestOK'
  BY <1>1, <1>2, <1>4 DEF Send, RestOK, auth, form
<1>6. StackOK' /\ UserWhileInside'
  BY <1>1, SameStack DEF Send, UserWhileInside, auth
<1> QED
  BY <1>5, <1>6 DEF SessionInvariant, TypeOK, StackOK, RestOK

\* Answers only ever sign somebody in.
LEMMA ServerIInv ==
  ASSUME SessionInvariant, Server
  PROVE  SessionInvariant'
<1>1. StackOK /\ RestOK /\ UserWhileInside
  BY IInvParts
<1>2. PICK r \in requests : AuthSignsIn(r) \/ AuthCreatesUser(r) \/ AuthFails(r)
  BY DEF Server
<1>3. r \in Request
  BY <1>1 DEF RestOK
<1>4. PICK error \in {"none", "some"} : Answer(r, error)
  BY <1>2 DEF AuthSignsIn, AuthCreatesUser, AuthFails
<1>5. [id |-> r.id, from |-> r.from, email |-> r.email, error |-> error] \in Block
  BY <1>3 DEF Request, Block
<1>6. mainQueue' \in Seq(Block)
  BY <1>1, <1>4, <1>5, AppendProperties DEF Answer, RestOK
<1>7. /\ registered' \subseteq Account
      /\ currentUser' \in registered' \cup {NoUser}
      /\ currentUser' = currentUser \/ currentUser' \in Account
  BY <1>1, <1>2, <1>3 DEF AuthSignsIn, AuthCreatesUser, AuthFails, auth, RestOK, Request
<1>8. RestOK'
  BY <1>1, <1>4, <1>6, <1>7 DEF Answer, RestOK, form
<1>9. StackOK' /\ UserWhileInside'
  BY <1>1, <1>4, <1>7, SameStack, NoUserAssumption DEF Answer, UserWhileInside
<1> QED
  BY <1>8, <1>9 DEF SessionInvariant, TypeOK, StackOK, RestOK

\* A block pushes a list only for a signed-in user; otherwise it traps.
LEMMA MainThreadIInv ==
  ASSUME SessionInvariant, MainThread
  PROVE  SessionInvariant'
<1>1. StackOK /\ RestOK /\ UserWhileInside
  BY IInvParts
<1>2. PICK from \in {"SignInVC", "SignUpVC", "gone"}, error \in {"none", "some"} :
        RunBlock(from, error)
  BY DEF MainThread, SignInFailed, SignInSucceeded, SignUpFailed,
         SignUpSucceeded, OrphanedBlock
<1>3. mainQueue' \in Seq(Block)
  BY <1>1, <1>2, RunBlockType
<1>4. UNCHANGED currentUser
  BY <1>2 DEF RunBlock, auth
<1>5. ShowBorrowers \/ UNCHANGED <<stack, crashed>>
  BY DEF MainThread, SignInFailed, SignInSucceeded, SignUpFailed,
         SignUpSucceeded, OrphanedBlock
<1>6. StackOK' /\ UserWhileInside' /\ crashed' \in {"no", "yes"}
  <2>1. CASE ShowBorrowers
    BY <1>4, <2>1, ShowBorrowersOK
  <2>2. CASE UNCHANGED <<stack, crashed>>
    BY <1>1, <1>4, <2>2, SameStack DEF UserWhileInside, RestOK
  <2> QED
    BY <1>5, <2>1, <2>2
<1>7. password' \in {"", "right", "wrong"} /\ emailErrorLabel' \in {"", "incorrect"}
  BY <1>1 DEF MainThread, SignInFailed, SignInSucceeded, SignUpFailed,
              SignUpSucceeded, OrphanedBlock, form, RestOK
<1>8. RestOK'
  BY <1>1, <1>2, <1>3, <1>6, <1>7 DEF RunBlock, RestOK, auth
<1> QED
  BY <1>6, <1>8 DEF SessionInvariant, TypeOK, StackOK, RestOK

\* The user's taps. Those of the inside find a signed-in user.
LEMMA UserIInv ==
  ASSUME SessionInvariant, User
  PROVE  SessionInvariant'
<1>1. StackOK /\ RestOK /\ UserWhileInside
  BY IInvParts
<1>2. CASE \E p \in {"", "right", "wrong"} : EditPassword(p)
  <2>1. StackOK' /\ RestOK' /\ UserWhileInside'
    BY <1>1, <1>2, SameStack DEF EditPassword, RestOK, UserWhileInside, auth, pending
  <2> QED
    BY <2>1 DEF SessionInvariant, TypeOK, StackOK, RestOK
<1>3. CASE \E email \in Account : SignInButtonTapped(email)
  BY <1>1, <1>3, SendIInv DEF SignInButtonTapped, RestOK
<1>4. CASE \E email \in Account : CreateAccountButtonTapped(email)
  BY <1>4, SendIInv DEF CreateAccountButtonTapped
<1>5. CASE SignUpButtonTapped
  <2>1. StackOK'
    BY <1>1, <1>5, PushStack DEF SignUpButtonTapped, OnTop, Screen
  <2>2. RestOK'
    BY <1>1, <1>5 DEF SignUpButtonTapped, RestOK, auth, form, pending
  <2>3. UserWhileInside'
    <3> DEFINE f == Show("SignUpVC", NoUser)
    <3>1. f \in Frame /\ f.vc \notin Inside
      BY DEF Show, Frame, Screen, Inside
    <3>2. stack \in Seq(Frame) /\ stack' = Append(stack, f) /\ Len(stack) \in Nat
      BY <1>1, <1>5, LenProperties DEF StackOK, SignUpButtonTapped
    <3> HIDE DEF f
    <3>3. \A i \in 1..Len(stack') :
           stack'[i].vc \in Inside => i \in 1..Len(stack) /\ stack'[i] = stack[i]
      <4>1. /\ Len(stack') = Len(stack) + 1
            /\ \A i \in 1..Len(stack) : stack'[i] = stack[i]
            /\ stack'[Len(stack) + 1] = f
        BY <3>1, <3>2, AppendProperties
      <4> QED
        BY <3>1, <3>2, <4>1
    <3> QED
      BY <1>1, <1>5, <3>3, InsideShrinks DEF SignUpButtonTapped, auth
  <2> QED
    BY <2>1, <2>2, <2>3 DEF SessionInvariant, TypeOK, StackOK, RestOK
<1>6. CASE AddButtonTapped
  BY <1>6, OpenIInv DEF AddButtonTapped, Inside
<1>7. CASE DidSelectRowAt
  BY <1>7, OpenIInv DEF DidSelectRowAt, Inside
<1>8. CASE ShowPayments
  <2>1. currentUser # NoUser
    BY <1>1, <1>8, TopInside DEF ShowPayments, Open, OnTop, Inside
  <2>2. currentUser \in Account \cup {NoUser}
    BY <1>1 DEF RestOK
  <2> QED
    BY <1>8, <2>1, <2>2, OpenIInv DEF ShowPayments, Inside
<1>9. CASE AddBorrowerButtonTapped
  <2>1. TopFrame.vc = "AddBorrowerVC"
    BY <1>9 DEF AddBorrowerButtonTapped, WriteBorrower, OnTop
  <2>2. currentUser # NoUser
    BY <1>1, <2>1, TopInside DEF Inside
  <2>3. stack' = Pop(stack)
    BY <1>9, <2>2 DEF AddBorrowerButtonTapped, WriteBorrower
  <2>4. /\ StackOK' /\ Len(stack') = Len(stack) - 1 /\ Len(stack') \in Nat
        /\ \A i \in 1..Len(stack') : stack'[i] = stack[i]
    BY <1>1, <2>1, <2>3, PopStack
  <2>5. UserWhileInside'
    BY <1>9, <2>2 DEF UserWhileInside, AddBorrowerButtonTapped, WriteBorrower, auth
  <2>6. stack[Len(stack) - 1].uid \in Account \cup {NoUser}
    <3>1. Len(stack) - 1 \in 1..Len(stack)
      BY <1>1, <2>1, <2>4, LenProperties DEF StackOK, StackShape, TopFrame
    <3>2. stack[Len(stack) - 1] \in Frame
      BY <1>1, <3>1, ElementOfSeq DEF StackOK
    <3> QED
      BY <3>2 DEF Frame
  <2>7. lastWrite' \in Account \X (Account \cup {NoUser})
    <3>1. currentUser \in Account
      BY <1>1, <2>2 DEF RestOK
    <3>2. lastWrite' = <<currentUser, stack[Len(stack) - 1].uid>>
      BY <1>9, <2>2 DEF AddBorrowerButtonTapped, WriteBorrower
    <3> QED
      BY <2>6, <3>1, <3>2
  <2>8. RestOK'
    BY <1>1, <1>9, <2>2, <2>7 DEF AddBorrowerButtonTapped, WriteBorrower, RestOK, auth, form, pending
  <2> QED
    BY <2>4, <2>5, <2>8 DEF SessionInvariant, TypeOK, StackOK, RestOK
<1>10. CASE \E outcome \in {"ok", "error"} : LogoutButtonTapped(outcome)
  <2>1. StackOK' /\ \A i \in 1..Len(stack') : stack'[i] = Show("SignInVC", NoUser)
    BY <1>10, RootStack DEF LogoutButtonTapped, LogoutTo
  <2>2. UserWhileInside'
    BY <2>1 DEF UserWhileInside, Inside, Show
  <2>3. /\ requests' \subseteq Request /\ mainQueue' \in Seq(Block)
        /\ attempts' \in 0..MaxRequests
    BY <1>1, <1>10, OrphanType DEF LogoutButtonTapped, LogoutTo
  <2>4. RestOK'
    BY <1>1, <1>10, <2>3 DEF LogoutButtonTapped, LogoutTo, RestOK, form
  <2> QED
    BY <2>1, <2>2, <2>4 DEF SessionInvariant, TypeOK, StackOK, RestOK
<1>11. CASE Back
  <2>1. TopFrame.vc # "SignInVC"
    BY <1>11 DEF Back, OnTop
  <2>2. /\ StackOK' /\ Len(stack') = Len(stack) - 1 /\ Len(stack') \in Nat
        /\ \A i \in 1..Len(stack') : stack'[i] = stack[i]
    BY <1>1, <1>11, <2>1, PopStack DEF Back
  <2>3. Len(stack) \in Nat
    BY <1>1, LenProperties DEF StackOK
  <2>4. UserWhileInside'
    BY <1>1, <1>11, <2>2, <2>3, InsideShrinks DEF Back, auth
  <2>5. /\ requests' \subseteq Request /\ mainQueue' \in Seq(Block)
        /\ attempts' \in 0..MaxRequests
    BY <1>1, <1>11, OrphanType DEF Back, pending, RestOK
  <2>6. RestOK'
    BY <1>1, <1>11, <2>5 DEF Back, RestOK, auth, form
  <2> QED
    BY <2>2, <2>4, <2>6 DEF SessionInvariant, TypeOK, StackOK, RestOK
<1> QED
  BY <1>2, <1>3, <1>4, <1>5, <1>6, <1>7, <1>8, <1>9, <1>10, <1>11 DEF User

\* A restart leaves the SignInVC and the user the keychain kept.
LEMMA RestartIInv ==
  ASSUME SessionInvariant, Restart
  PROVE  SessionInvariant'
<1>1. RestOK
  BY IInvParts
<1>2. StackOK' /\ \A i \in 1..Len(stack') : stack'[i] = Show("SignInVC", NoUser)
  BY RootStack DEF Restart
<1>3. UserWhileInside'
  BY <1>2 DEF UserWhileInside, Inside, Show
<1>4. registered' \subseteq Account /\ registered \subseteq registered'
  <2>1. \A r \in requests : r.email \in Account
    BY <1>1 DEF RestOK, Request
  <2>2. registered \subseteq Account
    BY <1>1 DEF RestOK
  <2>3. PICK S \in SUBSET {r.email : r \in {q \in requests : q.from # "SignInVC"}} :
          registered' = registered \cup S
    BY DEF Restart
  <2> QED
    BY <2>1, <2>2, <2>3
<1>5. <<>> \in Seq(Block) /\ 0 \in 0..MaxRequests
  BY RequestsAssumption, EmptySeq
<1>6. RestOK'
  BY <1>1, <1>4, <1>5 DEF Restart, RestOK
<1> QED
  BY <1>2, <1>3, <1>6 DEF SessionInvariant, TypeOK, StackOK, RestOK

\* Every step keeps the inductive invariant.
LEMMA NextIInv == SessionInvariant /\ [Next]_vars => SessionInvariant'
<1> SUFFICES ASSUME SessionInvariant, [Next]_vars PROVE SessionInvariant'
  OBVIOUS
<1>1. CASE Next
  BY <1>1, UserIInv, ServerIInv, MainThreadIInv, RestartIInv DEF Next
<1>2. CASE UNCHANGED vars
  <2> USE <1>2 DEF vars, auth, form, pending
  <2>1. TypeOK'
    BY DEF SessionInvariant, TypeOK
  <2>2. StackShape'
    BY DEF SessionInvariant, StackShape
  <2>3. UserWhileInside'
    BY DEF SessionInvariant, UserWhileInside
  <2> QED
    BY <2>1, <2>2, <2>3 DEF SessionInvariant
<1> QED
  BY <1>1, <1>2

\* The invariant the theorems about every behaviour follow from.
THEOREM Invariance == Spec => []SessionInvariant
<1>1. Init => SessionInvariant
  BY InitIInv
<1>2. SessionInvariant /\ [Next]_vars => SessionInvariant'
  BY NextIInv
<1> QED
  BY <1>1, <1>2, PTL DEF Spec

-----------------------------------------------------------------------------
(* One request at a time.                                                  *)

Own ==
  /\ \A i, j \in Lists : i = j
  /\ \A i \in 1..Len(stack) : stack[i].uid \in {currentUser, NoUser}
  /\ lastWrite = <<>> \/ lastWrite[1] = lastWrite[2]

Clean == (Len(stack) > 1 /\ stack[2].vc = "BorrowersTVC") =>
           password = "" /\ emailErrorLabel = ""

AllOutside == \A i \in 1..Len(stack) : stack[i].vc \notin Inside

\* What holds while requests have not overlapped.
SeqInv == crashed = "no" /\ Own /\ Clean /\ OneAtATime

\* The sequential invariant, with the condition on overlap pulled out.
LEMMA SInvParts == SequentialInvariant <=> SignUpSecond /\ (overlapped = "no" => SeqInv)
BY DEF SequentialInvariant, SeqInv, Own, Clean, SequentialNeverTraps, SequentialLists,
       SequentialFormClean

\* What a push does to the stack, position by position.
LEMMA Pushed ==
  ASSUME StackOK, NEW vc \in Screen, NEW uid \in Account \cup {NoUser},
         stack' = Append(stack, Show(vc, uid))
  PROVE  /\ Len(stack) \in Nat /\ Len(stack) > 0
         /\ Len(stack') = Len(stack) + 1
         /\ \A i \in 1..Len(stack) : stack'[i] = stack[i]
         /\ stack'[Len(stack) + 1].vc = vc /\ stack'[Len(stack) + 1].uid = uid
<1> DEFINE f == Show(vc, uid)
<1>1. f \in Frame /\ f.vc = vc /\ f.uid = uid
  BY DEF Show, Frame
<1>2. stack \in Seq(Frame) /\ Len(stack) \in Nat /\ Len(stack) > 0
  BY LenProperties DEF StackOK, StackShape
<1>3. stack' = Append(stack, f)
  OBVIOUS
<1> HIDE DEF f
<1> QED
  BY <1>1, <1>2, <1>3, AppendProperties

\* Below a SignInVC or a SignUpVC on top there is no screen of the inside.
LEMMA OutsideTop ==
  ASSUME StackOK, TopFrame.vc \in {"SignInVC", "SignUpVC"}
  PROVE  /\ AllOutside
         /\ TopFrame.vc = "SignInVC" => Len(stack) = 1
         /\ TopFrame.vc = "SignUpVC" => Len(stack) = 2 /\ stack[2].vc = "SignUpVC"
<1>1. Len(stack) \in Nat /\ Len(stack) \in 1..Len(stack)
  BY LenProperties DEF StackOK, StackShape
<1>2. /\ TopFrame.vc = "SignInVC" => Len(stack) = 1
      /\ TopFrame.vc = "SignUpVC" => Len(stack) = 2 /\ stack[2].vc = "SignUpVC"
  <2>1. /\ stack[Len(stack)].vc = "SignInVC" <=> Len(stack) = 1
        /\ stack[Len(stack)].vc = "SignUpVC" => Len(stack) = 2
    BY <1>1 DEF StackOK, StackShape
  <2> QED
    BY <2>1 DEF TopFrame
<1>3. ASSUME NEW i \in 1..Len(stack)
      PROVE  stack[i].vc \in {"SignInVC", "SignUpVC"}
  <2>1. i = 1 \/ i = Len(stack)
    <3>1. Len(stack) = 1 \/ Len(stack) = 2
      BY <1>2
    <3>2. \A n \in Nat : \A k \in 1..n : (n = 1 \/ n = 2) => (k = 1 \/ k = n)
      OBVIOUS
    <3> QED
      BY <1>1, <3>1, <3>2
  <2>2. stack[1].vc = "SignInVC"
    BY <1>1 DEF StackOK, StackShape
  <2> QED
    BY <2>1, <2>2 DEF TopFrame
<1> QED
  BY <1>2, <1>3 DEF AllOutside, Inside

\* Without screens of the inside there are no lists and no accounts shown.
LEMMA OutsideOwn ==
  ASSUME StackOK, AllOutside
  PROVE  /\ Lists = {}
         /\ \A i \in 1..Len(stack) : stack[i].uid = NoUser
         /\ Clean
<1>1. \A i \in 1..Len(stack) : stack[i].vc \notin {"BorrowersTVC", "PaymentsTVC"}
  BY DEF AllOutside, Inside
<1>2. Len(stack) \in Nat
  BY LenProperties DEF StackOK
<1>3. Len(stack) > 1 => stack[2].vc # "BorrowersTVC"
  BY <1>1, <1>2
<1> QED
  BY <1>1, <1>3 DEF Lists, StackOK, Clean

\* Orphaning leaves no block that could push from a SignUpVC, and neither
\* makes nor loses a request.
LEMMA Orphaned ==
  ASSUME RestOK, OrphanSignUps
  PROVE  /\ \A r \in requests' : r.from # "SignUpVC"
         /\ \A i \in 1..Len(mainQueue') : mainQueue'[i].from # "SignUpVC"
         /\ (\A r, q \in requests : r = q) => \A r, q \in requests' : r = q
         /\ requests = {} <=> requests' = {}
         /\ Len(mainQueue') = Len(mainQueue)
         /\ \A i \in 1..Len(mainQueue) : /\ mainQueue'[i].error = mainQueue[i].error
                                         /\ mainQueue'[i].email = mainQueue[i].email
<1>1. \A r \in Request : Orphan(r).from # "SignUpVC"
  BY DEF Orphan, Request
<1>2. \A b \in Block : /\ Orphan(b).from # "SignUpVC"
                       /\ Orphan(b).error = b.error /\ Orphan(b).email = b.email
  BY DEF Orphan, Block
<1>3. requests \subseteq Request /\ mainQueue \in Seq(Block)
  BY DEF RestOK
<1>4. Len(mainQueue') = Len(mainQueue)
  BY OrphanType
<1>5. \A i \in 1..Len(mainQueue) : mainQueue[i] \in Block
  BY <1>3, ElementOfSeq
<1>6. \A i \in 1..Len(mainQueue) : mainQueue'[i] = Orphan(mainQueue[i])
  BY <1>3, LenProperties DEF OrphanSignUps
<1>7. requests' = {Orphan(r) : r \in requests}
  BY DEF OrphanSignUps
<1> QED
  BY <1>1, <1>2, <1>3, <1>4, <1>5, <1>6, <1>7

\* When nothing is pending OneAtATime holds, whatever is on the stack.
LEMMA QuietOneAtATime ==
  ASSUME requests = {}, mainQueue = <<>>
  PROVE  OneAtATime
<1>1. Len(mainQueue) = 0
  BY EmptySeq
<1> QED
  BY <1>1 DEF OneAtATime

\* Answers: the request moves to the main queue and sets currentUser.
LEMMA ServerSInv ==
  ASSUME SessionInvariant, SequentialInvariant, Server
  PROVE  SequentialInvariant'
<1>1. StackOK /\ RestOK /\ SignUpSecond /\ (overlapped = "no" => SeqInv)
  BY IInvParts, SInvParts
<1>2. PICK r \in requests : AuthSignsIn(r) \/ AuthCreatesUser(r) \/ AuthFails(r)
  BY DEF Server
<1>3. PICK error \in {"none", "some"} : /\ Answer(r, error)
                                        /\ error = "none" => currentUser' = r.email
  BY <1>2 DEF AuthSignsIn, AuthCreatesUser, AuthFails
<1> DEFINE b == [id |-> r.id, from |-> r.from, email |-> r.email, error |-> error]
<1>4. b \in Block /\ b.from = r.from /\ b.email = r.email /\ b.error = error
  BY <1>1 DEF RestOK, Request, Block
<1>5. mainQueue \in Seq(Block) /\ Len(mainQueue) \in Nat /\ mainQueue' = Append(mainQueue, b)
  BY <1>1, <1>3, LenProperties DEF RestOK, Answer
<1> HIDE DEF b
<1>6. /\ Len(mainQueue') = Len(mainQueue) + 1
      /\ \A i \in 1..Len(mainQueue) : mainQueue'[i] = mainQueue[i]
      /\ mainQueue'[Len(mainQueue) + 1] = b
  BY <1>4, <1>5, AppendProperties
<1>7. requests' = requests \ {r} /\ UNCHANGED <<stack, form, crashed, overlapped, lastWrite>>
  BY <1>3 DEF Answer
<1>8. SignUpSecond'
  <2>1. CASE Len(stack) > 1 /\ stack[2].vc = "SignUpVC"
    BY <1>7, <2>1 DEF SignUpSecond
  <2>2. CASE ~(Len(stack) > 1 /\ stack[2].vc = "SignUpVC")
    <3>1. r.from # "SignUpVC" /\ \A i \in 1..Len(mainQueue) : mainQueue[i].from # "SignUpVC"
      BY <1>1, <2>2 DEF SignUpSecond
    <3>2. \A i \in 1..Len(mainQueue') : mainQueue'[i].from # "SignUpVC"
      BY <1>4, <1>5, <1>6, <3>1
    <3> QED
      BY <1>1, <1>7, <2>2, <3>2 DEF SignUpSecond
  <2> QED
    BY <2>1, <2>2
<1>9. ASSUME overlapped = "no" PROVE SeqInv'
  <2>1. SeqInv /\ requests = {r} /\ mainQueue = <<>> /\ AllOutside
    BY <1>1, <1>9, <1>2 DEF SeqInv, OneAtATime, AllOutside
  <2>2. Lists = {} /\ \A i \in 1..Len(stack) : stack[i].uid = NoUser
    BY <1>1, <2>1, OutsideOwn
  <2>3. crashed' = "no" /\ Own' /\ Clean'
    BY <1>7, <2>1, <2>2 DEF SeqInv, Own, Clean, Lists, form
  <2>4. Len(mainQueue) = 0
    BY <2>1, EmptySeq
  <2>5. Len(mainQueue') = 1 /\ mainQueue'[1] = b
    BY <1>6, <2>4
  <2>6. requests' = {}
    BY <1>7, <2>1
  <2>7. OneAtATime'
    BY <1>3, <1>4, <1>7, <2>1, <2>5, <2>6 DEF OneAtATime, AllOutside
  <2> QED
    BY <2>3, <2>7 DEF SeqInv
<1> QED
  BY <1>7, <1>8, <1>9 DEF SequentialInvariant, SeqInv, Own, Clean, SequentialNeverTraps,
       SequentialLists, SequentialFormClean

\* Blocks: the one block that waits finds its user and no list.
LEMMA MainThreadSInv ==
  ASSUME SessionInvariant, SequentialInvariant, MainThread
  PROVE  SequentialInvariant'
<1>1. StackOK /\ RestOK /\ SignUpSecond /\ (overlapped = "no" => SeqInv)
  BY IInvParts, SInvParts
<1>2. PICK from \in {"SignInVC", "SignUpVC", "gone"}, error \in {"none", "some"} :
        /\ RunBlock(from, error)
        /\ \/ UNCHANGED <<stack, crashed>> /\ password' = password
           \/ /\ ShowBorrowers
              /\ error = "none"
              /\ from = "SignUpVC" \/ (password' = "" /\ emailErrorLabel' = "")
  BY DEF MainThread, SignInFailed, SignInSucceeded, SignUpFailed,
         SignUpSucceeded, OrphanedBlock, form
<1>3. /\ mainQueue \in Seq(Block) /\ mainQueue # <<>> /\ Len(mainQueue) \in Nat
      /\ mainQueue' = Tail(mainQueue)
      /\ Head(mainQueue).from = from /\ Head(mainQueue).error = error
      /\ Head(mainQueue) = mainQueue[1]
  <2>1. mainQueue \in Seq(Block)
    BY <1>1 DEF RestOK
  <2>2. /\ mainQueue # <<>> /\ mainQueue' = Tail(mainQueue)
        /\ Head(mainQueue).from = from /\ Head(mainQueue).error = error
    BY <1>2 DEF RunBlock
  <2>3. Len(mainQueue) \in Nat /\ Head(mainQueue) = mainQueue[1]
    BY <2>1, LenProperties
  <2> QED
    BY <2>1, <2>2, <2>3
<1>4. /\ Len(mainQueue') = Len(mainQueue) - 1 /\ Len(mainQueue') \in Nat
      /\ \A i \in 1..Len(mainQueue') : mainQueue'[i] = mainQueue[i + 1]
      /\ mainQueue' \in Seq(Block)
  BY <1>3, HeadTailProperties, LenProperties
<1>5. UNCHANGED <<currentUser, requests, overlapped, lastWrite>>
  BY <1>2 DEF RunBlock, auth
<1>6. currentUser \in Account \cup {NoUser}
  BY <1>1 DEF RestOK
<1>7. \/ UNCHANGED <<stack, crashed>>
      \/ /\ currentUser # NoUser
         /\ stack' = Append(stack, Show("BorrowersTVC", currentUser))
         /\ UNCHANGED crashed
      \/ currentUser = NoUser /\ UNCHANGED stack
  BY <1>2 DEF ShowBorrowers
<1>8. SignUpSecond'
  <2>1. \A i \in 1..Len(mainQueue') : i + 1 \in 1..Len(mainQueue) /\ mainQueue'[i] = mainQueue[i + 1]
    BY <1>3, <1>4
  <2>2. (Len(stack) > 1 /\ stack[2].vc = "SignUpVC") => Len(stack') > 1 /\ stack'[2].vc = "SignUpVC"
    <3>1. CASE UNCHANGED stack
      BY <3>1
    <3>2. CASE stack' = Append(stack, Show("BorrowersTVC", currentUser))
      BY <1>1, <1>6, <3>2, Pushed DEF Screen, Inside
    <3> QED
      BY <1>7, <3>1, <3>2
  <2> QED
    BY <1>1, <1>5, <2>1, <2>2 DEF SignUpSecond
<1>9. ASSUME overlapped = "no" PROVE SeqInv'
  <2>1. SeqInv /\ Len(mainQueue) = 1 /\ requests = {} /\ AllOutside
    <3>1. Len(mainQueue) # 0
      BY <1>3, EmptySeq
    <3>2. SeqInv /\ OneAtATime /\ mainQueue # <<>>
      BY <1>1, <1>3, <1>9 DEF SeqInv
    <3>3. requests = {} /\ AllOutside
      BY <3>2 DEF OneAtATime, AllOutside
    <3>4. Len(mainQueue) <= 1
      BY <3>2 DEF OneAtATime
    <3>5. Len(mainQueue) \in Nat
      BY <1>3
    <3>6. \A n \in Nat : n # 0 /\ n <= 1 => n = 1
      OBVIOUS
    <3>7. Len(mainQueue) = 1
      BY <3>1, <3>4, <3>5, <3>6
    <3> QED
      BY <3>2, <3>3, <3>7
  <2>2. mainQueue' = <<>>
    BY <1>4, <2>1, EmptySeq
  <2>3. OneAtATime'
    BY <1>5, <2>1, <2>2, QuietOneAtATime, EmptySeq DEF OneAtATime
  <2>4. Lists = {} /\ \A i \in 1..Len(stack) : stack[i].uid = NoUser
    BY <1>1, <2>1, OutsideOwn
  <2>5. error = "none" => currentUser \in Account /\ currentUser # NoUser
    <3>1. 1 \in 1..Len(mainQueue) /\ mainQueue[1] \in Block
      BY <1>3, <2>1, ElementOfSeq
    <3>2. error = "none" => currentUser = mainQueue[1].email
      BY <1>3, <2>1, <3>1 DEF SeqInv, OneAtATime
    <3> QED
      BY <3>1, <3>2, NoUserAssumption DEF Block
  <2>6. CASE UNCHANGED <<stack, crashed>>
    <3>1. crashed' = "no" /\ Own'
      BY <1>5, <2>1, <2>4, <2>6 DEF SeqInv, Own, Lists
    <3>2. Clean'
      <4>1. Len(stack) > 1 => stack[2].vc # "BorrowersTVC"
        <5>1. Len(stack) \in Nat
          BY <1>1, LenProperties DEF StackOK
        <5> QED
          BY <2>1, <5>1 DEF AllOutside, Inside
      <4> QED
        BY <2>6, <4>1 DEF Clean
    <3> QED
      BY <2>3, <3>1, <3>2 DEF SeqInv
  <2>7. CASE ~UNCHANGED <<stack, crashed>>
    <3>1. ShowBorrowers /\ error = "none"
      BY <1>2, <2>7
    <3>2. stack' = Append(stack, Show("BorrowersTVC", currentUser)) /\ UNCHANGED crashed
      BY <2>5, <3>1 DEF ShowBorrowers
    <3>3. /\ Len(stack) \in Nat /\ Len(stack) > 0
          /\ Len(stack') = Len(stack) + 1
          /\ \A i \in 1..Len(stack) : stack'[i] = stack[i]
          /\ stack'[Len(stack) + 1].vc = "BorrowersTVC"
          /\ stack'[Len(stack) + 1].uid = currentUser
      BY <1>1, <1>6, <3>2, Pushed DEF Screen, Inside
    <3>4. ASSUME NEW i \in 1..Len(stack')
          PROVE  /\ stack'[i].vc = "BorrowersTVC" => i = Len(stack) + 1
                 /\ stack'[i].uid \in {currentUser, NoUser}
      BY <2>4, <3>3 DEF Lists
    <3>5. Own'
      BY <1>5, <2>1, <3>4 DEF SeqInv, Own, Lists
    <3>6. Clean'
      <4>1. CASE from = "SignUpVC"
        <5>1. Len(stack) > 1 /\ stack[2].vc = "SignUpVC"
          BY <1>1, <1>3, <2>1, <4>1 DEF SignUpSecond
        <5>2. stack'[2] = stack[2]
          BY <3>3, <5>1
        <5> QED
          BY <5>1, <5>2 DEF Clean
      <4>2. CASE from # "SignUpVC"
        BY <1>2, <2>7, <4>2 DEF Clean
      <4> QED
        BY <4>1, <4>2
    <3> QED
      BY <2>1, <2>3, <3>2, <3>5, <3>6 DEF SeqInv
  <2> QED
    BY <2>6, <2>7
<1> QED
  BY <1>5, <1>8, <1>9 DEF SequentialInvariant, SeqInv, Own, Clean, SequentialNeverTraps,
       SequentialLists, SequentialFormClean

\* A request that does not overlap leaves from outside, with none pending.
LEMMA SendSInv ==
  ASSUME SessionInvariant, SequentialInvariant, NEW from \in {"SignInVC", "SignUpVC"}, NEW email, NEW pw,
         Send(from, email, pw), TopFrame.vc = from
  PROVE  SequentialInvariant'
<1>1. StackOK /\ RestOK /\ SignUpSecond /\ (overlapped = "no" => SeqInv)
  BY IInvParts, SInvParts
<1>2. /\ AllOutside
      /\ from = "SignUpVC" => Len(stack) = 2 /\ stack[2].vc = "SignUpVC"
  BY <1>1, OutsideTop
<1> DEFINE r == [id |-> attempts', from |-> from, email |-> email, password |-> pw]
<1>3. requests' = requests \cup {r} /\ r.from = from
  BY DEF Send
<1>4. UNCHANGED <<currentUser, stack, password, emailErrorLabel, mainQueue, crashed, lastWrite>>
  BY DEF Send, auth, form
<1>5. overlapped' = "no" => overlapped = "no" /\ requests = {} /\ mainQueue = <<>>
  BY DEF Send
<1> HIDE DEF r
<1>6. SignUpSecond'
  <2>1. CASE from = "SignUpVC"
    <3>1. Len(stack) > 1 /\ stack[2].vc = "SignUpVC"
      BY <1>2, <2>1
    <3> QED
      BY <1>4, <3>1 DEF SignUpSecond
  <2>2. CASE from # "SignUpVC"
    BY <1>1, <1>3, <1>4, <2>2 DEF SignUpSecond
  <2> QED
    BY <2>1, <2>2
<1>7. ASSUME overlapped' = "no" PROVE SeqInv'
  <2>1. SeqInv /\ requests' = {r} /\ mainQueue' = <<>>
    BY <1>1, <1>3, <1>4, <1>5, <1>7
  <2>2. crashed' = "no" /\ Own' /\ Clean'
    <3>1. crashed = "no" /\ Own /\ Clean
      BY <2>1 DEF SeqInv
    <3>2. Own'
      BY <1>4, <3>1 DEF Own, Lists
    <3>3. Clean'
      BY <1>4, <3>1 DEF Clean
    <3> QED
      BY <1>4, <3>1, <3>2, <3>3
  <2>3. Len(mainQueue') = 0
    BY <2>1, EmptySeq
  <2>4. OneAtATime'
    BY <1>2, <1>4, <2>1, <2>3 DEF OneAtATime, AllOutside
  <2> QED
    BY <2>2, <2>4 DEF SeqInv
<1> QED
  BY <1>6, <1>7 DEF SequentialInvariant, SeqInv, Own, Clean, SequentialNeverTraps,
       SequentialLists, SequentialFormClean

\* Above a screen of the inside nothing is pending.
LEMMA OpenSInv ==
  ASSUME SessionInvariant, SequentialInvariant, NEW from \in Inside, NEW vc \in Inside \ {"BorrowersTVC"},
         NEW uid \in {currentUser, NoUser}, Open(from, vc, uid)
  PROVE  SequentialInvariant'
<1>1. StackOK /\ RestOK /\ SignUpSecond /\ (overlapped = "no" => SeqInv)
  BY IInvParts, SInvParts
<1>2. TopFrame.vc \in Inside /\ uid \in Account \cup {NoUser} /\ vc \in Screen
  BY <1>1 DEF Open, OnTop, RestOK, Screen
<1>3. /\ Len(stack) \in Nat /\ Len(stack) > 0
      /\ Len(stack') = Len(stack) + 1
      /\ \A i \in 1..Len(stack) : stack'[i] = stack[i]
      /\ stack'[Len(stack) + 1].vc = vc /\ stack'[Len(stack) + 1].uid = uid
  BY <1>1, <1>2, Pushed DEF Open
<1>4. UNCHANGED <<currentUser, password, emailErrorLabel, requests, mainQueue,
                  crashed, overlapped, lastWrite>>
  BY DEF Open, auth, form, pending
<1>5. SignUpSecond'
  BY <1>1, <1>3, <1>4 DEF SignUpSecond
<1>6. ASSUME overlapped = "no" PROVE SeqInv'
  <2>1. SeqInv
    BY <1>1, <1>6
  <2>2. requests = {} /\ mainQueue = <<>>
    <3>1. Len(stack) \in 1..Len(stack)
      BY <1>3
    <3> QED
      BY <1>2, <2>1, <3>1 DEF SeqInv, OneAtATime, TopFrame
  <2>3. OneAtATime'
    BY <1>4, <2>2, QuietOneAtATime, EmptySeq DEF OneAtATime
  <2>4. Lists' = Lists
    BY <1>3 DEF Lists
  <2>5. \A i \in 1..Len(stack') : stack'[i].uid \in {currentUser, NoUser}
    BY <1>3, <2>1 DEF SeqInv, Own
  <2>6. Own'
    BY <1>4, <2>1, <2>4, <2>5 DEF SeqInv, Own
  <2>7. Clean'
    <3>1. Len(stack) > 1 => stack'[2] = stack[2]
      BY <1>3
    <3>2. ~(Len(stack) > 1) => stack'[2].vc # "BorrowersTVC"
      <4>1. ~(Len(stack) > 1) => Len(stack) + 1 = 2
        BY <1>3
      <4> QED
        BY <1>3, <4>1
    <3>3. Clean
      BY <2>1 DEF SeqInv
    <3> QED
      BY <1>4, <3>1, <3>2, <3>3 DEF Clean
  <2> QED
    BY <1>4, <2>1, <2>3, <2>6, <2>7 DEF SeqInv
<1> QED
  BY <1>4, <1>5, <1>6 DEF SequentialInvariant, SeqInv, Own, Clean, SequentialNeverTraps,
       SequentialLists, SequentialFormClean

\* Popping a screen.
LEMMA PopSInv ==
  ASSUME SessionInvariant, SequentialInvariant, TopFrame.vc # "SignInVC", stack' = Pop(stack),
         UNCHANGED <<currentUser, password, emailErrorLabel, crashed, overlapped>>,
         IF TopFrame.vc = "SignUpVC" THEN OrphanSignUps
                                     ELSE UNCHANGED <<requests, mainQueue>>,
         SeqInv => lastWrite' = lastWrite \/ lastWrite'[1] = lastWrite'[2]
  PROVE  SequentialInvariant'
<1>1. StackOK /\ RestOK /\ SignUpSecond /\ (overlapped = "no" => SeqInv)
  BY IInvParts, SInvParts
<1>2. /\ Len(stack') = Len(stack) - 1 /\ Len(stack') \in Nat /\ Len(stack) \in Nat
      /\ \A i \in 1..Len(stack') : stack'[i] = stack[i] /\ i \in 1..Len(stack)
  <2>1. Len(stack) \in Nat
    BY <1>1, LenProperties DEF StackOK
  <2> QED
    BY <1>1, <2>1, PopStack
<1>3. SignUpSecond'
  <2>1. CASE TopFrame.vc = "SignUpVC"
    BY <1>1, <2>1, Orphaned DEF SignUpSecond
  <2>2. CASE TopFrame.vc # "SignUpVC"
    <3>1. (Len(stack) > 1 /\ stack[2].vc = "SignUpVC") => Len(stack) # 2
      BY <2>2 DEF TopFrame
    <3>2. (Len(stack) > 1 /\ stack[2].vc = "SignUpVC") =>
            Len(stack') > 1 /\ stack'[2].vc = "SignUpVC"
      BY <1>2, <3>1
    <3> QED
      BY <1>1, <2>2, <3>2 DEF SignUpSecond
  <2> QED
    BY <2>1, <2>2
<1>4. ASSUME overlapped = "no" PROVE SeqInv'
  <2>1. SeqInv
    BY <1>1, <1>4
  <2>2. Lists' \subseteq Lists
    BY <1>2 DEF Lists
  <2>3. \A i \in 1..Len(stack') : stack'[i].uid \in {currentUser, NoUser}
    BY <1>2, <2>1 DEF SeqInv, Own
  <2>4. Own'
    BY <2>1, <2>2, <2>3 DEF SeqInv, Own
  <2>5. Clean'
    <3>1. Len(stack') > 1 => Len(stack) > 1 /\ stack'[2] = stack[2]
      BY <1>2
    <3>2. Clean
      BY <2>1 DEF SeqInv
    <3> QED
      BY <3>1, <3>2 DEF Clean
  <2>6. OneAtATime'
    <3>1. CASE TopFrame.vc = "SignUpVC"
      <4>1. AllOutside
        BY <1>1, <3>1, OutsideTop
      <4>2. \A i \in 1..Len(stack') : stack'[i].vc \notin Inside
        BY <1>2, <4>1 DEF AllOutside
      <4>3. /\ \A r, q \in requests : r = q
            /\ requests # {} => mainQueue = <<>>
            /\ Len(mainQueue) <= 1
            /\ \A i \in 1..Len(mainQueue) :
                 mainQueue[i].error = "none" => currentUser = mainQueue[i].email
        BY <2>1 DEF SeqInv, OneAtATime
      <4>4. /\ \A r, q \in requests' : r = q
            /\ requests = {} <=> requests' = {}
            /\ Len(mainQueue') = Len(mainQueue)
            /\ \A i \in 1..Len(mainQueue) : /\ mainQueue'[i].error = mainQueue[i].error
                                            /\ mainQueue'[i].email = mainQueue[i].email
        BY <1>1, <3>1, <4>3, Orphaned
      <4>5. mainQueue = <<>> => mainQueue' = <<>>
        <5>1. mainQueue' \in Seq(Block)
          BY <1>1, <3>1, OrphanType
        <5> QED
          BY <4>4, <5>1, EmptySeq
      <4> QED
        BY <4>2, <4>3, <4>4, <4>5 DEF OneAtATime
    <3>2. CASE TopFrame.vc # "SignUpVC"
      BY <1>2, <2>1, <3>2 DEF SeqInv, OneAtATime
    <3> QED
      BY <3>1, <3>2
  <2> QED
    BY <2>1, <2>4, <2>5, <2>6 DEF SeqInv
<1> QED
  BY <1>3, <1>4 DEF SequentialInvariant, SeqInv, Own, Clean, SequentialNeverTraps,
       SequentialLists, SequentialFormClean

\* The user's taps.
LEMMA UserSInv ==
  ASSUME SessionInvariant, SequentialInvariant, User
  PROVE  SequentialInvariant'
<1>1. StackOK /\ RestOK /\ UserWhileInside /\ SignUpSecond /\ (overlapped = "no" => SeqInv)
  BY IInvParts, SInvParts
<1>2. CASE \E p \in {"", "right", "wrong"} : EditPassword(p)
  <2>1. /\ UNCHANGED <<currentUser, stack, requests, mainQueue, crashed, overlapped, lastWrite>>
        /\ TopFrame.vc = "SignInVC"
    BY <1>2 DEF EditPassword, OnTop, auth, pending
  <2>2. Len(stack) = 1
    BY <1>1, <2>1, OutsideTop
  <2>3. SignUpSecond' /\ Clean'
    BY <1>1, <2>1, <2>2 DEF SignUpSecond, Clean
  <2>4. SeqInv => crashed' = "no" /\ Own' /\ OneAtATime'
    BY <2>1 DEF SeqInv, Own, Lists, OneAtATime
  <2> QED
    BY <1>1, <2>1, <2>3, <2>4 DEF SequentialInvariant, Own, Clean, SequentialNeverTraps,
         SequentialLists, SequentialFormClean
<1>3. CASE \E email \in Account : SignInButtonTapped(email)
  BY <1>3, SendSInv DEF SignInButtonTapped, OnTop
<1>4. CASE \E email \in Account : CreateAccountButtonTapped(email)
  BY <1>4, SendSInv DEF CreateAccountButtonTapped, OnTop
<1>5. CASE SignUpButtonTapped
  <2>1. /\ UNCHANGED <<currentUser, requests, mainQueue, crashed, overlapped, lastWrite>>
        /\ TopFrame.vc = "SignInVC" /\ stack' = Append(stack, Show("SignUpVC", NoUser))
    BY <1>5 DEF SignUpButtonTapped, OnTop, auth, pending
  <2>2. Len(stack) = 1 /\ AllOutside
    BY <1>1, <2>1, OutsideTop
  <2>3. /\ Len(stack') = Len(stack) + 1
        /\ \A i \in 1..Len(stack) : stack'[i] = stack[i]
        /\ stack'[Len(stack) + 1].vc = "SignUpVC" /\ stack'[Len(stack) + 1].uid = NoUser
    BY <1>1, <2>1, Pushed DEF Screen
  <2>4. Len(stack') = 2 /\ stack'[1] = stack[1] /\ stack'[2].vc = "SignUpVC" /\ stack'[2].uid = NoUser
    BY <2>2, <2>3
  <2>5. /\ stack[1].vc \notin Inside /\ stack[1].uid = NoUser
    BY <1>1, <2>2, OutsideOwn DEF AllOutside
  <2>6. \A i \in 1..Len(stack') : stack'[i].vc \notin Inside /\ stack'[i].uid = NoUser
    BY <2>4, <2>5 DEF Inside
  <2>7. SignUpSecond' /\ Clean'
    BY <2>4 DEF SignUpSecond, Clean
  <2>8. Lists' = {}
    BY <2>6 DEF Lists, Inside
  <2>9. SeqInv => crashed' = "no" /\ Own' /\ OneAtATime'
    BY <2>1, <2>6, <2>8 DEF SeqInv, Own, OneAtATime
  <2> QED
    BY <1>1, <2>1, <2>7, <2>9 DEF SequentialInvariant, Own, Clean, SequentialNeverTraps,
         SequentialLists, SequentialFormClean
<1>6. CASE AddButtonTapped
  BY <1>6, OpenSInv DEF AddButtonTapped, Inside
<1>7. CASE DidSelectRowAt
  BY <1>7, OpenSInv DEF DidSelectRowAt, Inside
<1>8. CASE ShowPayments
  <2>1. currentUser # NoUser
    BY <1>1, <1>8, TopInside DEF ShowPayments, Open, OnTop, Inside
  <2> QED
    BY <1>8, <2>1, OpenSInv DEF ShowPayments, Inside
<1>9. CASE AddBorrowerButtonTapped
  <2>1. TopFrame.vc = "AddBorrowerVC"
    BY <1>9 DEF AddBorrowerButtonTapped, WriteBorrower, OnTop
  <2>2. currentUser # NoUser
    BY <1>1, <2>1, TopInside DEF Inside
  <2>3. /\ stack' = Pop(stack)
        /\ UNCHANGED <<currentUser, password, emailErrorLabel, requests, mainQueue, crashed, overlapped>>
        /\ lastWrite' = <<currentUser, stack[Len(stack) - 1].uid>>
    BY <1>9, <2>2 DEF AddBorrowerButtonTapped, WriteBorrower, auth, form, pending
  <2>4. Len(stack) - 1 \in 1..Len(stack) /\ stack[Len(stack) - 1].vc = "BorrowersTVC"
    <3>1. Len(stack) \in Nat /\ Len(stack) \in 1..Len(stack)
      BY <1>1, LenProperties DEF StackOK, StackShape
    <3>2. Len(stack) > 1 /\ stack[Len(stack) - 1].vc = "BorrowersTVC"
      BY <1>1, <2>1, <3>1 DEF StackOK, StackShape, TopFrame
    <3> QED
      BY <3>1, <3>2
  <2>5. stack[Len(stack) - 1].uid # NoUser
    BY <1>1, <2>4 DEF StackOK
  <2>6. SeqInv => stack[Len(stack) - 1].uid = currentUser
    BY <2>4, <2>5 DEF SeqInv, Own
  <2>7. SeqInv => lastWrite'[1] = lastWrite'[2]
    BY <2>3, <2>6
  <2> QED
    BY <2>1, <2>3, <2>7, PopSInv
<1>10. CASE \E outcome \in {"ok", "error"} : LogoutButtonTapped(outcome)
  <2>1. /\ stack' = Root /\ OrphanSignUps /\ TopFrame.vc = "BorrowersTVC"
        /\ UNCHANGED <<password, emailErrorLabel, crashed, overlapped, lastWrite>>
    BY <1>10 DEF LogoutButtonTapped, LogoutTo, OnTop, form
  <2>2. /\ Len(stack') = 1
        /\ \A i \in 1..Len(stack') : stack'[i] = Show("SignInVC", NoUser)
    BY <2>1, RootStack
  <2>3. Lists' = {} /\ \A i \in 1..Len(stack') : stack'[i].uid = NoUser
    BY <2>2 DEF Lists, Show
  <2>4. SignUpSecond'
    BY <1>1, <2>1, Orphaned DEF SignUpSecond
  <2>5. Clean'
    <3>1. ~(Len(stack') > 1)
      BY <2>2
    <3> QED
      BY <3>1 DEF Clean
  <2>6. SeqInv => Own'
    BY <2>1, <2>3 DEF SeqInv, Own
  <2>7. SeqInv => OneAtATime'
    <3> SUFFICES ASSUME SeqInv PROVE OneAtATime'
      OBVIOUS
    <3>1. Len(stack) \in 1..Len(stack)
      BY <1>1, LenProperties DEF StackOK, StackShape
    <3>2. requests = {} /\ mainQueue = <<>>
      BY <2>1, <3>1 DEF SeqInv, OneAtATime, TopFrame, Inside
    <3>3. requests' = {} /\ Len(mainQueue') = 0
      BY <1>1, <2>1, <3>2, Orphaned, EmptySeq
    <3>4. mainQueue' = <<>>
      BY <1>1, <2>1, <3>3, OrphanType, EmptySeq
    <3> QED
      BY <3>3, <3>4 DEF OneAtATime
  <2> QED
    BY <1>1, <2>1, <2>4, <2>5, <2>6, <2>7 DEF SequentialInvariant, SeqInv, Own, Clean,
         SequentialNeverTraps, SequentialLists, SequentialFormClean
<1>11. CASE Back
  <2>1. /\ TopFrame.vc # "SignInVC" /\ stack' = Pop(stack)
        /\ UNCHANGED <<currentUser, password, emailErrorLabel, crashed, overlapped>>
        /\ UNCHANGED lastWrite
        /\ IF TopFrame.vc = "SignUpVC" THEN OrphanSignUps
                                       ELSE UNCHANGED <<requests, mainQueue>>
    BY <1>11 DEF Back, OnTop, auth, form, pending
  <2> QED
    BY <2>1, PopSInv
<1> QED
  BY <1>2, <1>3, <1>4, <1>5, <1>6, <1>7, <1>8, <1>9, <1>10, <1>11 DEF User

\* Launching.
LEMMA RestartSInv ==
  ASSUME Restart
  PROVE  SequentialInvariant'
<1>1. /\ Len(stack') = 1
      /\ \A i \in 1..Len(stack') : stack'[i] = Show("SignInVC", NoUser)
  BY RootStack DEF Restart
<1>2. Lists' = {} /\ \A i \in 1..Len(stack') : stack'[i].uid = NoUser
  BY <1>1 DEF Lists, Show
<1>3. requests' = {} /\ mainQueue' = <<>> /\ Len(mainQueue') = 0 /\ crashed' = "no" /\ lastWrite' = <<>>
  BY EmptySeq DEF Restart
<1>4. SignUpSecond' /\ OneAtATime'
  BY <1>3 DEF SignUpSecond, OneAtATime
<1>5. Own' /\ Clean'
  BY <1>1, <1>2, <1>3 DEF Own, Clean
<1> QED
  BY <1>3, <1>4, <1>5 DEF SequentialInvariant, Own, Clean, SequentialNeverTraps,
       SequentialLists, SequentialFormClean

\* At launch nothing is pending, so nothing overlaps.
LEMMA InitSInv == Init => SequentialInvariant
<1> SUFFICES ASSUME Init PROVE SequentialInvariant
  OBVIOUS
<1>1. stack = <<Show("SignInVC", NoUser)>>
  BY DEF Init, Root
<1>2. Len(stack) = 1 /\ stack[1] = Show("SignInVC", NoUser)
  BY <1>1
<1>3. Lists = {} /\ \A i \in 1..Len(stack) : stack[i].uid = NoUser
  BY <1>2 DEF Lists, Show
<1>4. requests = {} /\ mainQueue = <<>> /\ crashed = "no" /\ lastWrite = <<>>
  BY DEF Init
<1>5. Len(mainQueue) = 0
  BY <1>4, EmptySeq
<1>6. SignUpSecond /\ OneAtATime
  BY <1>4, <1>5 DEF SignUpSecond, OneAtATime
<1>7. Own /\ Clean
  BY <1>2, <1>3, <1>4 DEF Own, Clean
<1> QED
  BY <1>4, <1>6, <1>7, SInvParts DEF SeqInv

\* Every step keeps the sequential invariant.
LEMMA NextSInv == SessionInvariant /\ SequentialInvariant /\ [Next]_vars => SequentialInvariant'
<1> SUFFICES ASSUME SessionInvariant, SequentialInvariant, [Next]_vars PROVE SequentialInvariant'
  OBVIOUS
<1>1. CASE Next
  BY <1>1, UserSInv, ServerSInv, MainThreadSInv, RestartSInv DEF Next
<1>2. CASE UNCHANGED vars
  <2>1. UNCHANGED <<currentUser, requests, mainQueue, stack, crashed, overlapped, lastWrite>>
        /\ UNCHANGED form
    BY <1>2 DEF vars, auth, pending
  <2>2. SignUpSecond'
    BY <2>1 DEF SequentialInvariant, SignUpSecond
  <2>3. SequentialNeverTraps' /\ SequentialLists'
    BY <2>1 DEF SequentialInvariant, SequentialNeverTraps, SequentialLists, Lists
  <2>4. SequentialFormClean'
    BY <2>1 DEF SequentialInvariant, SequentialFormClean, form
  <2>5. overlapped' = "no" => OneAtATime'
    BY <2>1 DEF SequentialInvariant, OneAtATime
  <2> QED
    BY <2>2, <2>3, <2>4, <2>5 DEF SequentialInvariant
<1> QED
  BY <1>1, <1>2

\* The invariant behind the theorems about requests that do not overlap.
THEOREM SequentialInvariance == Spec => []SequentialInvariant
<1>1. Init => SequentialInvariant
  BY InitSInv
<1>2. SessionInvariant /\ SequentialInvariant /\ [Next]_vars => SequentialInvariant'
  BY NextSInv
<1> QED
  BY <1>1, <1>2, Invariance, PTL DEF Spec

\* The type invariant of sessions and the stack.
THEOREM TypeCorrect == Spec => []TypeOK
<1>1. SessionInvariant => TypeOK
  BY DEF SessionInvariant
<1> QED
  BY <1>1, Invariance, PTL

\* The navigation stack is well formed however late blocks push lists.
THEOREM StackWellFormed == Spec => []StackShape
<1>1. SessionInvariant => StackShape
  BY DEF SessionInvariant
<1> QED
  BY <1>1, Invariance, PTL

\* The unwraps of currentUser in AddBorrowerViewController,
\* BorrowerViewController and PaymentsTableViewController never trap.
THEOREM SignedInWhileInside == Spec => []UserWhileInside
<1>1. SessionInvariant => UserWhileInside
  BY DEF SessionInvariant
<1> QED
  BY <1>1, Invariance, PTL

\* Without overlapping requests the unwrap in retrieveBorrowersFromDatabase
\* never traps either.
THEOREM NoTrapWithoutOverlap == Spec => []SequentialNeverTraps
<1>1. SequentialInvariant => SequentialNeverTraps
  BY DEF SequentialInvariant
<1> QED
  BY <1>1, SequentialInvariance, PTL

\* Without overlapping requests there is at most one list, it shows the
\* signed-in account, and what is added from it is written there.
THEOREM OwnListWithoutOverlap == Spec => []SequentialLists
<1>1. SequentialInvariant => SequentialLists
  BY DEF SequentialInvariant
<1> QED
  BY <1>1, SequentialInvariance, PTL

\* Without overlapping requests Logout returns to an empty password field.
THEOREM FormCleanWithoutOverlap == Spec => []SequentialFormClean
<1>1. SequentialInvariant => SequentialFormClean
  BY DEF SequentialInvariant
<1> QED
  BY <1>1, SequentialInvariance, PTL
=============================================================================
