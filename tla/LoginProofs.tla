----------------------------- MODULE LoginProofs -----------------------------
(***************************************************************************)
(* What is proved of Login, for all sets of accounts, challenges and       *)
(* requests, and whatever the limits and lifetimes are.                    *)
(***************************************************************************)
EXTENDS Login, FiniteSetTheorems, TLAPS

-----------------------------------------------------------------------------
(* How requests move *)

StartPcs == {"limit", "check", "store", "rate", "send"}

VerifyPcs == {"check", "compare", "use", "clear", "incr", "expire", "lock", "reset"}

PasswordPcs == {"check", "compare", "clear", "incr", "expire", "lock", "reset"}

Pcs == StartPcs \cup VerifyPcs

Rest(r) == \A q \in Requests : q # r => request'[q] = request[q]

\* Request r goes on with what it knows.
Carried(r) ==
    /\ request'[r].op = request[r].op
    /\ request'[r].challenge = request[r].challenge
    /\ request'[r].account = request[r].account
    /\ request'[r].seen = request[r].seen
    /\ request'[r].right = request[r].right
    /\ request'[r].at = request[r].at

LEMMA FlyingTyped ==
  ASSUME TypeOK, NEW r \in Requests, InFlight(r)
  PROVE  request[r] \in InFlightStates
  BY DEF TypeOK, RequestStates, InFlight

LEMMA PcsTyped ==
  ASSUME TypeOK, NEW r \in Requests, InFlight(r)
  PROVE  request[r].pc \in Pcs
  BY FlyingTyped DEF InFlightStates, Pcs, StartPcs, VerifyPcs

\* A request that goes on.
LEMMA GotoEffect ==
  ASSUME TypeOK, NEW r \in Requests, InFlight(r), NEW pc \in Pcs, Goto(r, pc)
  PROVE  /\ request' \in [Requests -> RequestStates]
         /\ Rest(r) /\ Carried(r) /\ request'[r].pc = pc
         /\ request'[r].first = request[r].first
  <1>1. request[r] \in InFlightStates
    BY FlyingTyped
  <1>2. /\ [request[r] EXCEPT !.pc = pc] \in InFlightStates
        /\ [request[r] EXCEPT !.pc = pc].pc = pc
        /\ [request[r] EXCEPT !.pc = pc].op = request[r].op
        /\ [request[r] EXCEPT !.pc = pc].challenge = request[r].challenge
        /\ [request[r] EXCEPT !.pc = pc].account = request[r].account
        /\ [request[r] EXCEPT !.pc = pc].seen = request[r].seen
        /\ [request[r] EXCEPT !.pc = pc].right = request[r].right
        /\ [request[r] EXCEPT !.pc = pc].at = request[r].at
        /\ [request[r] EXCEPT !.pc = pc].first = request[r].first
    BY <1>1 DEF InFlightStates, Pcs, StartPcs, VerifyPcs
  <1>3. PICK state : state = [request[r] EXCEPT !.pc = pc]
    OBVIOUS
  <1>4. request' = [request EXCEPT ![r] = state]
    BY <1>3 DEF Goto
  <1>5. request'[r] = state /\ Rest(r)
    BY <1>4 DEF TypeOK, Rest
  <1>6. state \in RequestStates
    BY <1>2, <1>3 DEF RequestStates
  <1>7. request' \in [Requests -> RequestStates]
    BY <1>4, <1>6 DEF TypeOK
  <1> QED BY <1>2, <1>3, <1>5, <1>7 DEF Carried

\* A request that is answered.
LEMMA AnswerEffect ==
  ASSUME TypeOK, NEW r \in Requests, NEW a \in {"token", "temporary", "none"},
         Answer(r, a)
  PROVE  /\ request' \in [Requests -> RequestStates]
         /\ Rest(r) /\ request'[r].pc = "answered"
  <1>1. [pc |-> "answered", answer |-> a] \in RequestStates
    BY DEF RequestStates
  <1> QED BY <1>1 DEF Answer, TypeOK, Rest

\* A request that begins, with the row of its challenge.
LEMMA BeginEffect ==
  ASSUME TypeOK, NEW r \in Requests, NEW pc \in Pcs, NEW op \in Kinds,
         NEW c \in Challenges \cup {None}, NEW a \in Accounts, NEW right \in BOOLEAN,
         NEW at \in Nat, Begin(r, pc, op, c, a, right, at)
  PROVE  /\ request' \in [Requests -> RequestStates]
         /\ Rest(r)
         /\ request'[r].pc = pc /\ request'[r].op = op /\ request'[r].challenge = c
         /\ request'[r].account = a /\ request'[r].right = right
         /\ c \in Challenges => request'[r].seen = challenge[c]
  <1> DEFINE seen == IF c = None THEN None ELSE challenge[c]
  <1>1. seen \in Rows \cup {None}
    BY DEF TypeOK
  <1>2. PICK state : state = [pc |-> pc, op |-> op, challenge |-> c, account |-> a,
                              seen |-> seen, right |-> right, first |-> FALSE, at |-> at]
    OBVIOUS
  <1>3. request' = [request EXCEPT ![r] = state]
    BY <1>2 DEF Begin
  <1>4. state \in InFlightStates
    <2> HIDE DEF seen
    <2> QED BY <1>1, <1>2 DEF InFlightStates, Pcs, StartPcs, VerifyPcs
  <1>5. request' \in [Requests -> RequestStates] /\ request'[r] = state /\ Rest(r)
    BY <1>3, <1>4 DEF TypeOK, Rest, RequestStates
  <1>6. c \in Challenges => seen = challenge[c]
    BY LoginAssumption
  <1> QED
    <2> HIDE DEF seen
    <2> QED BY <1>2, <1>5, <1>6

-----------------------------------------------------------------------------
(* Type correctness *)

\* What the requests of each kind know.
StartShape(r, q) ==
    /\ q.op = "start" /\ r \in Starts /\ q.account \in Users
    /\ q.challenge \in Challenges /\ q.seen \in Rows /\ q.pc \in StartPcs

VerifyShape(r, q) ==
    /\ q.op = "verify" /\ r \in Verifications /\ q.account \in Users
    /\ q.challenge \in Challenges /\ q.seen \in Rows /\ q.pc \in VerifyPcs
    /\ q.seen.code \in Starts /\ q.seen.attempts < MaxAttempts
    /\ q.pc \in {"use", "clear"} => q.right

PasswordShape(r, q) == q.op = "password" /\ r \in Passwords /\ q.pc \in PasswordPcs

Shape(r, q) == StartShape(r, q) \/ VerifyShape(r, q) \/ PasswordShape(r, q)

Shapes == \A r \in Requests : InFlight(r) => Shape(r, request[r])

\* The row of a request's challenge exists, and a user in it stays some user.
PresentFor(q) ==
    q.op # "password" =>
        /\ challenge[q.challenge] # None
        /\ q.seen.user # None => challenge[q.challenge].user # None

Present == \A r \in Requests : InFlight(r) => PresentFor(request[r])

\* A code is somebody's.
Owned ==
    \A c \in Challenges :
        (challenge[c] # None /\ challenge[c].code # None) => challenge[c].user # None

IInv == TypeOK /\ Shapes /\ Present /\ Owned

LEMMA InitIInv == Init => IInv
  <1> SUFFICES ASSUME Init PROVE IInv
    OBVIOUS
  <1>1. TypeOK
    <2>1. now \in 0..MaxTime
      BY LoginAssumption DEF Init
    <2>2. account \in [Accounts -> {"active", "new", "inactive", "deleted"}]
      BY DEF Init
    <2>3. failures \in [Accounts -> [count : Nat, expires : Nat]]
      BY DEF Init, NoFailures
    <2>4. request \in [Requests -> RequestStates]
      <3>1. [pc |-> "unsent"] \in RequestStates
        BY DEF RequestStates
      <3> QED BY <3>1 DEF Init
    <2>5. /\ challenge \in [Challenges -> Rows \cup {None}]
          /\ locked \in [Accounts -> Nat] /\ rate \in [Users -> Nat]
          /\ sent \subseteq Starts \X Users
          /\ failed \in [Accounts -> SUBSET (Requests \X (0..MaxTime))]
          /\ tries \in [Challenges -> Nat]
          /\ overlapped \subseteq Kinds \X Challenges
          /\ broke \in BOOLEAN
      BY DEF Init
    <2>6. logins = {}
      BY DEF Init
    <2> QED BY <2>1, <2>2, <2>3, <2>4, <2>5, <2>6 DEF TypeOK
  <1>2. \A r \in Requests : ~InFlight(r)
    BY DEF Init, InFlight
  <1>3. Owned
    BY DEF Init, Owned
  <1> QED BY <1>1, <1>2, <1>3 DEF IInv, Shapes, Present

\* What a request of each kind is.
LEMMA Kind ==
  ASSUME IInv, NEW r \in Requests, InFlight(r)
  PROVE  /\ Shape(r, request[r]) /\ PresentFor(request[r])
         /\ request[r] \in InFlightStates /\ request[r].account \in Accounts
         /\ request[r].op \in Kinds
  BY FlyingTyped DEF IInv, Shapes, Present, InFlightStates

LEMMA CarriedShape ==
  ASSUME IInv, NEW r \in Requests, InFlight(r), Carried(r),
         request[r].op = "start" => request'[r].pc \in StartPcs,
         request[r].op = "verify" =>
            /\ request'[r].pc \in VerifyPcs
            /\ request'[r].pc \in {"use", "clear"} => request[r].right,
         request[r].op = "password" => request'[r].pc \in PasswordPcs
  PROVE  Shape(r, request'[r])
  <1>1. Shape(r, request[r])
    BY DEF IInv, Shapes
  <1>2. CASE StartShape(r, request[r])
    BY <1>2 DEF StartShape, Carried, Shape
  <1>3. CASE VerifyShape(r, request[r])
    BY <1>3 DEF VerifyShape, Carried, Shape
  <1>4. CASE PasswordShape(r, request[r])
    BY <1>4 DEF PasswordShape, Carried, Shape
  <1> QED BY <1>1, <1>2, <1>3, <1>4 DEF Shape

\* Every step of a request answers it or lets it go on in its own kind.
Moves(r) ==
    /\ InFlight(r) /\ Rest(r) /\ request' \in [Requests -> RequestStates]
    /\ request'[r].pc = "answered" \/ (Carried(r) /\ Shape(r, request'[r]))

LEMMA GotoMoves ==
  ASSUME IInv, NEW r \in Requests, InFlight(r), NEW pc \in Pcs, Goto(r, pc),
         request[r].op = "start" => pc \in StartPcs,
         request[r].op = "verify" =>
            pc \in VerifyPcs /\ (pc \in {"use", "clear"} => request[r].right),
         request[r].op = "password" => pc \in PasswordPcs
  PROVE  Moves(r) /\ Carried(r) /\ request'[r].pc = pc
  <1>1. /\ request' \in [Requests -> RequestStates]
        /\ Rest(r) /\ Carried(r) /\ request'[r].pc = pc
    BY GotoEffect DEF IInv
  <1>2. Shape(r, request'[r])
    BY <1>1, CarriedShape
  <1> QED BY <1>1, <1>2 DEF Moves

LEMMA AnswerMoves ==
  ASSUME IInv, NEW r \in Requests, InFlight(r), NEW a \in {"token", "temporary", "none"},
         Answer(r, a)
  PROVE  Moves(r) /\ request'[r].pc = "answered"
  BY AnswerEffect DEF IInv, Moves

\* The kind of a request by where it is.
LEMMA KindAt ==
  ASSUME IInv, NEW r \in Requests, InFlight(r)
  PROVE  /\ request[r].pc \in {"limit", "store", "rate", "send"} =>
               request[r].op = "start" /\ StartShape(r, request[r])
         /\ request[r].pc \in {"compare", "use", "clear", "incr", "expire", "lock", "reset"}
               => request[r].op \in {"verify", "password"}
         /\ request[r].pc = "use" => request[r].op = "verify"
         /\ request[r].op = "start" => StartShape(r, request[r])
         /\ request[r].op = "verify" => VerifyShape(r, request[r])
         /\ request[r].op = "password" => PasswordShape(r, request[r])
         /\ request[r].op \in {"start", "verify", "password"}
  <1>1. Shape(r, request[r])
    BY DEF IInv, Shapes
  <1>2. CASE StartShape(r, request[r])
    BY <1>2 DEF StartShape, StartPcs
  <1>3. CASE VerifyShape(r, request[r])
    BY <1>3 DEF VerifyShape, VerifyPcs
  <1>4. CASE PasswordShape(r, request[r])
    BY <1>4 DEF PasswordShape, PasswordPcs
  <1> QED BY <1>1, <1>2, <1>3, <1>4 DEF Shape

LEMMA PasswordMoves ==
  ASSUME IInv, NEW r \in Requests, ComparePassword(r)
  PROVE  Moves(r)
  <1>1. InFlight(r) /\ request[r].op = "password"
    BY DEF ComparePassword, At, InFlight
  <1>2. CASE Goto(r, "incr")
    BY <1>1, <1>2, GotoMoves DEF Pcs, VerifyPcs, PasswordPcs
  <1>3. CASE Answer(r, "none")
    BY <1>1, <1>3, AnswerMoves
  <1>4. CASE request' = [request EXCEPT ![r].pc = "clear",
                  ![r].first = account[request[r].account] = "new"]
    <2>1. PICK first \in BOOLEAN : first = (account[request[r].account] = "new")
      OBVIOUS
    <2>2. PICK state : state = [request[r] EXCEPT !.pc = "clear", !.first = first]
      OBVIOUS
    <2>3. request' = [request EXCEPT ![r] = state]
      BY <1>4, <2>1, <2>2
    <2>4. request[r] \in InFlightStates
      BY <1>1, FlyingTyped DEF IInv
    <2>5. /\ state \in InFlightStates /\ state.pc = "clear"
          /\ state.op = request[r].op /\ state.challenge = request[r].challenge
          /\ state.account = request[r].account /\ state.seen = request[r].seen
          /\ state.right = request[r].right /\ state.at = request[r].at
      BY <2>2, <2>4 DEF InFlightStates
    <2>6. /\ request' \in [Requests -> RequestStates]
          /\ request'[r] = state /\ Rest(r)
      BY <2>3, <2>5 DEF IInv, TypeOK, Rest, RequestStates
    <2>7. Carried(r)
      BY <2>5, <2>6 DEF Carried
    <2>8. Shape(r, request'[r])
      BY <1>1, <2>5, <2>6, <2>7, CarriedShape DEF PasswordPcs
    <2> QED BY <1>1, <2>6, <2>7, <2>8 DEF Moves
  <1> QED BY <1>2, <1>3, <1>4 DEF ComparePassword

LEMMA CountMoves ==
  ASSUME IInv, NEW r \in Requests, InFlight(r), request[r].op # "start",
         NEW n, CompareCount(r, n)
  PROVE  Moves(r) /\ (request'[r].pc = "lock" \/ n < Threshold \/ n \notin Nat)
  <1>1. CASE n >= Threshold
    <2>1. Goto(r, "lock")
      BY <1>1 DEF CompareCount
    <2> QED BY <2>1, GotoMoves DEF Pcs, VerifyPcs, PasswordPcs
  <1>2. CASE ~(n >= Threshold)
    <2>1. Moves(r)
      BY <1>2, AnswerMoves DEF CompareCount
    <2>2. n \in Nat => n < Threshold
      BY <1>2, LoginAssumption
    <2> QED BY <2>1, <2>2
  <1> QED BY <1>1, <1>2

LEMMA StepMoves ==
  ASSUME IInv, NEW r \in Requests, Step(r)
  PROVE  Moves(r)
  <1> USE DEF At
  <1>1. CASE CheckRate(r)
    <2>1. InFlight(r) /\ request[r].op = "start"
      BY <1>1, KindAt DEF CheckRate, InFlight
    <2> QED BY <1>1, <2>1, GotoMoves, AnswerMoves DEF CheckRate, Pcs, StartPcs
  <1>2. CASE StoreCode(r)
    <2>1. InFlight(r) /\ request[r].op = "start"
      BY <1>2, KindAt DEF StoreCode, InFlight
    <2> QED BY <1>2, <2>1, GotoMoves DEF StoreCode, Pcs, StartPcs
  <1>3. CASE SetRate(r)
    <2>1. InFlight(r) /\ request[r].op = "start"
      BY <1>3, KindAt DEF SetRate, InFlight
    <2> QED BY <1>3, <2>1, GotoMoves DEF SetRate, Pcs, StartPcs
  <1>4. CASE SendCode(r)
    <2>1. InFlight(r)
      BY <1>4 DEF SendCode, InFlight
    <2> QED BY <1>4, <2>1, AnswerMoves DEF SendCode
  <1>5. CASE CheckLock(r)
    <2>1. InFlight(r)
      BY <1>5 DEF CheckLock, InFlight
    <2>2. CASE Answer(r, "none")
      BY <2>1, <2>2, AnswerMoves
    <2>3. CASE request[r].op = "start" /\ Goto(r, "store")
      BY <2>1, <2>3, GotoMoves DEF Pcs, StartPcs
    <2>4. CASE request[r].op # "start" /\ Goto(r, "compare")
      BY <2>1, <2>4, GotoMoves DEF Pcs, VerifyPcs, PasswordPcs
    <2> QED BY <1>5, <2>2, <2>3, <2>4 DEF CheckLock
  <1>6. CASE WrongCode(r)
    <2>1. InFlight(r) /\ request[r].op = "verify"
      BY <1>6 DEF WrongCode, InFlight
    <2> QED BY <1>6, <2>1, GotoMoves DEF WrongCode, Pcs, VerifyPcs
  <1>7. CASE RightCode(r)
    <2>1. InFlight(r) /\ request[r].op = "verify" /\ request[r].right
      BY <1>7 DEF RightCode, InFlight
    <2> QED BY <1>7, <2>1, GotoMoves, AnswerMoves DEF RightCode, Pcs, VerifyPcs
  <1>8. CASE UseChallenge(r)
    <2>1. InFlight(r) /\ request[r].op = "verify"
      BY <1>8, KindAt DEF UseChallenge, InFlight
    <2>2. request[r].right
      BY <1>8, <2>1, KindAt DEF VerifyShape, UseChallenge
    <2> QED BY <1>8, <2>1, <2>2, GotoMoves DEF UseChallenge, Pcs, VerifyPcs
  <1>9. CASE ComparePassword(r)
    BY <1>9, PasswordMoves
  <1>10. CASE Succeed(r)
    <2>1. InFlight(r)
      BY <1>10 DEF Succeed, InFlight
    <2>2. Answer(r, "temporary") \/ Answer(r, "token")
      BY <1>10 DEF Succeed
    <2> QED BY <2>1, <2>2, AnswerMoves
  <1>11. CASE Increment(r)
    <2>1. InFlight(r) /\ request[r].op # "start"
      BY <1>11, KindAt DEF Increment, InFlight
    <2>2. CASE Goto(r, "expire")
      BY <2>1, <2>2, GotoMoves DEF Pcs, VerifyPcs, PasswordPcs
    <2>3. CASE \E n : CompareCount(r, n)
      BY <2>1, <2>3, CountMoves
    <2> QED BY <1>11, <2>2, <2>3 DEF Increment
  <1>12. CASE SetLifetime(r)
    <2>1. InFlight(r) /\ request[r].op # "start"
      BY <1>12, KindAt DEF SetLifetime, InFlight
    <2> QED BY <1>12, <2>1, CountMoves DEF SetLifetime
  <1>13. CASE Lock(r)
    <2>1. InFlight(r) /\ request[r].op # "start"
      BY <1>13, KindAt DEF Lock, InFlight
    <2> QED BY <1>13, <2>1, GotoMoves DEF Lock, Pcs, VerifyPcs, PasswordPcs
  <1>14. CASE ResetCount(r)
    <2>1. InFlight(r)
      BY <1>14 DEF ResetCount, InFlight
    <2> QED BY <1>14, <2>1, AnswerMoves DEF ResetCount
  <1>15. CASE BreakOff(r)
    BY <1>15, AnswerMoves DEF BreakOff
  <1> QED
    BY <1>1, <1>2, <1>3, <1>4, <1>5, <1>6, <1>7, <1>8, <1>9, <1>10, <1>11, <1>12,
       <1>13, <1>14, <1>15 DEF Step

-----------------------------------------------------------------------------
(* How rows change *)

\* A row that exists stays, and so does its user, though it may be another.
RowsKept ==
    /\ challenge' \in [Challenges -> Rows \cup {None}]
    /\ \A c \in Challenges : challenge[c] # None =>
         /\ challenge'[c] # None
         /\ challenge[c].user # None => challenge'[c].user # None

Others(c) == \A d \in Challenges : d # c => challenge'[d] = challenge[d]

\* The row of c keeps its number of attempts and its use.
SpentAlike(c) ==
    challenge'[c].attempts = challenge[c].attempts /\ challenge'[c].used = challenge[c].used

\* The row of c keeps its code and its user.
CodeAlike(c) ==
    challenge'[c].code = challenge[c].code /\ challenge'[c].user = challenge[c].user

LEMMA RowThere ==
  ASSUME IInv, NEW r \in Requests, InFlight(r), request[r].op # "password"
  PROVE  /\ request[r].challenge \in Challenges
         /\ challenge[request[r].challenge] \in Rows
         /\ challenge[request[r].challenge] # None
  <1>1. request[r].challenge \in Challenges
    BY KindAt DEF StartShape, VerifyShape
  <1>2. challenge[request[r].challenge] # None
    BY DEF IInv, Present, PresentFor
  <1> QED BY <1>1, <1>2 DEF IInv, TypeOK

LEMMA RowFields ==
  ASSUME NEW row \in Rows
  PROVE  /\ row.user \in Users \cup {None} /\ row.code \in Starts \cup {None}
         /\ row.attempts \in Nat /\ row.expires_at \in Nat /\ row.used \in BOOLEAN
  BY DEF Rows

LEMMA NoneIsNoRow == None \notin Rows
  BY LoginAssumption

LEMMA CreateEffect ==
  ASSUME IInv, NEW c \in Challenges, CreateChallenge(c)
  PROVE  /\ challenge'[c] \in Rows /\ Others(c) /\ challenge' \in [Challenges -> Rows \cup {None}]
         /\ challenge[c] = None
         /\ challenge'[c].user = None /\ challenge'[c].code = None
         /\ challenge'[c].attempts = 0 /\ challenge'[c].used = FALSE
  <1>1. now + LinkTTL \in Nat
    BY LoginAssumption DEF IInv, TypeOK
  <1>2. PICK row : row = [user |-> None, code |-> None, attempts |-> 0,
                          expires_at |-> now + LinkTTL, used |-> FALSE]
    OBVIOUS
  <1>3. row \in Rows
    BY <1>1, <1>2 DEF Rows
  <1>4. challenge' = [challenge EXCEPT ![c] = row] /\ challenge[c] = None
    BY <1>2 DEF CreateChallenge
  <1>5. challenge' \in [Challenges -> Rows \cup {None}] /\ challenge'[c] = row /\ Others(c)
    BY <1>3, <1>4 DEF IInv, TypeOK, Others
  <1> QED BY <1>2, <1>3, <1>4, <1>5

LEMMA StoreEffect ==
  ASSUME IInv, NEW r \in Requests, StoreCode(r),
         NEW c \in Challenges, request[r].challenge = c
  PROVE  /\ challenge[c] \in Rows /\ challenge'[c] \in Rows /\ Others(c)
         /\ challenge' \in [Challenges -> Rows \cup {None}]
         /\ challenge'[c].code = r /\ SpentAlike(c)
         /\ challenge'[c].user =
              IF request[r].seen.user = request[r].account THEN challenge[c].user
                                                           ELSE request[r].account
  <1>1. InFlight(r) /\ request[r].op = "start" /\ StartShape(r, request[r])
    BY KindAt DEF StoreCode, At, InFlight
  <1>2. challenge[c] \in Rows /\ challenge[c] # None
    BY <1>1, RowThere
  <1>3. PICK user : user = IF request[r].seen.user = request[r].account
                             THEN challenge[c].user ELSE request[r].account
    OBVIOUS
  <1>4. PICK ends : ends = request[r].at + CodeTTL
    OBVIOUS
  <1>5. user \in Users \cup {None} /\ ends \in Nat
    BY <1>1, <1>2, <1>3, <1>4, RowFields, Kind, LoginAssumption DEF StartShape, InFlightStates
  <1>6. PICK row : row = [challenge[c] EXCEPT !.user = user, !.code = r, !.expires_at = ends]
    OBVIOUS
  <1>7. row \in Rows /\ row.user = user /\ row.code = r
           /\ row.attempts = challenge[c].attempts /\ row.used = challenge[c].used
    BY <1>1, <1>2, <1>5, <1>6 DEF Rows, StartShape
  <1>8. challenge' = [challenge EXCEPT ![c] = row]
    <2>1. challenge' = [challenge EXCEPT
            ![c].user = IF request[r].seen.user = request[r].account
                          THEN challenge[c].user ELSE request[r].account,
            ![c].code = r,
            ![c].expires_at = request[r].at + CodeTTL]
      BY DEF StoreCode, IInv, TypeOK, Rows
    <2> QED BY <1>3, <1>4, <1>6, <2>1
  <1>9. challenge' \in [Challenges -> Rows \cup {None}] /\ challenge'[c] = row /\ Others(c)
    BY <1>7, <1>8 DEF IInv, TypeOK, Others
  <1> QED BY <1>2, <1>3, <1>7, <1>9 DEF SpentAlike

LEMMA WrongEffect ==
  ASSUME IInv, NEW r \in Requests, WrongCode(r),
         NEW c \in Challenges, request[r].challenge = c
  PROVE  /\ challenge[c] \in Rows /\ challenge'[c] \in Rows /\ Others(c)
         /\ challenge' \in [Challenges -> Rows \cup {None}]
         /\ challenge'[c].attempts = request[r].seen.attempts + 1
         /\ CodeAlike(c) /\ challenge'[c].used = challenge[c].used
         /\ challenge'[c].expires_at = challenge[c].expires_at
  <1>1. InFlight(r) /\ request[r].op = "verify" /\ VerifyShape(r, request[r])
    BY KindAt DEF WrongCode, At, InFlight
  <1>2. challenge[c] \in Rows /\ challenge[c] # None
    BY <1>1, RowThere
  <1>3. PICK n : n = request[r].seen.attempts + 1
    OBVIOUS
  <1>4. n \in Nat
    BY <1>1, <1>3, RowFields DEF VerifyShape
  <1>5. PICK row : row = [challenge[c] EXCEPT !.attempts = n]
    OBVIOUS
  <1>6. row \in Rows /\ row.attempts = n /\ row.user = challenge[c].user
          /\ row.code = challenge[c].code /\ row.used = challenge[c].used
          /\ row.expires_at = challenge[c].expires_at
    BY <1>2, <1>4, <1>5 DEF Rows
  <1>7. challenge' = [challenge EXCEPT ![c] = row]
    BY <1>3, <1>5 DEF WrongCode, IInv, TypeOK
  <1>8. challenge' \in [Challenges -> Rows \cup {None}] /\ challenge'[c] = row /\ Others(c)
    BY <1>6, <1>7 DEF IInv, TypeOK, Others
  <1> QED BY <1>2, <1>3, <1>6, <1>8 DEF CodeAlike

LEMMA UseEffect ==
  ASSUME IInv, NEW r \in Requests, UseChallenge(r),
         NEW c \in Challenges, request[r].challenge = c
  PROVE  /\ challenge[c] \in Rows /\ challenge'[c] \in Rows /\ Others(c)
         /\ challenge' \in [Challenges -> Rows \cup {None}]
         /\ challenge'[c].used = TRUE
         /\ CodeAlike(c) /\ challenge'[c].attempts = challenge[c].attempts
         /\ challenge'[c].expires_at = challenge[c].expires_at
  <1>1. InFlight(r) /\ request[r].op = "verify"
    BY KindAt DEF UseChallenge, At, InFlight
  <1>2. challenge[c] \in Rows /\ challenge[c] # None
    BY <1>1, RowThere
  <1>3. PICK row : row = [challenge[c] EXCEPT !.used = TRUE]
    OBVIOUS
  <1>4. row \in Rows /\ row.attempts = challenge[c].attempts /\ row.user = challenge[c].user
          /\ row.code = challenge[c].code /\ row.used = TRUE
          /\ row.expires_at = challenge[c].expires_at
    BY <1>2, <1>3 DEF Rows
  <1>5. challenge' = [challenge EXCEPT ![c] = row]
    BY <1>3 DEF UseChallenge, IInv, TypeOK
  <1>6. challenge' \in [Challenges -> Rows \cup {None}] /\ challenge'[c] = row /\ Others(c)
    BY <1>4, <1>5 DEF IInv, TypeOK, Others
  <1> QED BY <1>2, <1>4, <1>6 DEF CodeAlike

\* A step of a request writes the row of its challenge, or none.
LEMMA StepChallenge ==
  ASSUME IInv, NEW r \in Requests, Step(r), ~UNCHANGED challenge
  PROVE  /\ InFlight(r) /\ request[r].op # "password" /\ request[r].challenge \in Challenges
         /\ StoreCode(r) \/ WrongCode(r) \/ UseChallenge(r)
  <1>1. StoreCode(r) \/ WrongCode(r) \/ UseChallenge(r)
    BY DEF Step, CheckRate, SetRate, SendCode, CheckLock, RightCode, ComparePassword,
       Succeed, Increment, SetLifetime, Lock, ResetCount, BreakOff
  <1>2. InFlight(r)
    BY <1>1 DEF StoreCode, WrongCode, UseChallenge, At, InFlight
  <1>3. request[r].op # "password"
    BY <1>1, <1>2, KindAt DEF StoreCode, WrongCode, UseChallenge, At
  <1> QED BY <1>1, <1>2, <1>3, RowThere

LEMMA StepRows ==
  ASSUME IInv, NEW r \in Requests, Step(r)
  PROVE  RowsKept /\ Owned'
  <1>1. CASE UNCHANGED challenge
    BY <1>1 DEF RowsKept, IInv, TypeOK, Owned
  <1>2. CASE ~UNCHANGED challenge
    <2>1. PICK c \in Challenges : c = request[r].challenge
      BY <1>2, StepChallenge
    <2>2. challenge \in [Challenges -> Rows \cup {None}] /\ Owned
      BY DEF IInv, TypeOK
    <2>3. CASE StoreCode(r)
      <3>1. InFlight(r) /\ request[r].op = "start" /\ request[r].account # None
               /\ PresentFor(request[r])
        BY <2>3, KindAt, Kind, LoginAssumption DEF StoreCode, At, InFlight
      <3>2. challenge[c] # None /\ (request[r].seen.user # None => challenge[c].user # None)
        BY <2>1, <3>1 DEF PresentFor
      <3>3. challenge'[c].user # None
        BY <2>1, <2>3, <3>1, <3>2, StoreEffect
      <3>4. challenge'[c] # None /\ Others(c) /\ challenge' \in [Challenges -> Rows \cup {None}]
        BY <2>1, <2>3, StoreEffect, NoneIsNoRow
      <3> QED BY <2>2, <3>3, <3>4 DEF RowsKept, Owned, Others
    <2>4. CASE WrongCode(r)
      <3>1. /\ challenge[c] # None /\ challenge'[c] # None /\ Others(c) /\ CodeAlike(c)
            /\ challenge' \in [Challenges -> Rows \cup {None}]
        BY <2>1, <2>4, WrongEffect, NoneIsNoRow
      <3> QED BY <2>2, <3>1 DEF RowsKept, Owned, Others, CodeAlike
    <2>5. CASE UseChallenge(r)
      <3>1. /\ challenge[c] # None /\ challenge'[c] # None /\ Others(c) /\ CodeAlike(c)
            /\ challenge' \in [Challenges -> Rows \cup {None}]
        BY <2>1, <2>5, UseEffect, NoneIsNoRow
      <3> QED BY <2>2, <3>1 DEF RowsKept, Owned, Others, CodeAlike
    <2> QED BY <1>2, <2>3, <2>4, <2>5, StepChallenge
  <1> QED BY <1>1, <1>2


-----------------------------------------------------------------------------
(* The invariant is kept *)

\* What a step leaves of the types besides requests and rows.
RestTyped ==
    /\ now' \in 0..MaxTime
    /\ account' \in [Accounts -> {"active", "new", "inactive", "deleted"}]
    /\ failures' \in [Accounts -> [count : Nat, expires : Nat]]
    /\ locked' \in [Accounts -> Nat]
    /\ rate' \in [Users -> Nat]
    /\ sent' \subseteq Starts \X Users
    /\ logins' \subseteq
         [by : Verifications, challenge : Challenges, user : Users, code : Starts]
    /\ failed' \in [Accounts -> SUBSET (Requests \X (0..MaxTime))]
    /\ tries' \in [Challenges -> Nat]
    /\ overlapped' \subseteq Kinds \X Challenges
    /\ broke' \in BOOLEAN

LEMMA NoneTyped == NoFailures \in [count : Nat, expires : Nat]
  BY DEF NoFailures

LEMMA NeverTyped == Never \in Nat /\ Window \in Nat /\ MaxTime \in Nat
  BY LoginAssumption DEF Never

LEMMA CountTyped ==
  ASSUME TypeOK, NEW a \in Accounts
  PROVE  /\ Count(a) \in [count : Nat, expires : Nat]
         /\ failures[a].expires > now =>
              Count(a).count = failures[a].count + 1 /\ Count(a).expires = failures[a].expires
         /\ ~(failures[a].expires > now) => Count(a).count = 1 /\ Count(a).expires = Never
  <1>1. failures[a] \in [count : Nat, expires : Nat]
    BY DEF TypeOK
  <1>2. CASE failures[a].expires > now
    <2>1. PICK n : n = failures[a].count + 1
      OBVIOUS
    <2>2. Count(a) = [failures[a] EXCEPT !.count = n]
      BY <1>2, <2>1 DEF Count
    <2> QED BY <1>1, <1>2, <2>1, <2>2
  <1>3. CASE ~(failures[a].expires > now)
    BY <1>3, NeverTyped DEF Count
  <1> QED BY <1>2, <1>3

LEMMA StepTyped ==
  ASSUME IInv, NEW r \in Requests, Step(r)
  PROVE  RestTyped
  <1>1. TypeOK /\ InFlight(r)
    BY StepMoves DEF IInv, Moves
  <1>2. PICK a \in Accounts : a = request[r].account
    BY <1>1, Kind
  <1> USE DEF TypeOK, RestTyped
  <1>3. CASE CheckRate(r) \/ StoreCode(r) \/ CheckLock(r) \/ RightCode(r) \/ UseChallenge(r)
               \/ ComparePassword(r) \/ BreakOff(r)
    BY <1>1, <1>3 DEF CheckRate, StoreCode, CheckLock, RightCode, UseChallenge,
       ComparePassword, BreakOff, redis, history
  <1>4. CASE SetRate(r)
    <2>1. request[r].account \in Users /\ now + RateTTL \in Nat
      BY <1>1, <1>4, KindAt, LoginAssumption DEF SetRate, At, StartShape
    <2> QED BY <1>1, <1>4, <2>1 DEF SetRate, history
  <1>5. CASE SendCode(r)
    <2>1. request[r].account \in Users /\ r \in Starts
      BY <1>1, <1>5, KindAt DEF SendCode, At, StartShape
    <2> QED BY <1>1, <1>5, <2>1 DEF SendCode, redis
  <1>6. CASE WrongCode(r)
    <2>1. tries' \in [Challenges -> Nat]
      <3>1. PICK c \in Challenges : c = request[r].challenge
        BY <1>1, <1>6, RowThere DEF WrongCode
      <3>2. tries[c] + 1 \in Nat /\ tries' = [tries EXCEPT ![c] = tries[c] + 1]
        BY <1>1, <1>6, <3>1 DEF WrongCode
      <3> QED BY <1>1, <3>2
    <2>2. UNCHANGED <<now, account, failures, locked, rate, sent, logins, failed,
                      overlapped, broke>>
      BY <1>6 DEF WrongCode, redis
    <2> QED BY <1>1, <2>1, <2>2
  <1>7. CASE Succeed(r)
    <2>1. /\ failures' \in [Accounts -> [count : Nat, expires : Nat]]
          /\ failed' \in [Accounts -> SUBSET (Requests \X (0..MaxTime))]
      BY <1>1, <1>2, <1>7, NoneTyped DEF Succeed
    <2>2. CASE request[r].op = "verify"
      <3>1. /\ r \in Verifications /\ request[r].challenge \in Challenges
            /\ request[r].account \in Users /\ request[r].seen.code \in Starts
        BY <1>1, <2>2, KindAt DEF VerifyShape
      <3>2. logins' \subseteq
              [by : Verifications, challenge : Challenges, user : Users, code : Starts]
        BY <1>1, <1>7, <2>2, <3>1 DEF Succeed
      <3> QED BY <1>1, <1>7, <2>1, <3>2 DEF Succeed
    <2>3. CASE request[r].op # "verify"
      BY <1>1, <1>7, <2>1, <2>3 DEF Succeed
    <2> QED BY <2>2, <2>3
  <1>8. CASE Increment(r)
    <2>1. failures' \in [Accounts -> [count : Nat, expires : Nat]]
      BY <1>1, <1>2, <1>8, CountTyped DEF Increment
    <2>2. failed' \in [Accounts -> SUBSET (Requests \X (0..MaxTime))]
      BY <1>1, <1>2, <1>8 DEF Increment
    <2> QED BY <1>1, <1>8, <2>1, <2>2 DEF Increment
  <1>9. CASE SetLifetime(r)
    <2>1. PICK t \in Nat : t = now + Window
      BY <1>1, NeverTyped
    <2>2. failures[a] \in [count : Nat, expires : Nat]
      BY <1>1
    <2>3. [failures[a] EXCEPT !.expires = t] \in [count : Nat, expires : Nat]
      BY <2>2
    <2>4. failures' = failures \/ failures' = [failures EXCEPT ![a] = [failures[a] EXCEPT !.expires = t]]
      BY <1>2, <1>9, <2>1 DEF SetLifetime
    <2>5. failures' \in [Accounts -> [count : Nat, expires : Nat]]
      BY <1>1, <2>3, <2>4
    <2> QED BY <1>1, <1>9, <2>5 DEF SetLifetime, history
  <1>10. CASE Lock(r)
    <2>1. now + LockTTL \in Nat
      BY <1>1, LoginAssumption
    <2> QED BY <1>1, <1>10, <2>1 DEF Lock, history
  <1>11. CASE ResetCount(r)
    BY <1>1, <1>2, <1>11, NoneTyped DEF ResetCount
  <1> QED BY <1>3, <1>4, <1>5, <1>6, <1>7, <1>8, <1>9, <1>10, <1>11 DEF Step

\* From what a step does to requests and rows, the whole invariant.
LEMMA MovesKeep ==
  ASSUME IInv, RestTyped, RowsKept, Owned', NEW r \in Requests, Moves(r)
  PROVE  IInv'
  <1>1. TypeOK'
    BY DEF TypeOK, RestTyped, RowsKept, Moves
  <1>2. Shapes'
    BY DEF IInv, Shapes, Moves, Rest, InFlight
  <1>3. ASSUME NEW q \in Requests, InFlight(q)' PROVE PresentFor(request[q])'
    <2>1. InFlight(q) /\ PresentFor(request[q])
      BY <1>3 DEF IInv, Present, Moves, Rest, InFlight
    <2>2. /\ request'[q].op = request[q].op /\ request'[q].challenge = request[q].challenge
          /\ request'[q].seen = request[q].seen
      BY <1>3 DEF Moves, Rest, InFlight, Carried
    <2>3. request[q].op # "password" => request[q].challenge \in Challenges
      BY <2>1, RowThere
    <2>4. CASE request[q].op # "password"
      BY <2>1, <2>2, <2>3, <2>4 DEF PresentFor, RowsKept
    <2> QED BY <2>2, <2>4 DEF PresentFor
  <1>4. Present'
    BY <1>3 DEF Present
  <1> QED BY <1>1, <1>2, <1>4 DEF IInv

\* No request moves.
LEMMA StillKeeps ==
  ASSUME IInv, RestTyped, RowsKept, Owned', UNCHANGED request
  PROVE  IInv'
  <1>1. TypeOK'
    BY DEF IInv, TypeOK, RestTyped, RowsKept
  <1>2. Shapes'
    BY DEF IInv, Shapes, InFlight
  <1>3. ASSUME NEW q \in Requests, InFlight(q)' PROVE PresentFor(request[q])'
    <2>1. InFlight(q) /\ PresentFor(request[q]) /\ request'[q] = request[q]
      BY <1>3 DEF IInv, Present, InFlight
    <2>2. request[q].op # "password" => request[q].challenge \in Challenges
      BY <2>1, RowThere
    <2> QED BY <2>1, <2>2 DEF PresentFor, RowsKept
  <1>4. Present'
    BY <1>3 DEF Present
  <1> QED BY <1>1, <1>2, <1>4 DEF IInv

LEMMA SameRows ==
  ASSUME IInv, UNCHANGED challenge
  PROVE  RowsKept /\ Owned'
  BY DEF RowsKept, IInv, TypeOK, Owned

\* A request begins or is answered at once.
Opens(r) ==
    /\ request[r].pc = "unsent" /\ Rest(r) /\ request' \in [Requests -> RequestStates]
    /\ ~InFlight(r)' \/ Shape(r, request'[r])
    /\ InFlight(r)' => PresentFor(request[r])'

LEMMA OpensKeeps ==
  ASSUME IInv, RestTyped, UNCHANGED challenge, NEW r \in Requests, Opens(r)
  PROVE  IInv'
  <1>1. TypeOK'
    BY SameRows DEF IInv, TypeOK, RestTyped, RowsKept, Opens
  <1>2. Shapes'
    BY DEF IInv, Shapes, Opens, Rest, InFlight
  <1>3. ASSUME NEW q \in Requests, InFlight(q)' PROVE PresentFor(request[q])'
    BY <1>3 DEF IInv, Present, InFlight, Opens, Rest, PresentFor
  <1>4. Present'
    BY <1>3 DEF Present
  <1> QED BY <1>1, <1>2, <1>4, SameRows DEF IInv

LEMMA OverlapTyped ==
  ASSUME TypeOK, NEW op \in Kinds, NEW c \in Challenges,
         NoteOverlap(op, c) \/ UNCHANGED overlapped
  PROVE  overlapped' \subseteq Kinds \X Challenges /\ overlapped \subseteq overlapped'
  BY DEF NoteOverlap, TypeOK

\* What a new request knows, or that there is none.
LEMMA StartOpens ==
  ASSUME IInv, NEW r \in Starts, NEW c \in Challenges, NEW u \in Users, SendStart(r, c, u)
  PROVE  /\ r \in Requests /\ Opens(r) /\ challenge[c] \in Rows
         /\ \/ /\ request'[r].pc = "limit" /\ request'[r].op = "start"
               /\ request'[r].challenge = c /\ request'[r].account = u
               /\ request'[r].seen = challenge[c] /\ NoteOverlap("start", c)
            \/ request'[r].pc = "answered" /\ UNCHANGED overlapped
  <1>1. r \in Requests /\ u \in Accounts /\ now \in Nat /\ challenge[c] \in Rows /\ TypeOK
    BY LoginAssumption DEF Requests, Accounts, IInv, TypeOK, SendStart
  <1>2. request[r].pc = "unsent" /\ challenge' = challenge /\ challenge[c] # None
    BY DEF SendStart, At
  <1>3. CASE Begin(r, "limit", "start", c, u, FALSE, now) /\ NoteOverlap("start", c)
    <2>1. /\ "limit" \in Pcs /\ "start" \in Kinds /\ FALSE \in BOOLEAN
          /\ c \in Challenges \cup {None}
      BY DEF Pcs, StartPcs, Kinds
    <2>2. PICK right \in BOOLEAN : right = FALSE
      BY <2>1
    <2>3. Begin(r, "limit", "start", c, u, right, now)
      BY <1>3, <2>2
    <2>4. /\ request' \in [Requests -> RequestStates] /\ Rest(r)
          /\ request'[r].pc = "limit" /\ request'[r].op = "start"
          /\ request'[r].challenge = c /\ request'[r].account = u
          /\ request'[r].seen = challenge[c]
      BY <1>1, <2>1, <2>3, BeginEffect
    <2>5. StartShape(r, request'[r])
      BY <1>1, <2>4 DEF StartShape, StartPcs
    <2>6. PresentFor(request[r])'
      BY <1>2, <2>4 DEF PresentFor
    <2>7. Opens(r)
      BY <1>2, <2>4, <2>5, <2>6 DEF Opens, Shape
    <2> QED BY <1>1, <1>3, <2>4, <2>7
  <1>4. CASE Answer(r, "none") /\ UNCHANGED overlapped
    BY <1>1, <1>2, <1>4, AnswerEffect DEF Opens, InFlight
  <1> QED BY <1>1, <1>3, <1>4 DEF SendStart

LEMMA VerifyOpens ==
  ASSUME IInv, NEW r \in Verifications, NEW c \in Challenges, NEW code, SendVerify(r, c, code)
  PROVE  /\ r \in Requests /\ Opens(r) /\ challenge[c] \in Rows
         /\ \/ /\ request'[r].pc = "check" /\ request'[r].op = "verify"
               /\ request'[r].challenge = c /\ request'[r].account = challenge[c].user
               /\ request'[r].right = (code = challenge[c].code)
               /\ request'[r].seen = challenge[c] /\ NoteOverlap("verify", c)
               /\ Verifiable(challenge[c])
            \/ request'[r].pc = "answered" /\ UNCHANGED overlapped
  <1>1. r \in Requests /\ challenge[c] \in Rows /\ challenge[c] # None /\ TypeOK
    BY DEF Requests, Accounts, IInv, TypeOK, SendVerify
  <1>2. request[r].pc = "unsent" /\ challenge' = challenge
    BY DEF SendVerify, At
  <1>3. CASE /\ Begin(r, "check", "verify", c, challenge[c].user, code = challenge[c].code, 0)
             /\ NoteOverlap("verify", c) /\ Verifiable(challenge[c])
    <2>1. /\ challenge[c].code \in Starts /\ challenge[c].user \in Users
          /\ challenge[c].attempts < MaxAttempts
      BY <1>1, <1>3, RowFields DEF Verifiable, IInv, Owned
    <2>2. PICK u \in Users : u = challenge[c].user
      BY <2>1
    <2>3. PICK right \in BOOLEAN : right = (code = challenge[c].code)
      OBVIOUS
    <2>4. u \in Accounts /\ 0 \in Nat /\ "check" \in Pcs /\ "verify" \in Kinds
      BY DEF Accounts, Pcs, StartPcs, Kinds
    <2>5. Begin(r, "check", "verify", c, u, right, 0)
      BY <1>3, <2>2, <2>3
    <2>6. /\ request' \in [Requests -> RequestStates] /\ Rest(r)
          /\ request'[r].pc = "check" /\ request'[r].op = "verify"
          /\ request'[r].challenge = c /\ request'[r].account = u
          /\ request'[r].right = right /\ request'[r].seen = challenge[c]
      BY <1>1, <2>4, <2>5, BeginEffect
    <2>7. VerifyShape(r, request'[r])
      BY <1>1, <2>1, <2>6 DEF VerifyShape, VerifyPcs
    <2>8. PresentFor(request[r])'
      BY <1>1, <1>2, <2>6 DEF PresentFor
    <2>9. Opens(r)
      BY <1>2, <2>6, <2>7, <2>8 DEF Opens, Shape
    <2> QED BY <1>1, <1>3, <2>2, <2>3, <2>6, <2>9
  <1>4. CASE Answer(r, "none") /\ UNCHANGED overlapped
    BY <1>1, <1>2, <1>4, AnswerEffect DEF Opens, InFlight
  <1> QED BY <1>1, <1>3, <1>4 DEF SendVerify

LEMMA PasswordOpens ==
  ASSUME IInv, NEW r \in Passwords, NEW o \in Owners, NEW right \in BOOLEAN,
         SendPassword(r, o, right)
  PROVE  /\ r \in Requests /\ Opens(r)
         /\ request'[r].pc = "check" /\ request'[r].op = "password" /\ request'[r].account = o
  <1>1. /\ r \in Requests /\ o \in Accounts /\ 0 \in Nat /\ "check" \in Pcs
        /\ "password" \in Kinds /\ TypeOK /\ None \in Challenges \cup {None}
    BY DEF Requests, Accounts, Pcs, StartPcs, Kinds, IInv
  <1>2. request[r].pc = "unsent" /\ Begin(r, "check", "password", None, o, right, 0)
    BY DEF SendPassword, At
  <1>3. /\ request' \in [Requests -> RequestStates] /\ Rest(r)
        /\ request'[r].pc = "check" /\ request'[r].op = "password" /\ request'[r].account = o
    BY <1>1, <1>2, BeginEffect
  <1>4. PasswordShape(r, request'[r])
    BY <1>3 DEF PasswordShape, PasswordPcs
  <1>5. PresentFor(request[r])'
    BY <1>3 DEF PresentFor
  <1>6. Opens(r)
    BY <1>2, <1>3, <1>4, <1>5 DEF Opens, Shape
  <1> QED BY <1>1, <1>3, <1>6

LEMMA NextIInv ==
  ASSUME IInv, [Next]_vars
  PROVE  IInv'
  <1>1. TypeOK
    BY DEF IInv
  <1> USE DEF redis, history
  <1>2. ASSUME NEW c \in Challenges, CreateChallenge(c) PROVE IInv'
    <2>1. RestTyped /\ UNCHANGED request
      BY <1>1, <1>2 DEF TypeOK, RestTyped, CreateChallenge
    <2>2. RowsKept /\ Owned'
      BY <1>2, CreateEffect, NoneIsNoRow DEF RowsKept, Owned, Others, IInv
    <2> QED BY <2>1, <2>2, StillKeeps
  <1>3. ASSUME NEW r \in Starts, NEW c \in Challenges, NEW u \in Users, SendStart(r, c, u)
        PROVE IInv'
    <2>1. overlapped' \subseteq Kinds \X Challenges
      BY <1>1, <1>3, StartOpens, OverlapTyped DEF Kinds
    <2>2. RestTyped /\ UNCHANGED challenge
      BY <1>1, <1>3, <2>1 DEF TypeOK, RestTyped, SendStart
    <2> QED BY <1>3, <2>2, StartOpens, OpensKeeps
  <1>4. ASSUME NEW r \in Verifications, NEW c \in Challenges, NEW code, SendVerify(r, c, code)
        PROVE IInv'
    <2>1. overlapped' \subseteq Kinds \X Challenges
      BY <1>1, <1>4, VerifyOpens, OverlapTyped DEF Kinds
    <2>2. RestTyped /\ UNCHANGED challenge
      BY <1>1, <1>4, <2>1 DEF TypeOK, RestTyped, SendVerify
    <2> QED BY <1>4, <2>2, VerifyOpens, OpensKeeps
  <1>5. ASSUME NEW r \in Passwords, NEW o \in Owners, NEW right \in BOOLEAN,
               SendPassword(r, o, right)
        PROVE IInv'
    <2>1. RestTyped /\ UNCHANGED challenge
      BY <1>1, <1>5 DEF TypeOK, RestTyped, SendPassword
    <2> QED BY <1>5, <2>1, PasswordOpens, OpensKeeps
  <1>6. ASSUME NEW r \in Requests, Step(r) PROVE IInv'
    BY <1>6, StepTyped, StepRows, StepMoves, MovesKeep
  <1>7. ASSUME NEW o \in Owners, SetPassword(o) PROVE IInv'
    <2>1. RestTyped /\ UNCHANGED <<request, challenge>>
      BY <1>1, <1>7 DEF TypeOK, RestTyped, SetPassword
    <2> QED BY <2>1, StillKeeps, SameRows
  <1>8. ASSUME NEW a \in Accounts, NEW status \in {"inactive", "deleted"}, Exclude(a, status)
        PROVE IInv'
    <2>1. RestTyped /\ UNCHANGED <<request, challenge>>
      BY <1>1, <1>8 DEF TypeOK, RestTyped, Exclude
    <2> QED BY <2>1, StillKeeps, SameRows
  <1>9. CASE Tick
    <2>1. now' \in 0..MaxTime
      BY <1>1, <1>9, LoginAssumption DEF Tick, TypeOK
    <2>2. RestTyped /\ UNCHANGED <<request, challenge>>
      BY <1>1, <1>9, <2>1 DEF TypeOK, RestTyped, Tick
    <2> QED BY <2>2, StillKeeps, SameRows
  <1>10. CASE UNCHANGED vars
    <2>1. RestTyped /\ UNCHANGED <<request, challenge>>
      BY <1>1, <1>10 DEF TypeOK, RestTyped, vars
    <2> QED BY <2>1, StillKeeps, SameRows
  <1> QED BY <1>2, <1>3, <1>4, <1>5, <1>6, <1>7, <1>8, <1>9, <1>10 DEF Next

\* Every request has the state of its kind wherever it is, works on a row that
\* is never deleted under it, and a row with a code has a user
\* (auth/telegram_auth.py, company/telegram_webhook.py, owner/auth.py).
THEOREM TypeCorrect == Spec => []TypeOK
  <1>1. IInv => TypeOK
    BY DEF IInv
  <1> QED BY <1>1, InitIInv, NextIInv, PTL DEF Spec


-----------------------------------------------------------------------------
(* Steps by what they leave alone *)

\* No request begins.
Steady == \A q \in Requests : InFlight(q)' => InFlight(q) /\ Carried(q)

\* Requests, rows and histories stay as they are.
Idle == UNCHANGED <<challenge, redis, request, history, broke>>

LEMMA NextCases ==
  ASSUME IInv, [Next]_vars
  PROVE  \/ \E r \in Requests : Step(r)
         \/ \E r \in Starts, c \in Challenges, u \in Users : SendStart(r, c, u)
         \/ \E r \in Verifications, c \in Challenges :
              \E code \in {s[1] : s \in sent} \cup {None} : SendVerify(r, c, code)
         \/ \E r \in Passwords, o \in Owners, right \in BOOLEAN : SendPassword(r, o, right)
         \/ \E c \in Challenges : CreateChallenge(c)
         \/ Idle /\ now' \in Nat /\ now' >= now
  <1> USE DEF Idle
  <1>1. now \in Nat /\ now + 1 \in Nat /\ now + 1 >= now /\ now >= now
    BY DEF IInv, TypeOK
  <1>2. CASE UNCHANGED vars
    BY <1>1, <1>2 DEF vars
  <1>3. CASE Tick
    BY <1>1, <1>3 DEF Tick
  <1>4. CASE \E o \in Owners : SetPassword(o)
    BY <1>1, <1>4 DEF SetPassword
  <1>5. CASE \E a \in Accounts, status \in {"inactive", "deleted"} : Exclude(a, status)
    BY <1>1, <1>5 DEF Exclude
  <1> QED BY <1>2, <1>3, <1>4, <1>5 DEF Next

LEMMA MovesSteady ==
  ASSUME NEW r \in Requests, Moves(r)
  PROVE  Steady
  BY DEF Moves, Steady, Rest, Carried, InFlight

LEMMA StepSteady ==
  ASSUME IInv, NEW r \in Requests, Step(r)
  PROVE  Steady
  BY StepMoves, MovesSteady

LEMMA IdleSteady == UNCHANGED request => Steady
  BY DEF Steady, InFlight, Carried

LEMMA CreateSame ==
  ASSUME NEW c \in Challenges, CreateChallenge(c)
  PROVE  UNCHANGED <<now, account, redis, request, history, broke>>
  BY DEF CreateChallenge

LEMMA StepOverlap ==
  ASSUME NEW r \in Requests, Step(r)
  PROVE  overlapped' = overlapped
  <1> USE DEF history
  <1>1. CASE CheckRate(r) \/ StoreCode(r) \/ SetRate(r) \/ SendCode(r) \/ CheckLock(r)
    BY <1>1 DEF CheckRate, StoreCode, SetRate, SendCode, CheckLock
  <1>2. CASE WrongCode(r) \/ RightCode(r) \/ UseChallenge(r) \/ ComparePassword(r)
    BY <1>2 DEF WrongCode, RightCode, UseChallenge, ComparePassword
  <1>3. CASE Succeed(r) \/ Increment(r) \/ SetLifetime(r)
    BY <1>3 DEF Succeed, Increment, SetLifetime
  <1>4. CASE Lock(r) \/ ResetCount(r) \/ BreakOff(r)
    BY <1>4 DEF Lock, ResetCount, BreakOff
  <1> QED BY <1>1, <1>2, <1>3, <1>4 DEF Step

LEMMA OverlapGrows ==
  ASSUME IInv, [Next]_vars
  PROVE  overlapped \subseteq overlapped'
  <1>1. TypeOK
    BY DEF IInv
  <1>2. CASE \E r \in Requests : Step(r)
    BY <1>2, StepOverlap
  <1>3. CASE \E r \in Starts, c \in Challenges, u \in Users : SendStart(r, c, u)
    BY <1>1, <1>3, StartOpens, OverlapTyped DEF Kinds
  <1>4. CASE \E r \in Verifications, c \in Challenges :
              \E code \in {s[1] : s \in sent} \cup {None} : SendVerify(r, c, code)
    BY <1>1, <1>4, VerifyOpens, OverlapTyped DEF Kinds
  <1>5. CASE \E r \in Passwords, o \in Owners, right \in BOOLEAN : SendPassword(r, o, right)
    BY <1>5 DEF SendPassword, history
  <1>6. CASE \E c \in Challenges : CreateChallenge(c)
    BY <1>6, CreateSame DEF history
  <1>7. CASE Idle
    BY <1>7 DEF Idle, history
  <1> QED BY <1>2, <1>3, <1>4, <1>5, <1>6, <1>7, NextCases

-----------------------------------------------------------------------------
(* Requests of one kind on one challenge *)

\* Two of them at once are noted.
OneAtATime ==
    \A r, q \in Requests :
        /\ r # q /\ InFlight(r) /\ InFlight(q)
        /\ request[r].op = request[q].op /\ request[r].op # "password"
        /\ request[r].challenge = request[q].challenge
        => <<request[r].op, request[r].challenge>> \in overlapped

LEMMA SteadyOne ==
  ASSUME OneAtATime, Steady, overlapped \subseteq overlapped'
  PROVE  OneAtATime'
  BY DEF OneAtATime, Steady, Carried

\* A request that begins on the challenge c.
LEMMA OpensOne ==
  ASSUME OneAtATime, NEW x \in Requests, Rest(x), NEW op, NEW c, overlapped \subseteq overlapped',
         \/ ~InFlight(x)' 
         \/ request'[x].op = op /\ request'[x].challenge = c /\ NoteOverlap(op, c)
  PROVE  OneAtATime'
  <1>1. ASSUME NEW r \in Requests, NEW q \in Requests, r # q, InFlight(r)', InFlight(q)',
               request'[r].op = request'[q].op, request'[r].op # "password",
               request'[r].challenge = request'[q].challenge
        PROVE  <<request'[r].op, request'[r].challenge>> \in overlapped'
    <2>1. CASE r # x /\ q # x
      BY <1>1, <2>1 DEF OneAtATime, Rest, InFlight
    <2>2. CASE r = x
      <3>1. InFlight(q) /\ request[q].op = op /\ request[q].challenge = c /\ NoteOverlap(op, c)
        BY <1>1, <2>2 DEF Rest, InFlight
      <3>2. Working(op, c) # {}
        BY <3>1 DEF Working
      <3> QED BY <1>1, <2>2, <3>1, <3>2 DEF NoteOverlap
    <2>3. CASE q = x
      <3>1. InFlight(r) /\ request[r].op = op /\ request[r].challenge = c /\ NoteOverlap(op, c)
        BY <1>1, <2>3 DEF Rest, InFlight
      <3>2. Working(op, c) # {}
        BY <3>1 DEF Working
      <3> QED BY <1>1, <2>3, <3>1, <3>2 DEF NoteOverlap
    <2> QED BY <2>1, <2>2, <2>3
  <1> QED BY <1>1 DEF OneAtATime

\* A request with a password is none of these.
LEMMA PasswordOne ==
  ASSUME OneAtATime, NEW x \in Requests, Rest(x), overlapped \subseteq overlapped',
         request'[x].op = "password"
  PROVE  OneAtATime'
  BY DEF OneAtATime, Rest, InFlight

LEMMA NextOne ==
  ASSUME IInv, OneAtATime, [Next]_vars
  PROVE  OneAtATime'
  <1>1. overlapped \subseteq overlapped'
    BY OverlapGrows
  <1>2. CASE \E r \in Requests : Step(r)
    BY <1>1, <1>2, StepSteady, SteadyOne
  <1>3. ASSUME NEW r \in Starts, NEW c \in Challenges, NEW u \in Users, SendStart(r, c, u)
        PROVE  OneAtATime'
    <2>1. r \in Requests /\ Rest(r)
      BY <1>3, StartOpens DEF Opens
    <2>2. \/ ~InFlight(r)'
          \/ request'[r].op = "start" /\ request'[r].challenge = c /\ NoteOverlap("start", c)
      BY <1>3, StartOpens DEF InFlight
    <2> QED BY <1>1, <2>1, <2>2, OpensOne
  <1>4. ASSUME NEW r \in Verifications, NEW c \in Challenges, NEW code, SendVerify(r, c, code)
        PROVE  OneAtATime'
    <2>1. r \in Requests /\ Rest(r)
      BY <1>4, VerifyOpens DEF Opens
    <2>2. \/ ~InFlight(r)'
          \/ request'[r].op = "verify" /\ request'[r].challenge = c /\ NoteOverlap("verify", c)
      BY <1>4, VerifyOpens DEF InFlight
    <2> QED BY <1>1, <2>1, <2>2, OpensOne
  <1>5. CASE \E r \in Passwords, o \in Owners, right \in BOOLEAN : SendPassword(r, o, right)
    BY <1>1, <1>5, PasswordOpens, PasswordOne DEF Opens
  <1>6. CASE \E c \in Challenges : CreateChallenge(c)
    BY <1>1, <1>6, CreateSame, IdleSteady, SteadyOne
  <1>7. CASE Idle
    BY <1>1, <1>7, IdleSteady, SteadyOne DEF Idle
  <1> QED BY <1>2, <1>3, <1>4, <1>5, <1>6, <1>7, NextCases

-----------------------------------------------------------------------------
(* Codes are sent *)

HasCode(c, s) == challenge[c] # None /\ challenge[c].code = s

\* A challenge waits for the code of an update that has come that far with it.
CodesTheirs ==
    \A c \in Challenges, s \in Starts : HasCode(c, s) =>
        /\ request[s].pc # "unsent"
        /\ InFlight(s) => request[s].challenge = c /\ request[s].pc \in {"rate", "send"}

SentAnswered == \A s \in Starts, u \in Users : <<s, u>> \in sent => request[s].pc = "answered"

CodesOut ==
    ~broke => \A c \in Challenges, s \in Starts : HasCode(c, s) =>
        InFlight(s) \/ \E u \in Users : <<s, u>> \in sent

CodeInv == CodesTheirs /\ SentAnswered /\ CodesOut

\* How a code comes to a row, and its user with it.
LEMMA StepCodes ==
  ASSUME IInv, NEW r \in Requests, Step(r),
         NEW c \in Challenges, NEW s \in Starts, HasCode(c, s)'
  PROVE  \/ HasCode(c, s) /\ challenge'[c].user = challenge[c].user
         \/ StoreCode(r) /\ s = r /\ c = request[r].challenge
  <1>1. CASE UNCHANGED challenge
    BY <1>1 DEF HasCode
  <1>2. CASE ~UNCHANGED challenge
    <2>1. PICK d \in Challenges : d = request[r].challenge
      BY <1>2, StepChallenge
    <2>2. CASE StoreCode(r)
      BY <2>1, <2>2, StoreEffect DEF HasCode, Others
    <2>3. CASE WrongCode(r)
      BY <2>1, <2>3, WrongEffect, NoneIsNoRow DEF HasCode, Others, CodeAlike
    <2>4. CASE UseChallenge(r)
      BY <2>1, <2>4, UseEffect, NoneIsNoRow DEF HasCode, Others, CodeAlike
    <2> QED BY <1>2, <2>2, <2>3, <2>4, StepChallenge
  <1> QED BY <1>1, <1>2

\* What comes after the code is stored.
LEMMA StepAfterStore ==
  ASSUME IInv, NEW r \in Requests, Step(r), request[r].pc \in {"rate", "send"}
  PROVE  \/ request'[r].pc = "send" /\ UNCHANGED <<sent, broke, challenge>>
         \/ /\ sent' = sent \cup {<<r, request[r].account>>} /\ request'[r].pc = "answered"
            /\ request[r].pc = "send" /\ SendCode(r)
         \/ broke' /\ UNCHANGED sent /\ request'[r].pc = "answered"
  <1>1. SetRate(r) \/ SendCode(r) \/ BreakOff(r)
    BY DEF Step, At, CheckRate, StoreCode, CheckLock, WrongCode, RightCode, UseChallenge,
       ComparePassword, Succeed, Increment, SetLifetime, Lock, ResetCount
  <1>2. InFlight(r)
    BY DEF InFlight
  <1>3. CASE SetRate(r)
    <2>1. request'[r].pc = "send"
      BY <1>2, <1>3, GotoEffect DEF SetRate, IInv, Pcs, StartPcs
    <2> QED BY <1>3, <2>1 DEF SetRate, history
  <1>4. CASE SendCode(r)
    BY <1>2, <1>4, AnswerMoves DEF SendCode, At
  <1>5. CASE BreakOff(r)
    BY <1>2, <1>5, AnswerMoves DEF BreakOff, history
  <1> QED BY <1>1, <1>3, <1>4, <1>5

LEMMA StepSent ==
  ASSUME NEW r \in Requests, Step(r)
  PROVE  UNCHANGED sent \/ SendCode(r)
  <1> USE DEF history
  <1>1. CASE CheckRate(r) \/ StoreCode(r) \/ SetRate(r) \/ CheckLock(r)
    BY <1>1 DEF CheckRate, StoreCode, SetRate, CheckLock
  <1>2. CASE WrongCode(r) \/ RightCode(r) \/ UseChallenge(r) \/ ComparePassword(r)
    BY <1>2 DEF WrongCode, RightCode, UseChallenge, ComparePassword
  <1>3. CASE Succeed(r) \/ Increment(r) \/ SetLifetime(r)
    BY <1>3 DEF Succeed, Increment, SetLifetime
  <1>4. CASE Lock(r) \/ ResetCount(r) \/ BreakOff(r)
    BY <1>4 DEF Lock, ResetCount, BreakOff
  <1> QED BY <1>1, <1>2, <1>3, <1>4 DEF Step

LEMMA StepBroke ==
  ASSUME NEW r \in Requests, Step(r), broke
  PROVE  broke'
  <1>1. CASE CheckRate(r) \/ StoreCode(r) \/ SetRate(r) \/ SendCode(r) \/ CheckLock(r)
    BY <1>1 DEF CheckRate, StoreCode, SetRate, SendCode, CheckLock
  <1>2. CASE WrongCode(r) \/ RightCode(r) \/ UseChallenge(r) \/ ComparePassword(r)
    BY <1>2 DEF WrongCode, RightCode, UseChallenge, ComparePassword
  <1>3. CASE Succeed(r) \/ Increment(r) \/ SetLifetime(r)
    BY <1>3 DEF Succeed, Increment, SetLifetime
  <1>4. CASE Lock(r) \/ ResetCount(r) \/ BreakOff(r)
    BY <1>4 DEF Lock, ResetCount, BreakOff
  <1> QED BY <1>1, <1>2, <1>3, <1>4 DEF Step

LEMMA StoreMoves ==
  ASSUME IInv, NEW r \in Requests, StoreCode(r)
  PROVE  /\ InFlight(r) /\ Rest(r) /\ Carried(r)
         /\ request[r].pc = "store" /\ request'[r].pc = "rate" /\ InFlight(r)'
         /\ request[r].op = "start" /\ StartShape(r, request[r])
  <1>1. request[r].pc = "store" /\ InFlight(r)
    BY DEF StoreCode, At, InFlight
  <1>2. Rest(r) /\ Carried(r) /\ request'[r].pc = "rate"
    BY <1>1, GotoEffect DEF StoreCode, IInv, Pcs, StartPcs
  <1> QED BY <1>1, <1>2, KindAt DEF InFlight

LEMMA StepCodesKept ==
  ASSUME IInv, CodeInv, NEW r \in Requests, Step(r)
  PROVE  CodeInv'
  <1>1. InFlight(r) /\ Rest(r)
    BY StepMoves DEF Moves
  <1>2. CodesTheirs'
    <2>1. ASSUME NEW c \in Challenges, NEW s \in Starts, HasCode(c, s)'
          PROVE  /\ request'[s].pc # "unsent"
                 /\ InFlight(s)' => /\ request'[s].challenge = c
                                    /\ request'[s].pc \in {"rate", "send"}
      <3>1. s \in Requests
        BY DEF Requests
      <3>2. CASE StoreCode(r) /\ s = r /\ c = request[r].challenge
        BY <3>2, StoreMoves DEF Carried
      <3>3. CASE HasCode(c, s)
        <4>1. /\ request[s].pc # "unsent"
              /\ InFlight(s) => request[s].challenge = c /\ request[s].pc \in {"rate", "send"}
          BY <3>3 DEF CodeInv, CodesTheirs
        <4>2. CASE s # r
          BY <1>1, <3>1, <4>1, <4>2 DEF Rest, InFlight
        <4>3. CASE s = r
          <5>1. request'[s].pc \in {"send", "answered"}
            BY <1>1, <4>1, <4>3, StepAfterStore
          <5>2. InFlight(s)' => Carried(s)
            BY <3>1, StepSteady DEF Steady
          <5> QED BY <1>1, <4>1, <4>3, <5>1, <5>2 DEF Carried, InFlight
        <4> QED BY <4>2, <4>3
      <3> QED BY <2>1, <3>2, <3>3, StepCodes
    <2> QED BY <2>1 DEF CodesTheirs
  <1>3. SentAnswered'
    <2>1. ASSUME NEW s \in Starts, NEW u \in Users, <<s, u>> \in sent'
          PROVE  request'[s].pc = "answered"
      <3>1. s \in Requests
        BY DEF Requests
      <3>2. CASE <<s, u>> \in sent
        <4>1. request[s].pc = "answered"
          BY <3>2 DEF CodeInv, SentAnswered
        <4> QED BY <1>1, <3>1, <4>1 DEF Rest, InFlight
      <3>3. CASE SendCode(r) /\ s = r
        <4>1. request[r].pc = "send"
          BY <3>3 DEF SendCode, At
        <4> QED BY <1>1, <3>3, <4>1, AnswerMoves DEF SendCode
      <3> QED BY <2>1, <3>2, <3>3, StepSent DEF SendCode
    <2> QED BY <2>1 DEF SentAnswered
  <1>4. CodesOut'
    <2>1. ASSUME ~broke', NEW c \in Challenges, NEW s \in Starts, HasCode(c, s)'
          PROVE  InFlight(s)' \/ \E u \in Users : <<s, u>> \in sent'
      <3>1. s \in Requests /\ ~broke
        BY <2>1, StepBroke DEF Requests
      <3>2. CASE StoreCode(r) /\ s = r
        BY <3>2, StoreMoves
      <3>3. CASE HasCode(c, s)
        <4>1. sent \subseteq sent'
          BY StepSent DEF SendCode
        <4>2. CASE \E u \in Users : <<s, u>> \in sent
          BY <4>1, <4>2
        <4>3. CASE InFlight(s)
          <5>1. request[s].pc \in {"rate", "send"}
            BY <3>3, <4>3 DEF CodeInv, CodesTheirs
          <5>2. CASE s # r
            BY <1>1, <3>1, <4>3, <5>2 DEF Rest, InFlight
          <5>3. CASE s = r /\ request'[s].pc = "send"
            BY <5>3 DEF InFlight
          <5>4. CASE s = r /\ SendCode(r)
            <6>1. request[r].account \in Users
              BY <1>1, <5>4, KindAt DEF SendCode, At, StartShape
            <6> QED BY <5>4, <6>1 DEF SendCode
          <5> QED BY <2>1, <5>1, <5>2, <5>3, <5>4, StepAfterStore
        <4> QED BY <3>1, <3>3, <4>2, <4>3 DEF CodeInv, CodesOut
      <3> QED BY <2>1, <3>2, <3>3, StepCodes
    <2> QED BY <2>1 DEF CodesOut
  <1> QED BY <1>2, <1>3, <1>4 DEF CodeInv

\* An unsent request has put no code anywhere.
LEMMA OpensCodesKept ==
  ASSUME IInv, CodeInv, NEW r \in Requests, Opens(r), UNCHANGED <<challenge, sent, broke>>
  PROVE  CodeInv'
  <1>1. request[r].pc = "unsent" /\ Rest(r) /\ ~InFlight(r)
    BY DEF Opens, InFlight
  <1>2. \A s \in Starts : s \in Requests
    BY DEF Requests
  <1>3. \A c \in Challenges, s \in Starts : HasCode(c, s) => s # r
    BY <1>1 DEF CodeInv, CodesTheirs
  <1>4. \A s \in Starts, u \in Users : <<s, u>> \in sent => s # r
    BY <1>1 DEF CodeInv, SentAnswered
  <1>5. \A q \in Requests : q # r => request'[q] = request[q]
    BY <1>1 DEF Rest
  <1>6. CodesTheirs'
    BY <1>2, <1>3, <1>5 DEF CodeInv, CodesTheirs, HasCode, InFlight
  <1>7. SentAnswered'
    BY <1>2, <1>4, <1>5 DEF CodeInv, SentAnswered
  <1>8. CodesOut'
    BY <1>2, <1>3, <1>5 DEF CodeInv, CodesOut, HasCode, InFlight
  <1> QED BY <1>6, <1>7, <1>8 DEF CodeInv

LEMMA SameCodes ==
  ASSUME CodeInv, UNCHANGED <<request, sent, broke>>,
         \A c \in Challenges, s \in Starts : HasCode(c, s)' => HasCode(c, s)
  PROVE  CodeInv'
  BY DEF CodeInv, CodesTheirs, SentAnswered, CodesOut, InFlight

LEMMA NextCodes ==
  ASSUME IInv, CodeInv, [Next]_vars
  PROVE  CodeInv'
  <1> USE DEF history
  <1>1. CASE \E r \in Requests : Step(r)
    BY <1>1, StepCodesKept
  <1>2. CASE \E r \in Starts, c \in Challenges, u \in Users : SendStart(r, c, u)
    BY <1>2, StartOpens, OpensCodesKept DEF SendStart
  <1>3. CASE \E r \in Verifications, c \in Challenges :
              \E code \in {s[1] : s \in sent} \cup {None} : SendVerify(r, c, code)
    BY <1>3, VerifyOpens, OpensCodesKept DEF SendVerify
  <1>4. CASE \E r \in Passwords, o \in Owners, right \in BOOLEAN : SendPassword(r, o, right)
    BY <1>4, PasswordOpens, OpensCodesKept DEF SendPassword
  <1>5. CASE \E c \in Challenges : CreateChallenge(c)
    <2>1. PICK c \in Challenges : CreateChallenge(c)
      BY <1>5
    <2>2. \A s \in Starts : s # None
      BY LoginAssumption DEF Requests
    <2>3. \A d \in Challenges, s \in Starts : HasCode(d, s)' => HasCode(d, s)
      BY <2>1, <2>2, CreateEffect DEF HasCode, Others
    <2> QED BY <2>1, <2>3, CreateSame, SameCodes
  <1>6. CASE Idle
    <2>1. \A d \in Challenges, s \in Starts : HasCode(d, s)' => HasCode(d, s)
      BY <1>6 DEF HasCode, Idle
    <2> QED BY <1>6, <2>1, SameCodes DEF Idle
  <1> QED BY <1>1, <1>2, <1>3, <1>4, <1>5, <1>6, NextCases

LEMMA InitCodes == Init => CodeInv /\ OneAtATime
  <1> SUFFICES ASSUME Init PROVE CodeInv /\ OneAtATime
    OBVIOUS
  <1>1. \A r \in Requests : ~InFlight(r)
    BY DEF Init, InFlight
  <1>2. \A c \in Challenges, s \in Starts : ~HasCode(c, s)
    BY DEF Init, HasCode
  <1>3. sent = {}
    BY DEF Init
  <1> QED BY <1>1, <1>2, <1>3 DEF CodeInv, CodesTheirs, SentAnswered, CodesOut, OneAtATime

\* The page that polls the status of a login challenge is told that the code
\* was sent only when it was, or an update of the bot still sends it, or a
\* request was broken off: no interleaving leaves a code in a row that nobody
\* receives (auth/telegram_auth.py, company/telegram_webhook.py).
THEOREM CodesReachTheirUser == Spec => []CodesAreSent
  <1>1. ASSUME IInv, CodeInv PROVE CodesAreSent
    <2> SUFFICES ASSUME NEW c \in Challenges, challenge[c] # None,
                        ChallengeStatus(c) = "otp_sent", Working("start", c) = {}, ~broke
                 PROVE  \E u \in Users : <<challenge[c].code, u>> \in sent
      BY DEF CodesAreSent
    <2>1. challenge[c] \in Rows /\ challenge[c].code # None
      BY <1>1 DEF ChallengeStatus, IInv, TypeOK
    <2>2. PICK s \in Starts : s = challenge[c].code
      BY <2>1, RowFields
    <2>3. HasCode(c, s) /\ s \in Requests
      BY <2>2 DEF HasCode, Requests
    <2>4. CASE InFlight(s)
      <3>1. request[s].challenge = c /\ request[s].pc \in {"rate", "send"}
        BY <1>1, <2>3, <2>4 DEF CodeInv, CodesTheirs
      <3>2. request[s].op = "start"
        BY <1>1, <2>3, <2>4, <3>1, KindAt
      <3> QED BY <2>3, <2>4, <3>1, <3>2 DEF Working
    <2> QED BY <1>1, <2>2, <2>3, <2>4 DEF CodeInv, CodesOut
  <1> QED BY <1>1, InitIInv, InitCodes, NextIInv, NextCodes, PTL DEF Spec


-----------------------------------------------------------------------------
(* Whoever logs in was sent the code *)

Single(c) == <<"start", c>> \notin overlapped

\* The user in the row is the one whom its code was sent or will be.
CodeForUser ==
    \A c \in Challenges, s \in Starts : (Single(c) /\ HasCode(c, s)) =>
        /\ \A u \in Users : <<s, u>> \in sent => u = challenge[c].user
        /\ InFlight(s) => request[s].account = challenge[c].user

\* Until it stores its code, an update of the bot knows the user in the row.
UserSeen ==
    \A r \in Requests :
        /\ InFlight(r) /\ request[r].op = "start" /\ request[r].pc \in {"limit", "check", "store"}
        /\ Single(request[r].challenge)
        => challenge[request[r].challenge].user = request[r].seen.user

\* The right code is one that was sent to the user in the row that was read.
RightSent ==
    \A r \in Requests :
        /\ InFlight(r) /\ request[r].op = "verify" /\ request[r].right
        /\ Single(request[r].challenge)
        => <<request[r].seen.code, request[r].account>> \in sent

TheirInv == CodeForUser /\ UserSeen /\ RightSent /\ LoginIsTheirs

LEMMA StepUser ==
  ASSUME IInv, NEW r \in Requests, Step(r), NEW c \in Challenges, challenge[c] # None
  PROVE  \/ challenge'[c].user = challenge[c].user
         \/ StoreCode(r) /\ c = request[r].challenge
  <1>1. CASE UNCHANGED challenge
    BY <1>1
  <1>2. CASE ~UNCHANGED challenge
    <2>1. PICK d \in Challenges : d = request[r].challenge
      BY <1>2, StepChallenge
    <2>2. CASE StoreCode(r)
      BY <2>1, <2>2, StoreEffect DEF Others
    <2>3. CASE WrongCode(r)
      BY <2>1, <2>3, WrongEffect DEF Others, CodeAlike
    <2>4. CASE UseChallenge(r)
      BY <2>1, <2>4, UseEffect DEF Others, CodeAlike
    <2> QED BY <1>2, <2>2, <2>3, <2>4, StepChallenge
  <1> QED BY <1>1, <1>2

\* Nobody goes back to before the code is stored.
LEMMA StepBefore ==
  ASSUME IInv, NEW r \in Requests, Step(r), request[r].op = "start",
         request'[r].pc \in {"limit", "check", "store"}
  PROVE  request[r].pc \in {"limit", "check", "store"}
  <1>1. InFlight(r)
    BY StepMoves DEF Moves
  <1>2. request[r].pc \in StartPcs
    BY <1>1, KindAt DEF StartShape
  <1> QED BY <1>2, StepAfterStore DEF StartPcs

LEMMA StepLogins ==
  ASSUME NEW r \in Requests, Step(r)
  PROVE  UNCHANGED logins \/ (Succeed(r) /\ request[r].op = "verify")
  <1> USE DEF history
  <1>1. CASE CheckRate(r) \/ StoreCode(r) \/ SetRate(r) \/ SendCode(r) \/ CheckLock(r)
    BY <1>1 DEF CheckRate, StoreCode, SetRate, SendCode, CheckLock
  <1>2. CASE WrongCode(r) \/ RightCode(r) \/ UseChallenge(r) \/ ComparePassword(r)
    BY <1>2 DEF WrongCode, RightCode, UseChallenge, ComparePassword
  <1>3. CASE Succeed(r) \/ Increment(r) \/ SetLifetime(r)
    BY <1>3 DEF Succeed, Increment, SetLifetime
  <1>4. CASE Lock(r) \/ ResetCount(r) \/ BreakOff(r)
    BY <1>4 DEF Lock, ResetCount, BreakOff
  <1> QED BY <1>1, <1>2, <1>3, <1>4 DEF Step

\* Who is logged in.
LEMMA SucceedLogin ==
  ASSUME IInv, NEW r \in Requests, Succeed(r), request[r].op = "verify"
  PROVE  /\ logins' = logins \cup
              {[by |-> r, challenge |-> request[r].challenge,
                user |-> request[r].account, code |-> request[r].seen.code]}
         /\ InFlight(r) /\ request[r].pc = "clear" /\ request[r].right
         /\ request'[r].pc = "answered" /\ Rest(r)
         /\ UNCHANGED <<challenge, overlapped, tries, sent>>
  <1>1. InFlight(r) /\ request[r].pc = "clear"
    BY DEF Succeed, At, InFlight
  <1>2. request[r].right
    BY <1>1, KindAt DEF VerifyShape
  <1>3. Answer(r, "temporary") \/ Answer(r, "token")
    BY DEF Succeed
  <1>4. Rest(r) /\ request'[r].pc = "answered"
    BY <1>3, AnswerEffect DEF IInv
  <1> QED BY <1>1, <1>2, <1>4 DEF Succeed

LEMMA StepTheirs ==
  ASSUME IInv, OneAtATime, CodeInv, TheirInv, NEW r \in Requests, Step(r)
  PROVE  TheirInv'
  <1>1. InFlight(r) /\ Rest(r) /\ Steady /\ overlapped' = overlapped
    BY StepMoves, StepSteady, StepOverlap DEF Moves
  <1>2. ASSUME NEW c \in Challenges, NEW s \in Starts, Single(c)', HasCode(c, s)'
        PROVE  /\ \A u \in Users : <<s, u>> \in sent' => u = challenge'[c].user
               /\ InFlight(s)' => request'[s].account = challenge'[c].user
    <2>1. s \in Requests /\ Single(c)
      BY <1>1, <1>2 DEF Requests, Single
    <2>2. CASE StoreCode(r) /\ s = r /\ c = request[r].challenge
      <3>1. /\ request[r].pc = "store" /\ request[r].op = "start"
            /\ request'[r].account = request[r].account
        BY <2>2, StoreMoves DEF Carried
      <3>2. challenge[c].user = request[r].seen.user
        BY <1>1, <2>1, <2>2, <3>1 DEF TheirInv, UserSeen
      <3>3. challenge'[c].user = request[r].account
        BY <2>2, <3>2, StoreEffect
      <3>4. \A u \in Users : <<s, u>> \notin sent
        BY <2>2, <3>1 DEF CodeInv, SentAnswered
      <3>5. UNCHANGED sent
        BY <2>2 DEF StoreCode, history
      <3> QED BY <2>2, <3>1, <3>3, <3>4, <3>5
    <2>3. CASE HasCode(c, s) /\ challenge'[c].user = challenge[c].user
      <3>1. /\ \A u \in Users : <<s, u>> \in sent => u = challenge[c].user
            /\ InFlight(s) => request[s].account = challenge[c].user
        BY <2>1, <2>3 DEF TheirInv, CodeForUser
      <3>2. InFlight(s)' => request'[s].account = challenge'[c].user
        BY <1>1, <2>1, <2>3, <3>1 DEF Steady, Carried
      <3>3. CASE UNCHANGED sent
        BY <2>3, <3>1, <3>2, <3>3
      <3>4. CASE SendCode(r)
        BY <1>1, <2>3, <3>1, <3>2, <3>4 DEF SendCode
      <3> QED BY <3>3, <3>4, StepSent
    <2> QED BY <1>2, <2>2, <2>3, StepCodes
  <1>3. CodeForUser'
    BY <1>2 DEF CodeForUser
  <1>4. ASSUME NEW q \in Requests, InFlight(q)', request'[q].op = "start",
               request'[q].pc \in {"limit", "check", "store"}, Single(request[q].challenge)'
        PROVE  challenge'[request'[q].challenge].user = request'[q].seen.user
    <2>1. InFlight(q) /\ Carried(q)
      BY <1>1, <1>4 DEF Steady
    <2>2. PICK c \in Challenges : c = request[q].challenge
      BY <1>4, <2>1, RowThere DEF Carried
    <2>3. /\ request'[q].challenge = c /\ request[q].op = "start" /\ challenge[c] # None
          /\ request'[q].seen = request[q].seen
      BY <1>4, <2>1, <2>2, RowThere DEF Carried
    <2>4. request[q].pc \in {"limit", "check", "store"} /\ Single(c)
      BY <1>1, <1>4, <2>2, <2>3, StepBefore DEF Rest, Single
    <2>5. challenge[c].user = request[q].seen.user
      BY <2>1, <2>2, <2>3, <2>4 DEF TheirInv, UserSeen
    <2>6. ASSUME StoreCode(r), c = request[r].challenge PROVE FALSE
      <3>1. request[r].op = "start" /\ request'[r].pc = "rate"
        BY <2>6, StoreMoves
      <3>2. r # q
        BY <1>4, <3>1
      <3> QED BY <1>1, <2>1, <2>2, <2>3, <2>4, <2>6, <3>1, <3>2 DEF OneAtATime, Single
    <2> QED BY <2>3, <2>5, <2>6, StepUser
  <1>5. UserSeen'
    BY <1>4 DEF UserSeen
  <1>6. sent \subseteq sent'
    BY StepSent DEF SendCode
  <1>7. RightSent'
    BY <1>1, <1>6 DEF TheirInv, RightSent, Steady, Carried, Single
  <1>8. LoginIsTheirs'
    <2>1. CASE UNCHANGED logins
      BY <1>1, <1>6, <2>1 DEF TheirInv, LoginIsTheirs
    <2>2. CASE Succeed(r) /\ request[r].op = "verify"
      <3>1. PICK l : l = [by |-> r, challenge |-> request[r].challenge,
                          user |-> request[r].account, code |-> request[r].seen.code]
        OBVIOUS
      <3>2. logins' = logins \cup {l} /\ request[r].right
        BY <2>2, <3>1, SucceedLogin
      <3>3. <<"start", l.challenge>> \notin overlapped => <<l.code, l.user>> \in sent
        BY <1>1, <2>2, <3>1, <3>2 DEF TheirInv, RightSent, Single
      <3> QED BY <1>1, <1>6, <3>2, <3>3 DEF TheirInv, LoginIsTheirs
    <2> QED BY <2>1, <2>2, StepLogins
  <1> QED BY <1>3, <1>5, <1>7, <1>8 DEF TheirInv

\* Everything but one request that is new stays as it is.
LEMMA OpensTheirs ==
  ASSUME IInv, CodeInv, TheirInv, NEW r \in Requests, Opens(r),
         UNCHANGED <<challenge, sent, logins>>, overlapped \subseteq overlapped',
         InFlight(r)' /\ request'[r].op = "start" =>
           challenge[request'[r].challenge].user = request'[r].seen.user,
         InFlight(r)' /\ request'[r].op = "verify" /\ request'[r].right
             /\ Single(request[r].challenge)' =>
           <<request'[r].seen.code, request'[r].account>> \in sent
  PROVE  TheirInv'
  <1>1. request[r].pc = "unsent" /\ Rest(r)
    BY DEF Opens
  <1>2. \A s \in Starts : s \in Requests
    BY DEF Requests
  <1>3. \A c : Single(c)' => Single(c)
    BY DEF Single
  <1>4. \A c \in Challenges, s \in Starts : HasCode(c, s)' => HasCode(c, s) /\ s # r
    BY <1>1 DEF CodeInv, CodesTheirs, HasCode
  <1>5. \A q \in Requests : q # r => request'[q] = request[q]
    BY <1>1 DEF Rest
  <1>6. CodeForUser'
    BY <1>2, <1>3, <1>4, <1>5 DEF TheirInv, CodeForUser, InFlight
  <1>7. UserSeen'
    BY <1>3, <1>5 DEF TheirInv, UserSeen, InFlight
  <1>8. RightSent'
    BY <1>3, <1>5 DEF TheirInv, RightSent, InFlight
  <1>9. LoginIsTheirs'
    BY DEF TheirInv, LoginIsTheirs
  <1> QED BY <1>6, <1>7, <1>8, <1>9 DEF TheirInv

LEMMA StillTheirs ==
  ASSUME IInv, TheirInv, UNCHANGED <<request, sent, logins, overlapped>>,
         \A c \in Challenges : challenge[c] # None => challenge'[c] = challenge[c],
         \A c \in Challenges, s \in Starts : HasCode(c, s)' => HasCode(c, s)
  PROVE  TheirInv'
  <1>1. CodeForUser'
    BY DEF TheirInv, CodeForUser, InFlight, Single, HasCode
  <1>2. UserSeen'
    <2>1. ASSUME NEW q \in Requests, InFlight(q), request[q].op = "start",
                 request[q].pc \in {"limit", "check", "store"}, Single(request[q].challenge)
          PROVE  challenge'[request[q].challenge].user = request[q].seen.user
      BY <2>1, RowThere DEF TheirInv, UserSeen
    <2> QED BY <2>1 DEF UserSeen, InFlight, Single
  <1>3. RightSent' /\ LoginIsTheirs'
    BY DEF TheirInv, RightSent, LoginIsTheirs, InFlight, Single
  <1> QED BY <1>1, <1>2, <1>3 DEF TheirInv

LEMMA NextTheirs ==
  ASSUME IInv, OneAtATime, CodeInv, TheirInv, [Next]_vars
  PROVE  TheirInv'
  <1> USE DEF history
  <1>1. overlapped \subseteq overlapped'
    BY OverlapGrows
  <1>2. CASE \E r \in Requests : Step(r)
    BY <1>2, StepTheirs
  <1>3. ASSUME NEW r \in Starts, NEW c \in Challenges, NEW u \in Users, SendStart(r, c, u)
        PROVE  TheirInv'
    <2>1. r \in Requests /\ Opens(r) /\ UNCHANGED <<challenge, sent, logins>>
      BY <1>3, StartOpens DEF SendStart
    <2>2. InFlight(r)' => request'[r].op = "start" /\ request'[r].challenge = c
                            /\ request'[r].seen = challenge[c]
      BY <1>3, StartOpens DEF InFlight
    <2> QED BY <1>1, <2>1, <2>2, OpensTheirs
  <1>4. ASSUME NEW r \in Verifications, NEW c \in Challenges,
               NEW code \in {s[1] : s \in sent} \cup {None}, SendVerify(r, c, code)
        PROVE  TheirInv'
    <2>1. r \in Requests /\ Opens(r) /\ UNCHANGED <<challenge, sent, logins>>
      BY <1>4, VerifyOpens DEF SendVerify
    <2>2. ASSUME InFlight(r)', request'[r].right, Single(request[r].challenge)'
          PROVE  <<request'[r].seen.code, request'[r].account>> \in sent
      <3>1. /\ request'[r].challenge = c /\ request'[r].account = challenge[c].user
            /\ code = challenge[c].code /\ request'[r].seen = challenge[c]
            /\ Verifiable(challenge[c]) /\ challenge[c] \in Rows
        BY <1>4, <2>2, VerifyOpens DEF InFlight
      <3>2. code # None
        BY <3>1 DEF Verifiable
      <3>3. PICK p \in sent : p[1] = code
        BY <3>2
      <3>4. PICK s \in Starts, u \in Users : p = <<s, u>>
        BY DEF IInv, TypeOK
      <3>5. HasCode(c, s) /\ <<s, u>> \in sent /\ s = code
        BY <3>1, <3>3, <3>4, NoneIsNoRow DEF HasCode
      <3>6. Single(c)
        BY <1>1, <2>2, <3>1 DEF Single
      <3>7. u = challenge[c].user
        BY <3>5, <3>6 DEF TheirInv, CodeForUser
      <3> QED BY <3>1, <3>5, <3>7
    <2>3. InFlight(r)' => request'[r].op = "verify"
      BY <1>4, VerifyOpens DEF InFlight
    <2> QED BY <1>1, <2>1, <2>2, <2>3, OpensTheirs
  <1>5. ASSUME NEW r \in Passwords, NEW o \in Owners, NEW right \in BOOLEAN,
               SendPassword(r, o, right)
        PROVE  TheirInv'
    <2>1. r \in Requests /\ Opens(r) /\ UNCHANGED <<challenge, sent, logins>>
      BY <1>5, PasswordOpens DEF SendPassword
    <2>2. request'[r].op = "password"
      BY <1>5, PasswordOpens
    <2> QED BY <1>1, <2>1, <2>2, OpensTheirs
  <1>6. CASE \E c \in Challenges : CreateChallenge(c)
    <2>1. PICK c \in Challenges : CreateChallenge(c)
      BY <1>6
    <2>2. \A s \in Starts : s # None
      BY LoginAssumption DEF Requests
    <2>3. \A d \in Challenges, s \in Starts : HasCode(d, s)' => HasCode(d, s)
      BY <2>1, <2>2, CreateEffect DEF HasCode, Others
    <2>4. \A d \in Challenges : challenge[d] # None => challenge'[d] = challenge[d]
      BY <2>1, CreateEffect DEF Others
    <2> QED BY <2>1, <2>3, <2>4, CreateSame, StillTheirs
  <1>7. CASE Idle
    <2>1. \A d \in Challenges, s \in Starts : HasCode(d, s)' => HasCode(d, s)
      BY <1>7 DEF HasCode, Idle
    <2> QED BY <1>7, <2>1, StillTheirs DEF Idle
  <1> QED BY <1>2, <1>3, <1>4, <1>5, <1>6, <1>7, NextCases

LEMMA InitTheirs == Init => TheirInv
  <1> SUFFICES ASSUME Init PROVE TheirInv
    OBVIOUS
  <1>1. \A r \in Requests : ~InFlight(r)
    BY DEF Init, InFlight
  <1>2. \A c \in Challenges, s \in Starts : ~HasCode(c, s)
    BY DEF Init, HasCode
  <1>3. logins = {}
    BY DEF Init
  <1> QED BY <1>1, <1>2, <1>3 DEF TheirInv, CodeForUser, UserSeen, RightSent, LoginIsTheirs

\* Whoever logs in with a code was sent this code by the bot, however often
\* and by whomever the link was opened, as long as no two updates of the bot
\* worked on the challenge at once (company/telegram_webhook.py stores user
\* and code, auth/telegram_auth.py reads them once).
THEOREM LoginsAreTheirs == Spec => []LoginIsTheirs
  <1>1. TheirInv => LoginIsTheirs
    BY DEF TheirInv
  <1> QED
    BY <1>1, InitIInv, InitCodes, InitTheirs, NextIInv, NextCodes, NextOne, NextTheirs, PTL
    DEF Spec


-----------------------------------------------------------------------------
(* A challenge is spent *)

Turns(c) == <<"verify", c>> \notin overlapped

Ver(r, c) == InFlight(r) /\ request[r].op = "verify" /\ request[r].challenge = c

\* Once it logged in, a challenge is used and nobody verifies it any more.
LoginsSpend ==
    \A l \in logins : Turns(l.challenge) =>
        /\ challenge[l.challenge] # None /\ challenge[l.challenge].used
        /\ \A r \in Requests : ~Ver(r, l.challenge)

OneLogin ==
    \A l \in logins, m \in logins :
        (Turns(l.challenge) /\ l.challenge = m.challenge) => l = m

\* The row counts every wrong code.
TriesCounted ==
    \A c \in Challenges : Turns(c) =>
        /\ challenge[c] = None => tries[c] = 0
        /\ challenge[c] # None => /\ tries[c] <= challenge[c].attempts
                                  /\ challenge[c].attempts <= MaxAttempts

\* What a verification has read is still so when it writes.
SpentSeen ==
    \A r \in Requests, c \in Challenges : (Turns(c) /\ Ver(r, c)) =>
        /\ request[r].pc \in {"check", "compare"} =>
             request[r].seen.attempts = challenge[c].attempts
        /\ request[r].pc = "clear" => challenge[c].used

SpentInv == LoginsSpend /\ OneLogin /\ TriesCounted /\ SpentSeen

LEMMA StepSpends ==
  ASSUME IInv, NEW r \in Requests, Step(r), NEW c \in Challenges
  PROVE  /\ challenge[c] = None => challenge'[c] = None
         /\ challenge[c] # None =>
              /\ challenge'[c] # None
              /\ challenge[c].used => challenge'[c].used
              /\ \/ challenge'[c].attempts = challenge[c].attempts
                 \/ WrongCode(r) /\ c = request[r].challenge
  <1>1. CASE UNCHANGED challenge
    BY <1>1
  <1>2. CASE ~UNCHANGED challenge
    <2>1. PICK d \in Challenges : d = request[r].challenge
      BY <1>2, StepChallenge
    <2>2. CASE StoreCode(r)
      BY <2>1, <2>2, StoreEffect, NoneIsNoRow DEF Others, SpentAlike
    <2>3. CASE WrongCode(r)
      BY <2>1, <2>3, WrongEffect, NoneIsNoRow DEF Others
    <2>4. CASE UseChallenge(r)
      BY <2>1, <2>4, UseEffect, NoneIsNoRow DEF Others
    <2> QED BY <1>2, <2>2, <2>3, <2>4, StepChallenge
  <1> QED BY <1>1, <1>2

LEMMA StepTries ==
  ASSUME NEW r \in Requests, Step(r)
  PROVE  UNCHANGED tries \/ WrongCode(r)
  <1> USE DEF history
  <1>1. CASE CheckRate(r) \/ StoreCode(r) \/ SetRate(r) \/ SendCode(r) \/ CheckLock(r)
    BY <1>1 DEF CheckRate, StoreCode, SetRate, SendCode, CheckLock
  <1>2. CASE RightCode(r) \/ UseChallenge(r) \/ ComparePassword(r)
    BY <1>2 DEF RightCode, UseChallenge, ComparePassword
  <1>3. CASE Succeed(r) \/ Increment(r) \/ SetLifetime(r)
    BY <1>3 DEF Succeed, Increment, SetLifetime
  <1>4. CASE Lock(r) \/ ResetCount(r) \/ BreakOff(r)
    BY <1>4 DEF Lock, ResetCount, BreakOff
  <1> QED BY <1>1, <1>2, <1>3, <1>4 DEF Step

\* Where a failure or a success goes on.
LEMMA FailureMoves ==
  ASSUME IInv, NEW r \in Requests, Increment(r) \/ SetLifetime(r) \/ Lock(r) \/ ResetCount(r)
  PROVE  request'[r].pc \in {"expire", "lock", "reset", "answered"}
  <1>1. InFlight(r) /\ TypeOK
    BY DEF Increment, SetLifetime, Lock, ResetCount, At, InFlight, IInv
  <1>2. ASSUME NEW n, CompareCount(r, n)
        PROVE  request'[r].pc \in {"lock", "answered"}
    BY <1>1, <1>2, GotoEffect, AnswerEffect DEF CompareCount, Pcs, VerifyPcs
  <1>3. CASE Increment(r)
    BY <1>1, <1>2, <1>3, GotoEffect DEF Increment, Pcs, VerifyPcs
  <1>4. CASE SetLifetime(r)
    BY <1>2, <1>4 DEF SetLifetime
  <1>5. CASE Lock(r)
    BY <1>1, <1>5, GotoEffect DEF Lock, Pcs, VerifyPcs
  <1>6. CASE ResetCount(r)
    BY <1>1, <1>6, AnswerEffect DEF ResetCount
  <1> QED BY <1>3, <1>4, <1>5, <1>6

LEMMA StepVerify ==
  ASSUME IInv, NEW r \in Requests, Step(r), request[r].op = "verify", InFlight(r)'
  PROVE  \/ request[r].pc = "check" /\ request'[r].pc = "compare"
         \/ request'[r].pc \in {"incr", "use", "expire", "lock", "reset"}
         \/ UseChallenge(r) /\ request'[r].pc = "clear"
  <1>1. InFlight(r) /\ TypeOK
    BY StepMoves DEF Moves, IInv
  <1>2. request[r].pc \in VerifyPcs
    BY <1>1, KindAt DEF VerifyShape
  <1>3. ASSUME NEW a \in {"token", "temporary", "none"}, Answer(r, a) PROVE FALSE
    BY <1>1, <1>3, AnswerEffect DEF InFlight
  <1>4. CASE CheckRate(r) \/ StoreCode(r) \/ SetRate(r) \/ SendCode(r) \/ ComparePassword(r)
    BY <1>2, <1>4 DEF CheckRate, StoreCode, SetRate, SendCode, ComparePassword, At, VerifyPcs
  <1>5. CASE CheckLock(r)
    <2>1. Goto(r, "compare") /\ request[r].pc = "check"
      BY <1>3, <1>5 DEF CheckLock, At
    <2> QED BY <1>1, <2>1, GotoEffect DEF Pcs, VerifyPcs
  <1>6. CASE WrongCode(r)
    BY <1>1, <1>6, GotoEffect DEF WrongCode, Pcs, VerifyPcs
  <1>7. CASE RightCode(r)
    BY <1>1, <1>3, <1>7, GotoEffect DEF RightCode, Pcs, VerifyPcs
  <1>8. CASE UseChallenge(r)
    BY <1>1, <1>8, GotoEffect DEF UseChallenge, Pcs, VerifyPcs
  <1>9. CASE Succeed(r)
    BY <1>3, <1>9 DEF Succeed
  <1>10. CASE Increment(r) \/ SetLifetime(r) \/ Lock(r) \/ ResetCount(r)
    <2>1. request'[r].pc \in {"expire", "lock", "reset", "answered"}
      BY <1>10, FailureMoves
    <2> QED BY <2>1 DEF InFlight
  <1>11. CASE BreakOff(r)
    BY <1>3, <1>11 DEF BreakOff
  <1> QED BY <1>4, <1>5, <1>6, <1>7, <1>8, <1>9, <1>10, <1>11 DEF Step

LEMMA StepSpent ==
  ASSUME IInv, OneAtATime, SpentInv, NEW r \in Requests, Step(r)
  PROVE  SpentInv'
  <1>1. InFlight(r) /\ Rest(r) /\ Steady /\ overlapped' = overlapped
    BY StepMoves, StepSteady, StepOverlap DEF Moves
  <1>2. \A c : Turns(c)' = Turns(c)
    BY <1>1 DEF Turns
  <1>3. \A q \in Requests, c \in Challenges : Ver(q, c)' => Ver(q, c)
    BY <1>1 DEF Ver, Steady, Carried
  <1>4. \A l \in logins : l.challenge \in Challenges
    BY DEF IInv, TypeOK
  <1>5. \A q \in Requests, c \in Challenges : Turns(c) /\ Ver(r, c) /\ Ver(q, c) => q = r
    BY <1>1 DEF OneAtATime, Ver, Turns
  <1>6. LoginsSpend' /\ OneLogin'
    <2>1. CASE UNCHANGED logins
      <3>1. OneLogin'
        BY <1>2, <2>1 DEF SpentInv, OneLogin
      <3> QED BY <1>2, <1>3, <1>4, <2>1, <3>1, StepSpends DEF SpentInv, LoginsSpend
    <2>2. CASE Succeed(r) /\ request[r].op = "verify"
      <3>1. PICK l : l = [by |-> r, challenge |-> request[r].challenge,
                          user |-> request[r].account, code |-> request[r].seen.code]
        OBVIOUS
      <3>2. /\ logins' = logins \cup {l} /\ request[r].pc = "clear" /\ ~InFlight(r)'
            /\ challenge' = challenge
        BY <2>2, <3>1, SucceedLogin DEF InFlight
      <3>3. l.challenge \in Challenges /\ Ver(r, l.challenge)
        BY <1>1, <2>2, <3>1, RowThere DEF Ver
      <3>4. Turns(l.challenge) => challenge[l.challenge] # None /\ challenge[l.challenge].used
        BY <1>1, <2>2, <3>1, <3>2, <3>3, RowThere DEF SpentInv, SpentSeen
      <3>5. \A q \in Requests : Turns(l.challenge) => ~Ver(q, l.challenge)'
        BY <1>3, <1>5, <3>2, <3>3 DEF Ver
      <3>6. LoginsSpend'
        BY <1>2, <1>3, <1>4, <3>2, <3>4, <3>5 DEF SpentInv, LoginsSpend
      <3>7. \A m \in logins : Turns(m.challenge) => m.challenge # l.challenge
        BY <3>3 DEF SpentInv, LoginsSpend
      <3>8. OneLogin'
        BY <1>2, <3>2, <3>7 DEF SpentInv, OneLogin
      <3> QED BY <3>6, <3>8
    <2> QED BY <2>1, <2>2, StepLogins
  <1>7. ASSUME NEW c \in Challenges, Turns(c)
        PROVE  /\ challenge'[c] = None => tries'[c] = 0
               /\ challenge'[c] # None => /\ tries'[c] <= challenge'[c].attempts
                                          /\ challenge'[c].attempts <= MaxAttempts
    <2>1. CASE WrongCode(r) /\ c = request[r].challenge
      <3>1. /\ request[r].pc = "compare" /\ request[r].op = "verify" /\ Ver(r, c)
            /\ challenge'[c].attempts = request[r].seen.attempts + 1 /\ challenge'[c] # None
            /\ challenge[c] \in Rows
        BY <1>1, <2>1, WrongEffect, NoneIsNoRow DEF WrongCode, At, Ver
      <3>2. /\ request[r].seen.attempts = challenge[c].attempts
            /\ request[r].seen.attempts < MaxAttempts
        BY <1>1, <1>7, <3>1, KindAt DEF SpentInv, SpentSeen, VerifyShape
      <3>3. tries[c] <= challenge[c].attempts
        BY <1>7, <3>1, NoneIsNoRow DEF SpentInv, TriesCounted
      <3>4. tries'[c] = tries[c] + 1
        BY <2>1 DEF WrongCode, IInv, TypeOK
      <3>5. tries[c] \in Nat /\ challenge[c].attempts \in Nat /\ MaxAttempts \in Nat
        BY <3>1, RowFields, LoginAssumption DEF IInv, TypeOK
      <3> QED BY <3>1, <3>2, <3>3, <3>4, <3>5
    <2>2. CASE ~(WrongCode(r) /\ c = request[r].challenge)
      <3>1. tries'[c] = tries[c]
        BY <2>2, StepTries DEF WrongCode, IInv, TypeOK
      <3> QED BY <1>7, <2>2, <3>1, StepSpends DEF SpentInv, TriesCounted
    <2> QED BY <2>1, <2>2
  <1>8. TriesCounted'
    BY <1>2, <1>7 DEF TriesCounted
  <1>9. ASSUME NEW q \in Requests, NEW c \in Challenges, Turns(c), Ver(q, c)'
        PROVE  /\ request'[q].pc \in {"check", "compare"} =>
                    request'[q].seen.attempts = challenge'[c].attempts
               /\ request'[q].pc = "clear" => challenge'[c].used
    <2>1. Ver(q, c) /\ request'[q].seen = request[q].seen
      BY <1>1, <1>3, <1>9 DEF Ver, Steady, Carried
    <2>2. challenge[c] # None
      BY <2>1, RowThere DEF Ver
    <2>3. /\ request[q].pc \in {"check", "compare"} =>
               request[q].seen.attempts = challenge[c].attempts
          /\ request[q].pc = "clear" => challenge[c].used
      BY <1>9, <2>1 DEF SpentInv, SpentSeen
    <2>4. CASE q = r
      <3>1. \/ request[r].pc = "check" /\ request'[r].pc = "compare"
            \/ request'[r].pc \in {"incr", "use", "expire", "lock", "reset"}
            \/ UseChallenge(r) /\ request'[r].pc = "clear"
        BY <1>9, <2>1, <2>4, StepVerify DEF Ver
      <3>2. CASE request[r].pc = "check" /\ request'[r].pc = "compare"
        <4>1. ~WrongCode(r)
          BY <3>2 DEF WrongCode, At
        <4> QED BY <2>1, <2>2, <2>3, <2>4, <3>2, <4>1, StepSpends
      <3>3. CASE UseChallenge(r) /\ request'[r].pc = "clear"
        BY <2>1, <2>4, <3>3, UseEffect DEF Ver
      <3> QED BY <2>4, <3>1, <3>2, <3>3
    <2>5. CASE q # r
      <3>1. request'[q] = request[q]
        BY <1>1, <2>5 DEF Rest
      <3>2. ~(WrongCode(r) /\ c = request[r].challenge)
        BY <1>1, <1>5, <1>9, <2>1, <2>5 DEF Ver, WrongCode
      <3> QED BY <2>2, <2>3, <3>1, <3>2, StepSpends
    <2> QED BY <2>4, <2>5
  <1>10. SpentSeen'
    BY <1>2, <1>9 DEF SpentSeen
  <1> QED BY <1>6, <1>8, <1>10 DEF SpentInv

\* A request begins: a verification with the row as it is, of a challenge
\* that is not used.
LEMMA OpensSpent ==
  ASSUME IInv, SpentInv, NEW r \in Requests, Opens(r),
         UNCHANGED <<challenge, logins, tries>>, overlapped \subseteq overlapped',
         NEW c \in Challenges,
         InFlight(r)' /\ request'[r].op = "verify" =>
           /\ request'[r].challenge = c /\ request'[r].seen = challenge[c]
           /\ request'[r].pc = "check" /\ ~challenge[c].used
  PROVE  SpentInv'
  <1>1. \A d : Turns(d)' => Turns(d)
    BY DEF Turns
  <1>2. \A q \in Requests : q # r => request'[q] = request[q]
    BY DEF Opens, Rest
  <1>3. \A q \in Requests, d \in Challenges : (q # r /\ Ver(q, d)') => Ver(q, d)
    BY <1>2 DEF Ver, InFlight
  <1>4. \A d \in Challenges : Ver(r, d)' => /\ d = c /\ request'[r].seen = challenge[c]
                                            /\ request'[r].pc = "check" /\ ~challenge[c].used
    BY DEF Ver
  <1>5. LoginsSpend'
    <2>1. ASSUME NEW l \in logins, Turns(l.challenge)'
          PROVE  /\ challenge[l.challenge] # None /\ challenge[l.challenge].used
                 /\ \A q \in Requests : ~Ver(q, l.challenge)'
      <3>1. l.challenge \in Challenges
        BY DEF IInv, TypeOK
      <3> QED BY <1>1, <1>3, <1>4, <2>1, <3>1 DEF SpentInv, LoginsSpend
    <2> QED BY <2>1 DEF LoginsSpend
  <1>6. OneLogin' /\ TriesCounted'
    BY <1>1 DEF SpentInv, OneLogin, TriesCounted
  <1>7. SpentSeen'
    BY <1>1, <1>2, <1>3, <1>4 DEF SpentInv, SpentSeen
  <1> QED BY <1>5, <1>6, <1>7 DEF SpentInv

LEMMA StillSpent ==
  ASSUME IInv, SpentInv, UNCHANGED <<request, logins, tries, overlapped>>,
         \A c \in Challenges : challenge[c] # None => challenge'[c] = challenge[c],
         \A c \in Challenges : (challenge[c] = None /\ challenge'[c] # None) =>
            challenge'[c].attempts = 0
  PROVE  SpentInv'
  <1>1. \A q \in Requests, d \in Challenges : Ver(q, d)' = Ver(q, d)
    BY DEF Ver, InFlight
  <1>2. \A l \in logins : l.challenge \in Challenges
    BY DEF IInv, TypeOK
  <1>3. \A c : Turns(c)' = Turns(c)
    BY DEF Turns
  <1>4. LoginsSpend' /\ OneLogin'
    BY <1>1, <1>2, <1>3 DEF SpentInv, LoginsSpend, OneLogin
  <1>5. TriesCounted'
    <2>1. 0 <= MaxAttempts /\ 0 <= 0
      BY LoginAssumption
    <2> QED BY <1>3, <2>1 DEF SpentInv, TriesCounted
  <1>6. SpentSeen'
    <2>1. \A q \in Requests, d \in Challenges : Ver(q, d) => challenge[d] # None
      BY RowThere DEF Ver
    <2> QED BY <1>1, <1>3, <2>1 DEF SpentInv, SpentSeen
  <1> QED BY <1>4, <1>5, <1>6 DEF SpentInv

LEMMA NextSpent ==
  ASSUME IInv, OneAtATime, SpentInv, [Next]_vars
  PROVE  SpentInv'
  <1> USE DEF history
  <1>1. overlapped \subseteq overlapped'
    BY OverlapGrows
  <1>2. CASE \E r \in Requests : Step(r)
    BY <1>2, StepSpent
  <1>3. ASSUME NEW r \in Starts, NEW c \in Challenges, NEW u \in Users, SendStart(r, c, u)
        PROVE  SpentInv'
    <2>1. r \in Requests /\ Opens(r) /\ UNCHANGED <<challenge, logins, tries>>
      BY <1>3, StartOpens DEF SendStart
    <2>2. InFlight(r)' => request'[r].op = "start"
      BY <1>3, StartOpens DEF InFlight
    <2> QED BY <1>1, <2>1, <2>2, OpensSpent
  <1>4. ASSUME NEW r \in Verifications, NEW c \in Challenges, NEW code, SendVerify(r, c, code)
        PROVE  SpentInv'
    <2>1. r \in Requests /\ Opens(r) /\ UNCHANGED <<challenge, logins, tries>>
      BY <1>4, VerifyOpens DEF SendVerify
    <2>2. InFlight(r)' => /\ request'[r].challenge = c /\ request'[r].seen = challenge[c]
                          /\ request'[r].pc = "check" /\ ~challenge[c].used
      BY <1>4, VerifyOpens DEF InFlight, Verifiable
    <2> QED BY <1>1, <2>1, <2>2, OpensSpent
  <1>5. ASSUME NEW r \in Passwords, NEW o \in Owners, NEW right \in BOOLEAN,
               SendPassword(r, o, right)
        PROVE  SpentInv'
    <2>1. r \in Requests /\ Opens(r) /\ UNCHANGED <<challenge, logins, tries>>
      BY <1>5, PasswordOpens DEF SendPassword
    <2>2. request'[r].op = "password"
      BY <1>5, PasswordOpens
    <2>3. CASE Challenges # {}
      BY <1>1, <2>1, <2>2, <2>3, OpensSpent
    <2>4. CASE Challenges = {}
      <3>1. logins = {} /\ logins' = {}
        BY <2>1, <2>4 DEF IInv, TypeOK
      <3> QED BY <2>4, <3>1 DEF SpentInv, LoginsSpend, OneLogin, TriesCounted, SpentSeen
    <2> QED BY <2>3, <2>4
  <1>6. CASE \E c \in Challenges : CreateChallenge(c)
    <2>1. PICK c \in Challenges : CreateChallenge(c)
      BY <1>6
    <2> QED BY <2>1, CreateEffect, CreateSame, StillSpent DEF Others
  <1>7. CASE Idle
    BY <1>7, StillSpent DEF Idle
  <1> QED BY <1>2, <1>3, <1>4, <1>5, <1>6, <1>7, NextCases

LEMMA InitSpent == Init => SpentInv
  <1> SUFFICES ASSUME Init PROVE SpentInv
    OBVIOUS
  <1>1. \A r \in Requests : ~InFlight(r)
    BY DEF Init, InFlight
  <1>2. logins = {} /\ \A c \in Challenges : challenge[c] = None /\ tries[c] = 0
    BY DEF Init
  <1> QED BY <1>1, <1>2 DEF SpentInv, LoginsSpend, OneLogin, TriesCounted, SpentSeen, Ver

\* A challenge whose verifications came one after the other logs in at most
\* once and never lets more than MaxAttempts wrong codes through, however many
\* codes the bot stored in it meanwhile (auth/telegram_auth.py reads the
\* attempts and the use before the lock is looked at and writes them after).
THEOREM ChallengesAreSpent == Spec => []ChallengeSpent
  <1>1. ASSUME IInv, SpentInv PROVE ChallengeSpent
    <2> SUFFICES ASSUME NEW c \in Challenges, <<"verify", c>> \notin overlapped
                 PROVE  /\ Cardinality({l \in logins : l.challenge = c}) <= 1
                        /\ tries[c] <= MaxAttempts
      BY DEF ChallengeSpent
    <2>1. Turns(c)
      BY DEF Turns
    <2>2. Cardinality({l \in logins : l.challenge = c}) <= 1
      <3>1. CASE {l \in logins : l.challenge = c} = {}
        BY <3>1, FS_EmptySet
      <3>2. CASE {l \in logins : l.challenge = c} # {}
        <4>1. PICK m \in logins : m.challenge = c
          BY <3>2
        <4>2. {l \in logins : l.challenge = c} = {m}
          BY <1>1, <2>1, <4>1 DEF SpentInv, OneLogin
        <4> QED BY <4>2, FS_Singleton
      <3> QED BY <3>1, <3>2
    <2>3. tries[c] <= MaxAttempts
      <3>1. tries[c] \in Nat /\ MaxAttempts \in Nat
        BY <1>1, LoginAssumption DEF IInv, TypeOK
      <3>2. CASE challenge[c] = None
        BY <1>1, <2>1, <3>1, <3>2 DEF SpentInv, TriesCounted
      <3>3. CASE challenge[c] # None
        <4>1. challenge[c].attempts \in Nat
          BY <1>1, <3>3, RowFields DEF IInv, TypeOK
        <4>2. tries[c] <= challenge[c].attempts /\ challenge[c].attempts <= MaxAttempts
          BY <1>1, <2>1, <3>3 DEF SpentInv, TriesCounted
        <4> QED BY <3>1, <4>1, <4>2
      <3> QED BY <3>2, <3>3
    <2> QED BY <2>2, <2>3
  <1> QED BY <1>1, InitIInv, InitCodes, InitSpent, NextIInv, NextOne, NextSpent, PTL DEF Spec


-----------------------------------------------------------------------------
(* Failures lock an account *)

At3(r, a, pcs) == request[r].pc \in pcs /\ request[r].account = a

\* A request is about to lock the account and to clear its failures.
Pending(a) ==
    \E r \in Requests :
        \/ At3(r, a, {"lock", "reset"})
        \/ Threshold = 1 /\ At3(r, a, {"expire"})

\* The failures since the time b and those that still bear at that time.
Since(a, b) == {f \in failed[a] : f[2] >= b}

Bearing(a, b) == {f \in failed[a] : f[2] < b /\ f[2] + Window > b}

\* The counter of the account was started at the time b.
Windowed(a, b) ==
    /\ Cardinality(Since(a, b)) <= failures[a].count
    /\ failed[a] # {} => failures[a].expires >= b + Window
    /\ Pending(a) \/ Cardinality(Bearing(a, b)) <= Threshold - 1

Windows(a) == \E b \in Nat : b <= now /\ Windowed(a, b)

Counted(a) ==
    /\ IsFiniteSet(failed[a])
    /\ \A f \in failed[a] : f[2] <= now /\ f[2] < failures[a].expires
    /\ failures[a].expires > now => failures[a].count >= 1 /\ failed[a] # {}
    /\ failures[a].count >= Threshold => Pending(a)

FailInv == ~broke => \A a \in Accounts : Counted(a) /\ Windows(a)

LEMMA FailTypes ==
  ASSUME IInv, NEW a \in Accounts
  PROVE  /\ failures[a].count \in Nat /\ failures[a].expires \in Nat
         /\ \A f \in failed[a] : f[2] \in Nat
         /\ now \in Nat /\ now <= MaxTime
         /\ Threshold \in Nat /\ Threshold >= 1 /\ Window \in Nat /\ Window >= 1
  <1>1. failures[a] \in [count : Nat, expires : Nat]
    BY DEF IInv, TypeOK
  <1>2. \A f \in failed[a] : f[2] \in Nat
    BY LoginAssumption DEF IInv, TypeOK
  <1> QED BY <1>1, <1>2, LoginAssumption DEF IInv, TypeOK

\* Nothing happens to the account, but time may pass.
LEMMA FailStays ==
  ASSUME IInv, NEW a \in Accounts, Counted(a), Windows(a),
         failures'[a] = failures[a], failed'[a] = failed[a],
         Pending(a) => Pending(a)', now' \in Nat, now' >= now
  PROVE  Counted(a)' /\ Windows(a)'
  <1>1. PICK b \in Nat : b <= now /\ Windowed(a, b)
    BY DEF Windows
  <1>2. Since(a, b)' = Since(a, b) /\ Bearing(a, b)' = Bearing(a, b)
    BY DEF Since, Bearing
  <1>3. Windowed(a, b)'
    BY <1>1, <1>2 DEF Windowed
  <1>4. b <= now'
    BY <1>1, FailTypes
  <1>5. Counted(a)'
    BY FailTypes DEF Counted
  <1> QED BY <1>3, <1>4, <1>5 DEF Windows

\* The failures are cleared.
LEMMA FailCleared ==
  ASSUME IInv, NEW a \in Accounts, failures'[a] = NoFailures, failed'[a] = {}, now' \in Nat
  PROVE  Counted(a)' /\ Windows(a)'
  <1>1. failures'[a].count = 0 /\ failures'[a].expires = 0
    BY DEF NoFailures
  <1>2. Counted(a)'
    BY <1>1, FS_EmptySet, FailTypes DEF Counted
  <1>3. Since(a, 0)' = {} /\ Bearing(a, 0)' = {}
    BY DEF Since, Bearing
  <1>4. 0 <= Threshold - 1
    BY FailTypes
  <1>5. Cardinality(Since(a, 0)') <= 0 /\ Cardinality(Bearing(a, 0)') <= Threshold - 1
    BY <1>3, <1>4, FS_EmptySet
  <1>6. Windowed(a, 0)'
    BY <1>1, <1>5 DEF Windowed
  <1> QED BY <1>2, <1>6 DEF Windows

\* What a step of a request does to the failures of its account.
LEMMA FailKinds ==
  ASSUME NEW r \in Requests, Step(r)
  PROVE  \/ UNCHANGED <<failures, failed>>
         \/ Succeed(r) \/ ResetCount(r) \/ Increment(r) \/ SetLifetime(r)
  <1> USE DEF history, redis
  <1>1. CASE CheckRate(r) \/ StoreCode(r) \/ SetRate(r) \/ SendCode(r) \/ CheckLock(r)
    BY <1>1 DEF CheckRate, StoreCode, SetRate, SendCode, CheckLock
  <1>2. CASE WrongCode(r) \/ RightCode(r) \/ UseChallenge(r) \/ ComparePassword(r)
    BY <1>2 DEF WrongCode, RightCode, UseChallenge, ComparePassword
  <1>3. CASE Lock(r) \/ BreakOff(r)
    BY <1>3 DEF Lock, BreakOff
  <1> QED BY <1>1, <1>2, <1>3 DEF Step

LEMMA StepNow ==
  ASSUME NEW r \in Requests, Step(r)
  PROVE  now' = now
  <1> USE DEF history, redis
  <1>1. CASE CheckRate(r) \/ StoreCode(r) \/ SetRate(r) \/ SendCode(r) \/ CheckLock(r)
    BY <1>1 DEF CheckRate, StoreCode, SetRate, SendCode, CheckLock
  <1>2. CASE WrongCode(r) \/ RightCode(r) \/ UseChallenge(r) \/ ComparePassword(r)
    BY <1>2 DEF WrongCode, RightCode, UseChallenge, ComparePassword
  <1>3. CASE Succeed(r) \/ Increment(r) \/ SetLifetime(r)
    BY <1>3 DEF Succeed, Increment, SetLifetime
  <1>4. CASE Lock(r) \/ ResetCount(r) \/ BreakOff(r)
    BY <1>4 DEF Lock, ResetCount, BreakOff
  <1> QED BY <1>1, <1>2, <1>3, <1>4 DEF Step

\* The account stays about to be locked until its failures are cleared.
LEMMA PendingKept ==
  ASSUME IInv, NEW r \in Requests, Step(r), ~broke', NEW a \in Accounts, Pending(a),
         ~(ResetCount(r) /\ request[r].account = a)
  PROVE  Pending(a)'
  <1>1. PICK q \in Requests : \/ At3(q, a, {"lock", "reset"})
                              \/ Threshold = 1 /\ At3(q, a, {"expire"})
    BY DEF Pending
  <1>2. InFlight(r) /\ Rest(r) /\ Moves(r)
    BY StepMoves DEF Moves
  <1>3. CASE q # r
    BY <1>1, <1>2, <1>3 DEF Rest, At3, Pending
  <1>4. CASE q = r
    <2>1. request[r].pc \in {"lock", "reset", "expire"} /\ request[r].account = a
      BY <1>1, <1>4 DEF At3
    <2>2. SetLifetime(r) \/ Lock(r) \/ ResetCount(r) \/ BreakOff(r)
      BY <2>1 DEF Step, At, CheckRate, StoreCode, SetRate, SendCode, CheckLock, WrongCode,
         RightCode, UseChallenge, ComparePassword, Succeed, Increment
    <2>3. CASE Lock(r)
      <3>1. request'[r].pc = "reset" /\ Carried(r)
        BY <1>2, <2>3, GotoEffect DEF Lock, IInv, Pcs, VerifyPcs
      <3> QED BY <2>1, <3>1 DEF Pending, At3, Carried
    <2>4. CASE SetLifetime(r)
      <3>1. Threshold = 1
        BY <1>1, <1>4, <2>4 DEF SetLifetime, At, At3
      <3>2. Goto(r, "lock")
        BY <2>4, <3>1 DEF SetLifetime, CompareCount
      <3>3. request'[r].pc = "lock" /\ Carried(r)
        BY <1>2, <3>2, GotoEffect DEF IInv, Pcs, VerifyPcs
      <3> QED BY <2>1, <3>3 DEF Pending, At3, Carried
    <2> QED BY <2>1, <2>2, <2>3, <2>4 DEF BreakOff
  <1> QED BY <1>3, <1>4

\* A failure that a living counter counts.
LEMMA CountOn ==
  ASSUME IInv, NEW r \in Requests, Increment(r), NEW a \in Accounts, request[r].account = a,
         failures[a].expires > now, Counted(a), Windows(a), Pending(a) => Pending(a)'
  PROVE  Counted(a)' /\ Windows(a)'
  <1>1. InFlight(r) /\ now' = now
    BY DEF Increment, At, InFlight
  <1>2. PICK n \in Nat : n = failures[a].count + 1
    BY FailTypes
  <1>3. Count(a).count = n /\ Count(a).expires = failures[a].expires
    BY <1>2, CountTyped DEF IInv
  <1>4. failures'[a].count = n /\ failures'[a].expires = failures[a].expires
    BY <1>3 DEF Increment, IInv, TypeOK
  <1>5. failed'[a] = failed[a] \cup {<<r, now>>}
    BY DEF Increment, IInv, TypeOK
  <1>6. n >= 2
    BY <1>2, FailTypes DEF Counted
  <1>7. n >= Threshold => Pending(a)'
    <2>1. CompareCount(r, n)
      BY <1>3, <1>6 DEF Increment
    <2>2. n >= Threshold => Goto(r, "lock")
      BY <2>1 DEF CompareCount
    <2>3. n >= Threshold => request'[r].pc = "lock" /\ Carried(r)
      BY <1>1, <2>2, GotoEffect DEF IInv, Pcs, VerifyPcs
    <2> QED BY <2>3 DEF Pending, At3, Carried
  <1>8. Counted(a)'
    <2>1. IsFiniteSet(failed'[a])
      BY <1>5, FS_AddElement DEF Counted
    <2>2. \A f \in failed'[a] : f[2] <= now' /\ f[2] < failures'[a].expires
      BY <1>1, <1>4, <1>5, FailTypes DEF Counted
    <2> QED BY <1>4, <1>5, <1>6, <1>7, <2>1, <2>2 DEF Counted
  <1>9. PICK b \in Nat : b <= now /\ Windowed(a, b)
    BY DEF Windows
  <1>10. Since(a, b)' = Since(a, b) \cup {<<r, now>>} /\ Bearing(a, b)' = Bearing(a, b)
    BY <1>5, <1>9, FailTypes DEF Since, Bearing
  <1>11. Cardinality(Since(a, b)') <= n
    <2>1. IsFiniteSet(Since(a, b))
      BY FS_Subset DEF Counted, Since
    <2>2. PICK k \in Nat : k = Cardinality(Since(a, b))
      BY <2>1, FS_CardinalityType
    <2>3. Cardinality(Since(a, b) \cup {<<r, now>>}) \in {k, k + 1}
      BY <2>1, <2>2, FS_AddElement
    <2>4. k <= failures[a].count
      BY <1>9, <2>2 DEF Windowed
    <2>5. Cardinality(Since(a, b)') \in {k, k + 1}
      BY <1>10, <2>3
    <2> QED BY <1>2, <2>2, <2>4, <2>5, FailTypes
  <1>12. Windowed(a, b)'
    BY <1>4, <1>9, <1>10, <1>11 DEF Windowed, Counted
  <1> QED BY <1>1, <1>8, <1>9, <1>12 DEF Windows

\* A failure that starts the counter anew: what the old one has counted bears
\* no longer or is fewer than the threshold.
LEMMA CountAgain ==
  ASSUME IInv, NEW r \in Requests, Increment(r), NEW a \in Accounts, request[r].account = a,
         ~(failures[a].expires > now), Counted(a), Windows(a), Pending(a) => Pending(a)'
  PROVE  Counted(a)' /\ Windows(a)'
  <1>1. InFlight(r) /\ now' = now
    BY DEF Increment, At, InFlight
  <1>2. Count(a).count = 1 /\ Count(a).expires = Never
    BY CountTyped DEF IInv
  <1>3. failures'[a].count = 1 /\ failures'[a].expires = Never
    BY <1>2 DEF Increment, IInv, TypeOK
  <1>4. failed'[a] = failed[a] \cup {<<r, now>>}
    BY DEF Increment, IInv, TypeOK
  <1>5. Threshold = 1 => Pending(a)'
    <2>1. Goto(r, "expire")
      BY <1>2 DEF Increment
    <2>2. request'[r].pc = "expire" /\ Carried(r)
      BY <1>1, <2>1, GotoEffect DEF IInv, Pcs, VerifyPcs
    <2> QED BY <2>2 DEF Pending, At3, Carried
  <1>6. Never >= now + Window /\ Never > now
    BY FailTypes, NeverTyped DEF Never
  <1>7. Counted(a)'
    <2>1. IsFiniteSet(failed'[a])
      <3>1. IsFiniteSet(failed[a])
        BY DEF Counted
      <3>2. IsFiniteSet(failed[a] \cup {<<r, now>>})
        BY <3>1, FS_AddElement
      <3> QED BY <1>4, <3>2
    <2>2. \A f \in failed'[a] : f[2] <= now' /\ f[2] < failures'[a].expires
      BY <1>1, <1>3, <1>4, <1>6, FailTypes, NeverTyped DEF Counted
    <2>3. 1 >= Threshold => Pending(a)'
      BY <1>5, FailTypes
    <2>4. <<r, now>> \in failed'[a] /\ 1 >= 1
      BY <1>4
    <2> QED BY <2>4, <1>3, <1>4, <2>1, <2>2, <2>3 DEF Counted
  <1>8. PICK m \in Nat : m = now
    BY FailTypes
  <1>9. Since(a, m)' = {<<r, now>>}
    <2>1. \A f \in failed[a] : ~(f[2] >= m)
      BY <1>8, FailTypes DEF Counted
    <2> QED BY <1>4, <1>8, <2>1 DEF Since
  <1>10. Bearing(a, m)' = Bearing(a, m)
    BY <1>4, <1>8, FailTypes DEF Bearing
  <1>11. Pending(a)' \/ Cardinality(Bearing(a, m)) <= Threshold - 1
    <2>1. PICK b \in Nat : b <= now /\ Windowed(a, b)
      BY DEF Windows
    <2>2. CASE failed[a] = {}
      <3>1. Bearing(a, m) = {}
        BY <2>2 DEF Bearing
      <3> QED BY <3>1, FS_EmptySet, FailTypes
    <2>3. CASE failed[a] # {} /\ ~Pending(a)
      <3>1. failures[a].expires >= b + Window
        BY <2>1, <2>3 DEF Windowed
      <3>2. Bearing(a, m) \subseteq Since(a, b)
        BY <1>8, <3>1, FailTypes DEF Bearing, Since
      <3>3. IsFiniteSet(Since(a, b))
        BY FS_Subset DEF Counted, Since
      <3>4. /\ Cardinality(Bearing(a, m)) <= Cardinality(Since(a, b))
            /\ Cardinality(Bearing(a, m)) \in Nat /\ Cardinality(Since(a, b)) \in Nat
        BY <3>2, <3>3, FS_Subset, FS_CardinalityType
      <3>5. Cardinality(Since(a, b)) <= failures[a].count /\ ~(failures[a].count >= Threshold)
        BY <2>1, <2>3 DEF Windowed, Counted
      <3> QED BY <3>4, <3>5, FailTypes
    <2> QED BY <2>2, <2>3
  <1>12. Windowed(a, m)'
    <2>1. Cardinality(Since(a, m)') <= 1
      <3>1. Cardinality({<<r, now>>}) = 1
        BY FS_Singleton
      <3> QED BY <1>9, <3>1
    <2>2. Never >= m + Window
      BY <1>6, <1>8
    <2> QED BY <1>3, <1>10, <1>11, <2>1, <2>2 DEF Windowed
  <1> QED BY <1>1, <1>7, <1>8, <1>12, FailTypes DEF Windows

\* The counter is given its lifetime.
LEMMA LifetimeCounted ==
  ASSUME IInv, NEW r \in Requests, SetLifetime(r), NEW a \in Accounts, request[r].account = a,
         failures[a].expires > now, Counted(a), Windows(a), Pending(a) => Pending(a)'
  PROVE  Counted(a)' /\ Windows(a)'
  <1>1. now' = now /\ failed' = failed
    BY DEF SetLifetime, history
  <1>2. PICK t \in Nat : t = now + Window
    BY FailTypes
  <1>3. failures'[a].expires = t /\ failures'[a].count = failures[a].count
    <2>1. failures[a] \in [count : Nat, expires : Nat]
      BY DEF IInv, TypeOK
    <2>2. failures' = [failures EXCEPT ![a] = [failures[a] EXCEPT !.expires = t]]
      BY <1>2 DEF SetLifetime
    <2>3. failures'[a] = [failures[a] EXCEPT !.expires = t]
      BY <2>2 DEF IInv, TypeOK
    <2> QED BY <2>1, <2>3
  <1>4. Counted(a)'
    BY <1>1, <1>2, <1>3, FailTypes DEF Counted
  <1>5. PICK b \in Nat : b <= now /\ Windowed(a, b)
    BY DEF Windows
  <1>6. Since(a, b)' = Since(a, b) /\ Bearing(a, b)' = Bearing(a, b)
    BY <1>1 DEF Since, Bearing
  <1>7. t >= b + Window
    BY <1>2, <1>5, FailTypes
  <1>8. Windowed(a, b)'
    BY <1>1, <1>3, <1>5, <1>6, <1>7 DEF Windowed
  <1> QED BY <1>1, <1>4, <1>5, <1>8 DEF Windows

LEMMA StepFails ==
  ASSUME IInv, FailInv, NEW r \in Requests, Step(r)
  PROVE  FailInv'
  <1> SUFFICES ASSUME ~broke', NEW a \in Accounts
               PROVE  Counted(a)' /\ Windows(a)'
    BY DEF FailInv
  <1>1. InFlight(r) /\ now' = now /\ now \in Nat /\ now >= now /\ TypeOK
    BY StepMoves, StepNow, FailTypes DEF Moves, IInv
  <1>2. Counted(a) /\ Windows(a)
    BY StepBroke DEF FailInv
  <1>3. ~(ResetCount(r) /\ request[r].account = a) => (Pending(a) => Pending(a)')
    BY PendingKept
  <1>4. CASE failures'[a] = failures[a] /\ failed'[a] = failed[a]
               /\ ~(ResetCount(r) /\ request[r].account = a)
    BY <1>1, <1>2, <1>3, <1>4, FailStays
  <1>5. CASE Succeed(r)
    <2>1. CASE request[r].account = a
      BY <1>1, <1>5, <2>1, FailCleared DEF Succeed, TypeOK
    <2>2. CASE request[r].account # a
      BY <1>1, <1>4, <1>5, <2>2 DEF Succeed, TypeOK
    <2> QED BY <2>1, <2>2
  <1>6. CASE ResetCount(r)
    <2>1. CASE request[r].account = a
      BY <1>1, <1>6, <2>1, FailCleared DEF ResetCount, TypeOK
    <2>2. CASE request[r].account # a
      BY <1>1, <1>4, <1>6, <2>2 DEF ResetCount, TypeOK
    <2> QED BY <2>1, <2>2
  <1>7. CASE Increment(r)
    <2>1. CASE request[r].account = a
      <3>1. ~ResetCount(r)
        BY <1>7 DEF Increment, ResetCount, At
      <3> QED BY <1>2, <1>3, <1>7, <2>1, <3>1, CountOn, CountAgain
    <2>2. CASE request[r].account # a
      BY <1>1, <1>4, <1>7, <2>2 DEF Increment, TypeOK
    <2> QED BY <2>1, <2>2
  <1>8. CASE SetLifetime(r)
    <2>1. ~ResetCount(r) /\ failed' = failed
      BY <1>8 DEF SetLifetime, ResetCount, At, history
    <2>2. CASE request[r].account = a /\ failures[a].expires > now
      BY <1>2, <1>3, <1>8, <2>1, <2>2, LifetimeCounted
    <2>3. CASE request[r].account # a
      BY <1>1, <1>4, <1>8, <2>1, <2>3 DEF SetLifetime, TypeOK
    <2>4. CASE request[r].account = a /\ ~(failures[a].expires > now)
      BY <1>1, <1>4, <1>8, <2>1, <2>4 DEF SetLifetime
    <2> QED BY <2>2, <2>3, <2>4
  <1>9. CASE UNCHANGED <<failures, failed>> /\ ~ResetCount(r)
    BY <1>4, <1>9
  <1> QED BY <1>5, <1>6, <1>7, <1>8, <1>9, FailKinds

LEMMA NextFails ==
  ASSUME IInv, FailInv, [Next]_vars
  PROVE  FailInv'
  <1> USE DEF history, redis
  <1>1. CASE \E r \in Requests : Step(r)
    BY <1>1, StepFails
  <1>2. ASSUME UNCHANGED <<failures, failed, broke>>, now' \in Nat, now' >= now,
               \A a \in Accounts : Pending(a) => Pending(a)'
        PROVE  FailInv'
    BY <1>2, FailStays DEF FailInv
  <1>3. now \in Nat /\ now >= now
    BY DEF IInv, TypeOK
  <1>4. ASSUME NEW r \in Requests, Opens(r) PROVE \A a \in Accounts : Pending(a) => Pending(a)'
    BY <1>4 DEF Opens, Rest, Pending, At3
  <1>5. CASE \E r \in Starts, c \in Challenges, u \in Users : SendStart(r, c, u)
    BY <1>2, <1>3, <1>4, <1>5, StartOpens DEF SendStart
  <1>6. CASE \E r \in Verifications, c \in Challenges :
              \E code \in {s[1] : s \in sent} \cup {None} : SendVerify(r, c, code)
    BY <1>2, <1>3, <1>4, <1>6, VerifyOpens DEF SendVerify
  <1>7. CASE \E r \in Passwords, o \in Owners, right \in BOOLEAN : SendPassword(r, o, right)
    BY <1>2, <1>3, <1>4, <1>7, PasswordOpens DEF SendPassword
  <1>8. CASE \E c \in Challenges : CreateChallenge(c)
    BY <1>2, <1>3, <1>8, CreateSame DEF Pending, At3
  <1>9. CASE Idle /\ now' \in Nat /\ now' >= now
    BY <1>2, <1>9 DEF Idle, Pending, At3
  <1> QED BY <1>1, <1>5, <1>6, <1>7, <1>8, <1>9, NextCases

LEMMA InitFails == Init => FailInv
  <1> SUFFICES ASSUME Init, NEW a \in Accounts PROVE Counted(a) /\ Windows(a)
    BY DEF FailInv
  <1>1. IInv
    BY InitIInv
  <1>2. failures[a] = [count |-> 0, expires |-> 0] /\ failed[a] = {} /\ now = 0
    BY DEF Init, NoFailures
  <1>3. Counted(a)
    BY <1>1, <1>2, FS_EmptySet, FailTypes DEF Counted
  <1>4. Since(a, 0) = {} /\ Bearing(a, 0) = {}
    BY <1>2 DEF Since, Bearing
  <1>5. 0 <= Threshold - 1
    BY <1>1, FailTypes
  <1>6. Windowed(a, 0)
    BY <1>2, <1>4, <1>5, FS_EmptySet DEF Windowed
  <1> QED BY <1>2, <1>3, <1>6 DEF Windows

\* Failures lock an account in time: when none of its requests is at work,
\* fewer than twice the threshold bear at any time, however requests that read
\* and write the counter of Redis interleave and whenever the counter expires
\* (services/lockout.py), unless a request was broken off in between.
THEOREM LockedInTime == Spec => []FailuresLock
  <1>1. ASSUME IInv, FailInv PROVE FailuresLock
    <2> SUFFICES ASSUME NEW a \in Accounts, Quiet(a), ~broke
                 PROVE  Cardinality({f \in failed[a] : f[2] + Window > now})
                          <= 2 * (Threshold - 1)
      BY DEF FailuresLock
    <2>1. Counted(a) /\ Windows(a)
      BY <1>1 DEF FailInv
    <2>2. ~Pending(a)
      BY DEF Quiet, Pending, At3, InFlight
    <2>3. PICK b \in Nat : b <= now /\ Windowed(a, b)
      BY <2>1 DEF Windows
    <2>4. {f \in failed[a] : f[2] + Window > now} \subseteq Since(a, b) \cup Bearing(a, b)
      BY <1>1, <2>3, FailTypes DEF Since, Bearing
    <2>5. IsFiniteSet(Since(a, b)) /\ IsFiniteSet(Bearing(a, b))
      BY <2>1, FS_Subset DEF Counted, Since, Bearing
    <2>6. /\ Cardinality(Since(a, b)) \in Nat /\ Cardinality(Bearing(a, b)) \in Nat
          /\ IsFiniteSet(Since(a, b) \cup Bearing(a, b))
          /\ Cardinality(Since(a, b) \cup Bearing(a, b)) \in Nat
      BY <2>5, FS_CardinalityType, FS_Union
    <2>7. Cardinality(Since(a, b) \cup Bearing(a, b))
            <= Cardinality(Since(a, b)) + Cardinality(Bearing(a, b))
      <3>1. Cardinality(Since(a, b) \cap Bearing(a, b)) \in Nat
        BY <2>5, FS_Subset, FS_CardinalityType
      <3>2. Cardinality(Since(a, b) \cup Bearing(a, b)) =
              Cardinality(Since(a, b)) + Cardinality(Bearing(a, b))
                - Cardinality(Since(a, b) \cap Bearing(a, b))
        BY <2>5, FS_Union
      <3> QED BY <2>6, <3>1, <3>2
    <2>8. Cardinality(Since(a, b)) <= Threshold - 1
      BY <1>1, <2>1, <2>2, <2>3, <2>6, FailTypes DEF Windowed, Counted
    <2>9. Cardinality(Bearing(a, b)) <= Threshold - 1
      BY <2>2, <2>3 DEF Windowed
    <2>10. /\ Cardinality({f \in failed[a] : f[2] + Window > now}) \in Nat
           /\ Cardinality({f \in failed[a] : f[2] + Window > now})
                <= Cardinality(Since(a, b) \cup Bearing(a, b))
      BY <2>4, <2>6, FS_Subset, FS_CardinalityType
    <2> QED BY <1>1, <2>6, <2>7, <2>8, <2>9, <2>10, FailTypes
  <1> QED BY <1>1, InitIInv, InitFails, NextIInv, NextFails, PTL DEF Spec


=============================================================================
