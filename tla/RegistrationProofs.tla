-------------------------- MODULE RegistrationProofs --------------------------
(***************************************************************************)
(* Proofs about Registration, for any sets of requests, names and codes.   *)
(***************************************************************************)
EXTENDS Registration, TLAPS

Holding == {"selected", "inserted", "redeemed"}
Created == {"inserted", "redeemed"}

(* A request has a name and a code from its start.                         *)
Formed == \A r \in Requests : place[r] # "idle" => form[r].name \in Names /\ form[r].code \in Codes

(* The uncommitted rows of a transaction follow from its place.            *)
Rows ==
  \A r \in Requests :
    pending[r] = IF place[r] = "inserted" THEN {"user"}
                 ELSE IF place[r] = "redeemed" THEN {"user", "invite"} ELSE {}

(* A transaction holds the row of its code from the SELECT to its end, and *)
(* no other row; the code is good for as long.                             *)
Locks ==
  \A r \in Requests :
    /\ \A c \in Codes : lock[c] = r <=> place[r] \in Holding /\ form[r].code = c
    /\ place[r] \in Holding => form[r].code \in issued /\ usedBy[form[r].code] = None

(* An uncommitted user has a name of its own.                              *)
NamesFree ==
  \A r \in Requests : place[r] \in Created =>
    /\ owner[form[r].name] = None
    /\ \A q \in Requests : place[q] \in Created /\ form[q].name = form[r].name => q = r

(* Only a transaction that has ended, or was cut off in Commit, has rows,  *)
(* and one that was committed has them.                                    *)
Committed ==
  \A r \in Requests :
    /\ \A n \in Names : owner[n] = r => place[r] \in {"committed", "done"}
    /\ \A c \in Codes : usedBy[c] = r => place[r] \in {"committed", "done"}
    /\ place[r] = "committed" \/ answer[r] = "created" => owner[form[r].name] = r

(* One that was refused has none.                                          *)
Refused ==
  \A r \in Requests : answer[r] \in {"conflict", "invite", "invite failed"} =>
    /\ \A n \in Names : owner[n] # r
    /\ \A c \in Codes : usedBy[c] # r

LEMMA AnswerFacts ==
  /\ None \notin Answers
  /\ "created" \in Answers /\ "conflict" \in Answers /\ "invite" \in Answers
  /\ "invite failed" \in Answers /\ "error" \in Answers /\ "lost" \in Answers
BY OutsidersAssumption DEF Answers

(* Type correctness has two parts, the handlers' and the database's.       *)
HandlersOK ==
  /\ place \in [Requests -> {"idle", "begun", "selected", "inserted", "redeemed",
                             "committed", "done"}]
  /\ form \in [Requests -> [name: Names \cup {None}, code: Codes \cup {None}]]
  /\ \A r \in Requests : (place[r] = "idle") <=> (form[r] = NoForm)
  /\ answer \in [Requests -> Answers \cup {None}]
  /\ \A r \in Requests : (place[r] = "done") <=> (answer[r] # None)
  /\ Formed

TablesOK ==
  /\ owner \in [Names -> Requests \cup {Admin, None}]
  /\ issued \subseteq Codes /\ usedBy \in [Codes -> Requests \cup {None}]
  /\ lock \in [Codes -> Requests \cup {None}]
  /\ pending \in [Requests -> SUBSET {"user", "invite"}]

IInv ==
  /\ HandlersOK /\ TablesOK /\ Rows /\ Locks /\ NamesFree
  /\ UsersMatchInvites /\ Committed /\ Refused

LEMMA TypeParts == TypeOK /\ Formed <=> HandlersOK /\ TablesOK
BY DEF TypeOK, HandlersOK, TablesOK

LEMMA HandlersStep == HandlersOK /\ [Next]_vars => HandlersOK'
<1>. SUFFICES ASSUME HandlersOK, [Next]_vars PROVE HandlersOK'
  OBVIOUS
<1>. USE AnswerFacts DEF Go, HandlersOK, Formed
<1>0. ASSUME NEW r \in Requests, NEW a \in Answers, place[r] \in {"begun", "selected", "inserted"},
             Rollback(r, a)
      PROVE  HandlersOK'
  <2>1. UNCHANGED form /\ Go(r, "done") /\ answer' = [answer EXCEPT ![r] = a]
    BY <1>0 DEF Rollback
  <2>. QED
    BY <1>0, <2>1
<1>1. ASSUME NEW r \in Requests, NEW n \in Names, NEW c \in Codes, Begin(r, n, c)
      PROVE  HandlersOK'
  <2>1. [name |-> n, code |-> c] # NoForm
    BY OutsidersAssumption DEF NoForm
  <2>. QED
    BY <1>1, <2>1 DEF Begin
<1>2. ASSUME NEW r \in Requests, SelectInvite(r) PROVE HandlersOK'
  <2>1. CASE Rollback(r, "invite")
    BY <1>2, <1>0, <2>1 DEF SelectInvite
  <2>2. CASE ~Rollback(r, "invite")
    BY <1>2, <2>2 DEF SelectInvite
  <2>. QED
    BY <2>1, <2>2
<1>3. ASSUME NEW r \in Requests, InsertUser(r) PROVE HandlersOK'
  <2>1. CASE Rollback(r, "conflict")
    BY <1>3, <1>0, <2>1 DEF InsertUser
  <2>2. CASE ~Rollback(r, "conflict")
    BY <1>3, <2>2 DEF InsertUser
  <2>. QED
    BY <2>1, <2>2
<1>4. ASSUME NEW r \in Requests, RedeemInvite(r) PROVE HandlersOK'
  <2>1. CASE Rollback(r, "invite")
    BY <1>4, <1>0, <2>1 DEF RedeemInvite
  <2>2. CASE ~Rollback(r, "invite")
    BY <1>4, <2>2 DEF RedeemInvite
  <2>. QED
    BY <2>1, <2>2
<1>5. ASSUME NEW r \in Requests, Commit(r) PROVE HandlersOK'
  BY <1>5 DEF Commit
<1>6. ASSUME NEW r \in Requests, CommitFails(r) PROVE HandlersOK'
  <2>1. UNCHANGED form /\ Go(r, "done") /\ answer' = [answer EXCEPT ![r] = "error"]
    BY <1>6 DEF CommitFails
  <2>2. place[r] = "redeemed"
    BY <1>6 DEF CommitFails
  <2>. QED
    BY <2>1, <2>2
<1>7. ASSUME NEW r \in Requests, StatementFails(r) PROVE HandlersOK'
  BY <1>7, <1>0 DEF StatementFails
<1>8. ASSUME NEW r \in Requests, IssueToken(r) PROVE HandlersOK'
  BY <1>8 DEF IssueToken
<1>9. ASSUME UNCHANGED handlers PROVE HandlersOK'
  BY <1>9 DEF handlers
<1>10. ASSUME NEW c \in Codes, CreateInviteCode(c) PROVE HandlersOK'
  BY <1>9, <1>10 DEF CreateInviteCode
<1>11. ASSUME NEW n \in Names, CreateUser(n) PROVE HandlersOK'
  BY <1>9, <1>11 DEF CreateUser
<1>12. CASE Crash
  BY <1>12 DEF Crash, Active
<1>13. CASE UNCHANGED vars
  BY <1>9, <1>13 DEF vars
<1>. QED
  BY <1>1, <1>2, <1>3, <1>4, <1>5, <1>6, <1>7, <1>8, <1>10, <1>11, <1>12, <1>13 DEF Next, Step

LEMMA TablesStep == HandlersOK /\ TablesOK /\ [Next]_vars => TablesOK'
<1>. SUFFICES ASSUME HandlersOK, TablesOK, [Next]_vars PROVE TablesOK'
  OBVIOUS
<1>. USE DEF TablesOK, EndTx, tables
<1>1. ASSUME NEW r \in Requests, EndTx(r), UNCHANGED tables PROVE TablesOK'
  BY <1>1
<1>2. ASSUME NEW r \in Requests, NEW n \in Names, NEW c \in Codes, Begin(r, n, c)
      PROVE  TablesOK'
  BY <1>2 DEF Begin
<1>3. ASSUME NEW r \in Requests, Step(r) \/ CommitFails(r) \/ StatementFails(r)
      PROVE  TablesOK'
  <2>1. CASE SelectInvite(r)
    BY <2>1, <1>1 DEF SelectInvite, Rollback
  <2>2. CASE InsertUser(r)
    BY <2>2, <1>1 DEF InsertUser, Rollback
  <2>3. CASE RedeemInvite(r)
    BY <2>3, <1>1 DEF RedeemInvite, Rollback
  <2>4. CASE Apply(r)
    BY <2>4 DEF Apply
  <2>5. CASE IssueToken(r)
    BY <2>5 DEF IssueToken
  <2>6. CASE StatementFails(r)
    BY <2>6, <1>1 DEF StatementFails, Rollback
  <2>. QED
    BY <1>1, <1>3, <2>1, <2>2, <2>3, <2>4, <2>5, <2>6 DEF Step, Commit, CommitFails
<1>4. ASSUME NEW c \in Codes, CreateInviteCode(c) PROVE TablesOK'
  BY <1>4 DEF CreateInviteCode
<1>5. ASSUME NEW n \in Names, CreateUser(n) PROVE TablesOK'
  BY <1>5 DEF CreateUser
<1>6. CASE Crash
  BY <1>6 DEF Crash
<1>7. CASE UNCHANGED vars
  BY <1>7 DEF vars
<1>. QED
  BY <1>2, <1>3, <1>4, <1>5, <1>6, <1>7 DEF Next

LEMMA InitIInv == Init => IInv
<1>. SUFFICES ASSUME Init PROVE IInv
  OBVIOUS
<1>1. HandlersOK /\ TablesOK
  BY AnswerFacts DEF Init, HandlersOK, TablesOK, Formed, NoForm
<1>2. Rows /\ Locks /\ NamesFree
  BY OutsidersAssumption DEF Init, Rows, Locks, NamesFree, Holding, Created
<1>3. UsersMatchInvites /\ Committed /\ Refused
  BY OutsidersAssumption, AnswerFacts DEF Init, UsersMatchInvites, Committed, Refused
<1>. QED
  BY <1>1, <1>2, <1>3 DEF IInv

(* The part of the invariant that is about transactions and tables.        *)
Tables == Rows /\ Locks /\ NamesFree /\ UsersMatchInvites /\ Committed /\ Refused

(* A transaction that ends without its rows.                               *)
LEMMA RollbackStep ==
  ASSUME IInv, NEW r \in Requests, NEW a \in Answers \ {"created"}, Rollback(r, a),
         place[r] \in {"begun", "selected", "inserted"}
  PROVE  Tables'
<1>. USE DEF IInv, HandlersOK, TablesOK, Rollback, Go, EndTx, tables
<1>1. Rows'
  BY DEF Rows
<1>2. Locks'
  BY OutsidersAssumption DEF Locks, Holding
<1>3. NamesFree'
  BY DEF NamesFree, Created
<1>4. UsersMatchInvites'
  BY DEF UsersMatchInvites
<1>5. Committed'
  BY DEF Committed
<1>6. Refused'
  BY DEF Refused, Committed
<1>. QED
  BY <1>1, <1>2, <1>3, <1>4, <1>5, <1>6 DEF Tables

(* The steps of one transaction that do not end it.                        *)
LEMMA BeginStep ==
  ASSUME IInv, NEW r \in Requests, NEW n \in Names, NEW c \in Codes, Begin(r, n, c)
  PROVE  Tables'
<1>. USE DEF IInv, HandlersOK, TablesOK, Begin, Go, tables
<1>1. Rows'
  BY DEF Rows
<1>2. Locks'
  BY DEF Locks, Holding
<1>3. NamesFree'
  BY DEF NamesFree, Created
<1>4. UsersMatchInvites'
  BY DEF UsersMatchInvites, Committed
<1>5. Committed'
  BY AnswerFacts DEF Committed
<1>6. Refused'
  BY DEF Refused
<1>. QED
  BY <1>1, <1>2, <1>3, <1>4, <1>5, <1>6 DEF Tables

LEMMA SelectStep ==
  ASSUME IInv, NEW r \in Requests, SelectInvite(r)
  PROVE  Tables'
<1>1. CASE Rollback(r, "invite")
  BY <1>1, RollbackStep, AnswerFacts DEF SelectInvite
<1>2. CASE ~Rollback(r, "invite")
  <2>0. /\ place[r] = "begun" /\ place' = [place EXCEPT ![r] = "selected"]
        /\ form[r].code \in issued /\ usedBy[form[r].code] = None
        /\ lock[form[r].code] = None /\ lock' = [lock EXCEPT ![form[r].code] = r]
        /\ UNCHANGED <<form, answer, owner, issued, usedBy, pending>>
    BY <1>2 DEF SelectInvite, Go, tables
  <2>. USE <2>0 DEF IInv, HandlersOK, Formed, TablesOK
  <2>1. Rows'
    BY DEF Rows
  <2>2. Locks'
    BY OutsidersAssumption DEF Locks, Holding
  <2>3. NamesFree'
    BY DEF NamesFree, Created
  <2>4. UsersMatchInvites'
    BY DEF UsersMatchInvites
  <2>5. Committed'
    BY DEF Committed
  <2>6. Refused'
    BY DEF Refused
  <2>. QED
    BY <2>1, <2>2, <2>3, <2>4, <2>5, <2>6 DEF Tables
<1>. QED
  BY <1>1, <1>2

LEMMA InsertStep ==
  ASSUME IInv, NEW r \in Requests, InsertUser(r)
  PROVE  Tables'
<1>1. CASE Rollback(r, "conflict")
  BY <1>1, RollbackStep, AnswerFacts DEF InsertUser
<1>2. CASE ~Rollback(r, "conflict")
  <2>0. /\ place[r] = "selected" /\ place' = [place EXCEPT ![r] = "inserted"]
        /\ owner[form[r].name] = None /\ ~Inserting(form[r].name)
        /\ pending' = [pending EXCEPT ![r] = {"user"}]
        /\ UNCHANGED <<form, answer, owner, issued, usedBy, lock>>
    BY <1>2 DEF InsertUser, Go, tables
  <2>. USE <2>0 DEF IInv, HandlersOK, Formed, TablesOK
  <2>1. Rows'
    BY DEF Rows
  <2>2. Locks'
    BY DEF Locks, Holding
  <2>3. NamesFree'
    BY DEF NamesFree, Created, Inserting, Rows
  <2>4. UsersMatchInvites'
    BY DEF UsersMatchInvites
  <2>5. Committed'
    BY DEF Committed
  <2>6. Refused'
    BY DEF Refused
  <2>. QED
    BY <2>1, <2>2, <2>3, <2>4, <2>5, <2>6 DEF Tables
<1>. QED
  BY <1>1, <1>2

LEMMA RedeemStep ==
  ASSUME IInv, NEW r \in Requests, RedeemInvite(r)
  PROVE  Tables'
<1>1. CASE Rollback(r, "invite")
  BY <1>1, RollbackStep, AnswerFacts DEF RedeemInvite
<1>2. CASE ~Rollback(r, "invite")
  <2>0. /\ place[r] = "inserted" /\ place' = [place EXCEPT ![r] = "redeemed"]
        /\ pending' = [pending EXCEPT ![r] = @ \cup {"invite"}]
        /\ UNCHANGED <<form, answer, owner, issued, usedBy, lock>>
    BY <1>2 DEF RedeemInvite, Go, tables
  <2>. USE <2>0 DEF IInv, HandlersOK, Formed, TablesOK
  <2>1. Rows'
    BY DEF Rows
  <2>2. Locks'
    BY DEF Locks, Holding
  <2>3. NamesFree'
    BY DEF NamesFree, Created
  <2>4. UsersMatchInvites'
    BY DEF UsersMatchInvites
  <2>5. Committed'
    BY DEF Committed
  <2>6. Refused'
    BY DEF Refused
  <2>. QED
    BY <2>1, <2>2, <2>3, <2>4, <2>5, <2>6 DEF Tables
<1>. QED
  BY <1>1, <1>2

(* Commit, with or without an error: the rows of both tables become        *)
(* visible in one step.                                                    *)
LEMMA ApplyStep ==
  ASSUME IInv, NEW r \in Requests, place[r] = "redeemed", Apply(r), UNCHANGED form,
         \/ Go(r, "committed") /\ UNCHANGED answer
         \/ Go(r, "done") /\ answer' = [answer EXCEPT ![r] = "error"]
  PROVE  Tables'
<1>. DEFINE n == form[r].name
            c == form[r].code
<1>1. /\ n \in Names /\ c \in Codes
      /\ owner' = [owner EXCEPT ![n] = r] /\ usedBy' = [usedBy EXCEPT ![c] = r]
  BY DEF IInv, HandlersOK, Formed, Rows, Apply
<1>2. /\ owner[n] = None /\ usedBy[c] = None /\ c \in issued
      /\ \A q \in Requests : place[q] \in Created /\ form[q].name = n => q = r
      /\ \A q \in Requests : place[q] \in Holding /\ form[q].code = c => q = r
  BY <1>1 DEF IInv, Locks, NamesFree, Holding, Created
<1>. HIDE DEF n, c
<1>. USE <1>1, <1>2 DEF IInv, HandlersOK, TablesOK, Apply, EndTx, Go
<1>3. Rows'
  BY DEF Rows
<1>4. Locks'
  BY OutsidersAssumption DEF Locks, Holding, c
<1>5. NamesFree'
  BY DEF NamesFree, Created, n
<1>6. UsersMatchInvites'
  BY OutsidersAssumption DEF UsersMatchInvites, Committed, n, c
<1>7. Committed'
  <2>1. \A q \in Requests : place[q] # "idle" => form[q].name \in Names
    BY DEF Formed
  <2>2. answer'[r] # "created" /\ \A q \in Requests \ {r} : answer'[q] = answer[q]
    BY AnswerFacts
  <2>3. \A q \in Requests : answer[q] = "created" => place[q] = "done"
    BY AnswerFacts
  <2>4. \A q \in Requests \ {r} : place'[q] = place[q]
    OBVIOUS
  <2>5. ASSUME NEW q \in Requests, (place[q] = "committed" \/ answer[q] = "created")'
        PROVE  owner'[form[q].name] = q
    <3>1. CASE q = r
      BY <3>1 DEF n
    <3>2. CASE q # r
      <4>1. owner[form[q].name] = q /\ form[q].name \in Names
        BY <3>2, <2>1, <2>2, <2>3, <2>4, <2>5 DEF Committed
      <4>. QED
        BY <3>2, <4>1, OutsidersAssumption
    <3>. QED
      BY <3>1, <3>2
  <2>. QED
    BY <2>4, <2>5 DEF Committed
<1>8. Refused'
  <2>1. answer'[r] \notin {"conflict", "invite", "invite failed"}
    BY AnswerFacts
  <2>2. \A q \in Requests \ {r} : answer'[q] = answer[q]
    OBVIOUS
  <2>3. ASSUME NEW q \in Requests, answer'[q] \in {"conflict", "invite", "invite failed"}
        PROVE  (\A x \in Names : owner'[x] # q) /\ (\A x \in Codes : usedBy'[x] # q)
    <3>1. q # r /\ answer[q] = answer'[q]
      BY <2>1, <2>2, <2>3
    <3>2. (\A x \in Names : owner[x] # q) /\ (\A x \in Codes : usedBy[x] # q)
      BY <2>3, <3>1 DEF Refused
    <3>. QED
      BY <3>1, <3>2
  <2>. QED
    BY <2>3 DEF Refused
<1>. QED
  BY <1>3, <1>4, <1>5, <1>6, <1>7, <1>8 DEF Tables

LEMMA IInvStep == IInv /\ [Next]_vars => IInv'
<1>. SUFFICES ASSUME IInv, [Next]_vars PROVE IInv'
  OBVIOUS
<1>1. HandlersOK' /\ TablesOK'
  BY HandlersStep, TablesStep DEF IInv
<1>2. Tables'
  <2>1. ASSUME NEW r \in Requests, NEW n \in Names, NEW c \in Codes, Begin(r, n, c)
        PROVE  Tables'
    BY <2>1, BeginStep
  <2>2. ASSUME NEW r \in Requests, Step(r) PROVE Tables'
    <3>1. CASE Commit(r)
      BY <3>1, ApplyStep DEF Commit
    <3>2. CASE IssueToken(r)
      <4>0. PICK a \in {"created", "error"} :
              /\ place[r] = "committed" /\ place' = [place EXCEPT ![r] = "done"]
              /\ answer' = [answer EXCEPT ![r] = a]
              /\ UNCHANGED <<form, owner, issued, usedBy, lock, pending>>
        BY <3>2 DEF IssueToken, Go, tables
      <4>. USE <4>0 DEF IInv, HandlersOK, TablesOK
      <4>1. Rows'
        BY DEF Rows
      <4>2. Locks'
        BY DEF Locks, Holding
      <4>3. NamesFree'
        BY DEF NamesFree, Created
      <4>4. UsersMatchInvites'
        BY DEF UsersMatchInvites
      <4>5. Committed'
        BY AnswerFacts DEF Committed
      <4>6. Refused'
        BY AnswerFacts DEF Refused
      <4>. QED
        BY <4>1, <4>2, <4>3, <4>4, <4>5, <4>6 DEF Tables
    <3>. QED
      BY <2>2, <3>1, <3>2, SelectStep, InsertStep, RedeemStep DEF Step
  <2>3. ASSUME NEW r \in Requests, CommitFails(r) PROVE Tables'
    <3>1. CASE Apply(r)
      BY <2>3, <3>1, ApplyStep DEF CommitFails
    <3>2. CASE ~Apply(r)
      <4>0. /\ place[r] = "redeemed" /\ place' = [place EXCEPT ![r] = "done"]
            /\ answer' = [answer EXCEPT ![r] = "error"]
            /\ lock' = [c \in Codes |-> IF lock[c] = r THEN None ELSE lock[c]]
            /\ pending' = [pending EXCEPT ![r] = {}]
            /\ UNCHANGED <<form, owner, issued, usedBy>>
        BY <2>3, <3>2 DEF CommitFails, EndTx, Go, tables
      <4>. USE <4>0 DEF IInv, HandlersOK, TablesOK
      <4>1. Rows'
        BY DEF Rows
      <4>2. Locks'
        BY OutsidersAssumption DEF Locks, Holding
      <4>3. NamesFree'
        BY DEF NamesFree, Created
      <4>4. UsersMatchInvites'
        BY DEF UsersMatchInvites
      <4>5. Committed'
        BY AnswerFacts DEF Committed
      <4>6. Refused'
        BY AnswerFacts DEF Refused
      <4>. QED
        BY <4>1, <4>2, <4>3, <4>4, <4>5, <4>6 DEF Tables
    <3>. QED
      BY <3>1, <3>2
  <2>4. ASSUME NEW r \in Requests, StatementFails(r) PROVE Tables'
    BY <2>4, RollbackStep, AnswerFacts DEF StatementFails
  <2>5. ASSUME NEW c \in Codes, CreateInviteCode(c) PROVE Tables'
    <3>. USE <2>5 DEF CreateInviteCode, handlers, IInv, HandlersOK, TablesOK
    <3>1. Rows'
      BY DEF Rows
    <3>2. Locks'
      BY OutsidersAssumption DEF Locks, Holding
    <3>3. NamesFree'
      BY DEF NamesFree, Created
    <3>4. UsersMatchInvites'
      BY DEF UsersMatchInvites
    <3>5. Committed'
      BY AnswerFacts DEF Committed
    <3>6. Refused'
      BY AnswerFacts DEF Refused
    <3>. QED
      BY <3>1, <3>2, <3>3, <3>4, <3>5, <3>6 DEF Tables
  <2>6. ASSUME NEW n \in Names, CreateUser(n) PROVE Tables'
    <3>. USE <2>6, OutsidersAssumption DEF CreateUser, handlers, IInv, HandlersOK, Formed, TablesOK
    <3>1. Rows'
      BY DEF Rows
    <3>2. Locks'
      BY OutsidersAssumption DEF Locks, Holding
    <3>3. NamesFree'
      BY DEF NamesFree, Created, Inserting, Rows
    <3>4. UsersMatchInvites'
      BY DEF UsersMatchInvites
    <3>5. Committed'
      <4>1. \A r \in Requests : place[r] = "committed" \/ answer[r] = "created" =>
              owner[form[r].name] = r
        BY DEF Committed
      <4>2. \A r \in Requests : answer[r] = "created" => place[r] = "done"
        BY AnswerFacts
      <4>3. \A r \in Requests : place[r] = "committed" \/ answer[r] = "created" =>
              form[r].name \in Names /\ form[r].name # n
        BY <4>1, <4>2
      <4>. QED
        BY <4>3 DEF Committed
    <3>6. Refused'
      BY AnswerFacts DEF Refused
    <3>. QED
      BY <3>1, <3>2, <3>3, <3>4, <3>5, <3>6 DEF Tables
  <2>7. CASE Crash
    <3>0. /\ \A r \in Requests : place'[r] \in {"idle", "done"} /\ answer'[r] \in {answer[r], "lost"}
          /\ \A r \in Requests : place[r] = "done" => place'[r] = "done"
          /\ \A r \in Requests : place[r] = "committed" => place'[r] = "done"
          /\ lock' = [c \in Codes |-> None] /\ pending' = [r \in Requests |-> {}]
          /\ UNCHANGED <<form, owner, issued, usedBy>>
      BY <2>7 DEF Crash, Active, tables, IInv, HandlersOK
    <3>. USE <3>0 DEF IInv, HandlersOK, TablesOK
    <3>1. Rows'
      BY DEF Rows
    <3>2. Locks'
      BY OutsidersAssumption DEF Locks, Holding
    <3>3. NamesFree'
      BY DEF NamesFree, Created
    <3>4. UsersMatchInvites'
      BY DEF UsersMatchInvites
    <3>5. Committed'
      BY AnswerFacts DEF Committed
    <3>6. Refused'
      BY AnswerFacts DEF Refused
    <3>. QED
      BY <3>1, <3>2, <3>3, <3>4, <3>5, <3>6 DEF Tables
  <2>8. CASE UNCHANGED vars
    <3>. USE <2>8 DEF vars, handlers, tables, IInv
    <3>1. Rows'
      BY DEF Rows
    <3>2. Locks'
      BY OutsidersAssumption DEF Locks, Holding
    <3>3. NamesFree'
      BY DEF NamesFree, Created
    <3>4. UsersMatchInvites'
      BY DEF UsersMatchInvites
    <3>5. Committed'
      BY AnswerFacts DEF Committed
    <3>6. Refused'
      BY AnswerFacts DEF Refused
    <3>. QED
      BY <3>1, <3>2, <3>3, <3>4, <3>5, <3>6 DEF Tables
  <2>. QED
    BY <2>1, <2>2, <2>3, <2>4, <2>5, <2>6, <2>7, <2>8 DEF Next
<1>. QED
  BY <1>1, <1>2 DEF IInv, Tables

(* The invariant holds in every reachable state, whatever statements fail  *)
(* and wherever the server is stopped.                                     *)
THEOREM Invariant == Spec => []IInv
BY InitIInv, IInvStep, PTL DEF Spec

(* Requests, transactions and tables are well typed; a request has a form  *)
(* from its start and an answer at its end.                                *)
THEOREM TypeCorrect == Spec => []TypeOK
<1>1. IInv => TypeOK
  BY TypeParts DEF IInv
<1>. QED
  BY <1>1, Invariant, PTL

(* RegisterUserWithInviteCode creates a user and redeems its code          *)
(* together or not at all.                                                 *)
THEOREM NoOrphans == Spec => []UsersMatchInvites
<1>1. IInv => UsersMatchInvites
  BY DEF IInv
<1>. QED
  BY <1>1, Invariant, PTL

(* What handleRegister tells the visitor is so in the database.            *)
THEOREM AnswersAreTrue == Spec => []AnswersTrue
<1>1. ASSUME IInv PROVE AnswersTrue
  <2>1. ASSUME NEW r \in Requests, answer[r] = "created" PROVE HasUser(r) /\ HasInvite(r)
    <3>1. form[r].name \in Names /\ form[r].code \in Codes
      BY <1>1, <2>1, AnswerFacts DEF IInv, HandlersOK, Formed
    <3>2. owner[form[r].name] = r
      BY <1>1, <2>1 DEF IInv, Committed
    <3>3. usedBy[form[r].code] = r
      BY <1>1, <3>1, <3>2 DEF IInv, UsersMatchInvites
    <3>. QED
      BY <3>1, <3>2, <3>3 DEF HasUser, HasInvite
  <2>. QED
    BY <1>1, <2>1 DEF AnswersTrue, IInv, Refused, HasUser, HasInvite
<1>. QED
  BY <1>1, Invariant, PTL

(* A commit writes only rows that no user has: InsertUser found the name   *)
(* free, SelectInvite the code, and both are kept from the others.         *)
THEOREM CommittedStays == Spec => NeverTakenBack
<1>. DEFINE Kept == /\ \A n \in Names : owner[n] # None => owner'[n] = owner[n]
                    /\ \A c \in Codes : usedBy[c] # None => usedBy'[c] = usedBy[c]
<1>1. ASSUME IInv, [Next]_vars PROVE Kept
  <2>1. ASSUME NEW r \in Requests, place[r] = "redeemed", Apply(r) PROVE Kept
    <3>1. owner[form[r].name] = None /\ usedBy[form[r].code] = None
      BY <1>1, <2>1 DEF IInv, NamesFree, Locks, Holding, Created
    <3>. QED
      BY <1>1, <2>1, <3>1 DEF Apply, IInv, TablesOK
  <2>2. ASSUME NEW r \in Requests, Commit(r) \/ CommitFails(r) PROVE Kept
    BY <2>1, <2>2 DEF Commit, CommitFails, tables
  <2>3. ASSUME NEW n \in Names, CreateUser(n) PROVE Kept
    BY <1>1, <2>3 DEF CreateUser, IInv, TablesOK
  <2>4. CASE UNCHANGED <<owner, usedBy>>
    BY <2>4
  <2>5. ASSUME NEW r \in Requests,
               \/ SelectInvite(r) \/ InsertUser(r) \/ RedeemInvite(r)
               \/ StatementFails(r) \/ IssueToken(r)
        PROVE  Kept
    BY <2>5 DEF SelectInvite, InsertUser, RedeemInvite, StatementFails, IssueToken, Rollback, tables
  <2>6. ASSUME NEW r \in Requests, NEW n \in Names, NEW c \in Codes, Begin(r, n, c) PROVE Kept
    BY <2>6 DEF Begin, tables
  <2>7. ASSUME NEW c \in Codes, CreateInviteCode(c) PROVE Kept
    BY <2>7 DEF CreateInviteCode
  <2>8. CASE Crash
    BY <2>8 DEF Crash, tables
  <2>. QED
    BY <1>1, <2>2, <2>3, <2>4, <2>5, <2>6, <2>7, <2>8 DEF Next, Step, vars, tables
<1>2. IInv /\ [Next]_vars => [Kept]_vars
  BY <1>1
<1>. QED
  BY <1>2, Invariant, PTL DEF Spec, NeverTakenBack

(* The transactions of RegisterUserWithInviteCode take their rows in one   *)
(* order, the code's before the user's: each wait is for one that is       *)
(* further on, and nobody waits for one that has inserted its user.        *)
THEOREM NoDeadlock == Spec => []WaitsAreShort
<1>1. ASSUME IInv, NEW r \in Requests, NEW q \in Requests, Blocks(q, r)
      PROVE  /\ place[q] \in Holding
             /\ place[r] = "selected" => place[q] \in Created
             /\ place[r] \in {"begun", "selected"}
  <2>1. CASE place[r] = "begun" /\ lock[form[r].code] = q
    <3>1. form[r].code \in Codes
      BY <1>1, <2>1 DEF IInv, HandlersOK, Formed
    <3>. QED
      BY <1>1, <2>1, <3>1 DEF IInv, Locks
  <2>2. CASE place[r] = "selected" /\ "user" \in pending[q]
    BY <1>1, <2>2 DEF IInv, Rows, Holding, Created
  <2>. QED
    BY <1>1, <2>1, <2>2 DEF Blocks
<1>2. ASSUME IInv PROVE WaitsAreShort
  <2>. SUFFICES ASSUME NEW r \in Requests, NEW q \in Requests, Blocks(q, r)
                PROVE  /\ q \in Active
                       /\ \A p \in Requests : Blocks(p, q) => p \in Active /\ ~Waits(p)
    BY DEF WaitsAreShort
  <2>1. place[q] \in Holding
    BY <1>1, <1>2
  <2>2. ASSUME NEW p \in Requests, Blocks(p, q) PROVE place[p] \in Created
    BY <1>1, <1>2, <2>1, <2>2 DEF Holding
  <2>3. ASSUME NEW p \in Requests, place[p] \in Created PROVE ~Waits(p)
    BY <1>1, <1>2, <2>3 DEF Waits, Created
  <2>. QED
    BY <2>1, <2>2, <2>3 DEF Active, Holding, Created
<1>. QED
  BY <1>2, Invariant, PTL

-----------------------------------------------------------------------------
LEMMA ToldFacts ==
  /\ Told("created") = "created" /\ Told("conflict") = "taken" /\ Told("invite") = "no code"
  /\ Told("invite failed") = "refused" /\ Told("error") = "unknown" /\ Told("lost") = "unknown"
  /\ Told(None) = None
BY AnswerFacts DEF Told

(* A request that is under way, for the abstract registration. *)
LEMMA WaitsFact ==
  ASSUME IInv, NEW r \in Requests, place[r] \notin {"idle", "done"}
  PROVE  Accounts!Waiting(r)
BY ToldFacts DEF IInv, HandlersOK, Accounts!Waiting, Accounts!NotAsked, NoForm, told

LEMMA WithoutFact ==
  ASSUME IInv, NEW r \in Requests, place[r] \notin {"committed", "done"}
  PROVE  Accounts!Without(r)
BY DEF IInv, Committed, Accounts!Without

LEMMA TellsStep ==
  ASSUME IInv, NEW r \in Requests, place[r] \notin {"idle", "done"}, NEW a \in Answers,
         answer' = [answer EXCEPT ![r] = a], UNCHANGED <<form, tables>>,
         Accounts!True(r, Told(a))
  PROVE  Accounts!Tell(r, Told(a))
<1>1. told' = [told EXCEPT ![r] = Told(a)]
  <2>1. answer \in [Requests -> Answers \cup {None}]
    BY DEF IInv, HandlersOK
  <2>2. \A q \in Requests : answer'[q] = IF q = r THEN a ELSE answer[q]
    BY <2>1
  <2>3. \A q \in Requests : Told(answer'[q]) = IF q = r THEN Told(a) ELSE Told(answer[q])
    BY <2>2
  <2>. QED
    BY <2>3 DEF told
<1>. QED
  BY <1>1, WaitsFact DEF Accounts!Tell, tables

(* A rollback tells the visitor why. *)
LEMMA RollbackMaps ==
  ASSUME IInv, NEW r \in Requests, NEW a \in Answers, Rollback(r, a),
         place[r] \in {"begun", "selected", "inserted"},
         \/ a = "conflict" /\ owner[form[r].name] # None
         \/ a = "invite" /\ (form[r].code \notin issued \/ usedBy[form[r].code] # None)
         \/ a \in {"invite failed", "error"}
  PROVE  Accounts!Next
<1>1. Accounts!True(r, Told(a))
  BY WithoutFact, ToldFacts DEF Accounts!True
<1>2. Told(a) \in {"created", "taken", "no code", "refused", "unknown"}
  BY ToldFacts
<1>. QED
  BY <1>1, <1>2, TellsStep DEF Rollback, Accounts!Next

(* A commit whose rows became visible registers the user. *)
LEMMA ApplyMaps ==
  ASSUME IInv, NEW r \in Requests, place[r] = "redeemed", Apply(r), UNCHANGED form,
         UNCHANGED answer \/ answer' = [answer EXCEPT ![r] = "error"]
  PROVE  Accounts!Register(r)
<1>1. /\ owner' = [owner EXCEPT ![form[r].name] = r]
      /\ usedBy' = [usedBy EXCEPT ![form[r].code] = r] /\ UNCHANGED issued
  BY DEF IInv, Rows, Apply
<1>2. owner[form[r].name] = None /\ form[r].code \in issued /\ usedBy[form[r].code] = None
  BY DEF IInv, Locks, NamesFree, Holding, Created
<1>3. UNCHANGED told \/ told' = [told EXCEPT ![r] = "unknown"]
  <2>1. answer \in [Requests -> Answers \cup {None}]
    BY DEF IInv, HandlersOK
  <2>2. CASE UNCHANGED answer
    BY <2>2 DEF told
  <2>3. CASE answer' = [answer EXCEPT ![r] = "error"]
    <3>1. \A q \in Requests : answer'[q] = IF q = r THEN "error" ELSE answer[q]
      BY <2>1, <2>3
    <3>2. \A q \in Requests : Told(answer'[q]) = IF q = r THEN "unknown" ELSE Told(answer[q])
      BY <3>1, ToldFacts
    <3>. QED
      BY <3>2 DEF told
  <2>. QED
    BY <2>2, <2>3
<1>. QED
  BY <1>1, <1>2, <1>3, WaitsFact, WithoutFact DEF Accounts!Register

(* A crash cuts off the requests that are under way. *)
LEMMA CrashMaps == IInv /\ Crash => Accounts!Lose(Active)
<1>. SUFFICES ASSUME IInv, Crash PROVE Accounts!Lose(Active)
  OBVIOUS
<1>1. \A r \in Requests : Told(answer'[r]) = IF r \in Active THEN "unknown" ELSE Told(answer[r])
  BY ToldFacts DEF Crash
<1>2. told' = [r \in Requests |-> IF r \in Active THEN "unknown" ELSE told[r]]
  BY <1>1 DEF told
<1>3. \A r \in Active : Accounts!Waiting(r)
  BY WaitsFact DEF Active
<1>. QED
  BY <1>2, <1>3 DEF Accounts!Lose, Crash, tables

LEMMA AccountsStep == IInv /\ [Next]_vars => [Accounts!Next]_(Accounts!vars)
<1>. SUFFICES ASSUME IInv, [Next]_vars PROVE [Accounts!Next]_(Accounts!vars)
  OBVIOUS
<1>0. ASSUME UNCHANGED <<form, answer, tables>> PROVE UNCHANGED Accounts!vars
  BY <1>0 DEF tables, told, Accounts!vars
<1>1. ASSUME NEW r \in Requests, NEW n \in Names, NEW c \in Codes, Begin(r, n, c)
      PROVE  Accounts!Ask(r, n, c)
  BY <1>1 DEF Begin, IInv, HandlersOK, tables, told, NoForm, Accounts!Ask, Accounts!NotAsked
<1>2. ASSUME NEW r \in Requests, SelectInvite(r) PROVE [Accounts!Next]_(Accounts!vars)
  <2>1. CASE form[r].code \in issued /\ usedBy[form[r].code] = None
    BY <1>0, <1>2, <2>1 DEF SelectInvite
  <2>2. CASE ~(form[r].code \in issued /\ usedBy[form[r].code] = None)
    BY <1>2, <2>2, RollbackMaps, AnswerFacts DEF SelectInvite
  <2>. QED
    BY <2>1, <2>2
<1>3. ASSUME NEW r \in Requests, InsertUser(r) PROVE [Accounts!Next]_(Accounts!vars)
  <2>1. CASE owner[form[r].name] = None
    BY <1>0, <1>3, <2>1 DEF InsertUser
  <2>2. CASE owner[form[r].name] # None
    BY <1>3, <2>2, RollbackMaps, AnswerFacts DEF InsertUser
  <2>. QED
    BY <2>1, <2>2
<1>4. ASSUME NEW r \in Requests, RedeemInvite(r) PROVE [Accounts!Next]_(Accounts!vars)
  <2>1. CASE usedBy[form[r].code] = None
    BY <1>0, <1>4, <2>1 DEF RedeemInvite
  <2>2. CASE usedBy[form[r].code] # None
    BY <1>4, <2>2, RollbackMaps, AnswerFacts DEF RedeemInvite
  <2>. QED
    BY <2>1, <2>2
<1>5. ASSUME NEW r \in Requests, StatementFails(r) PROVE [Accounts!Next]_(Accounts!vars)
  BY <1>5, RollbackMaps, AnswerFacts DEF StatementFails
<1>6. ASSUME NEW r \in Requests, Commit(r) PROVE Accounts!Register(r)
  BY <1>6, ApplyMaps DEF Commit
<1>7. ASSUME NEW r \in Requests, CommitFails(r)
      PROVE  Accounts!Register(r) \/ Accounts!Tell(r, "unknown")
  <2>1. CASE Apply(r)
    BY <1>7, <2>1, ApplyMaps DEF CommitFails
  <2>2. CASE ~Apply(r)
    <3>1. Accounts!True(r, Told("error"))
      BY ToldFacts DEF Accounts!True
    <3>2. Accounts!Tell(r, Told("error"))
      BY <1>7, <2>2, <3>1, TellsStep, AnswerFacts DEF CommitFails
    <3>. QED
      BY <3>2, ToldFacts
  <2>. QED
    BY <2>1, <2>2
<1>8. ASSUME NEW r \in Requests, IssueToken(r)
      PROVE  Accounts!Tell(r, "created") \/ Accounts!Tell(r, "unknown")
  <2>1. place[r] = "committed" /\ owner[form[r].name] = r /\ form[r].name \in Names
    BY <1>8 DEF IssueToken, IInv, Committed, HandlersOK, Formed
  <2>2. Accounts!Registered(r)
    BY <2>1 DEF IInv, UsersMatchInvites, Accounts!Registered
  <2>3. Accounts!True(r, Told("created")) /\ Accounts!True(r, Told("error"))
    BY <2>2, ToldFacts DEF Accounts!True
  <2>4. PICK a \in {"created", "error"} : answer' = [answer EXCEPT ![r] = a]
    BY <1>8 DEF IssueToken
  <2>5. Accounts!Tell(r, Told(a))
    BY <1>8, <2>1, <2>3, <2>4, TellsStep, AnswerFacts DEF IssueToken
  <2>. QED
    BY <2>4, <2>5, ToldFacts
<1>9. ASSUME NEW c \in Codes, CreateInviteCode(c) PROVE Accounts!Issue(c)
  BY <1>9 DEF CreateInviteCode, handlers, told, Accounts!Issue
<1>10. ASSUME NEW n \in Names, CreateUser(n) PROVE Accounts!CreateUser(n)
  BY <1>10 DEF CreateUser, handlers, told, Accounts!CreateUser
<1>11. CASE Crash
  <2>1. Active \in SUBSET Requests
    BY DEF Active
  <2>. QED
    BY <1>11, <2>1, CrashMaps DEF Accounts!Next
<1>12. CASE UNCHANGED vars
  BY <1>0, <1>12 DEF vars, handlers
<1>. QED
  BY <1>1, <1>2, <1>3, <1>4, <1>5, <1>6, <1>7, <1>8, <1>9, <1>10, <1>11, <1>12
     DEF Next, Step, Accounts!Next

(* The statements, locks, errors and crashes of the transaction implement  *)
(* one atomic registration, and every answer is true when it is given.     *)
THEOREM RefinesAccounts == Spec => ImplementsAccounts
<1>1. ASSUME Init PROVE Accounts!Init
  <2>1. \A r \in Requests : Told(answer[r]) = None
    BY <1>1, ToldFacts DEF Init
  <2>2. told = [r \in Requests |-> None]
    BY <2>1 DEF told
  <2>. QED
    BY <1>1, <2>2 DEF Init, NoForm, Accounts!Init, Accounts!NotAsked
<1>. QED
  BY <1>1, Invariant, AccountsStep, PTL DEF Spec, ImplementsAccounts, Accounts!Spec
=============================================================================
