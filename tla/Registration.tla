----------------------------- MODULE Registration -----------------------------
(***************************************************************************)
(* User registration with invite codes: handleRegister of the admin API    *)
(* (internal/server/auth_handlers.go) and of the dashboard                 *)
(* (dashboard.go), the store's transaction (internal/store/                *)
(* invite_codes.go, RegisterUserWithInviteCode), and the other writers of  *)
(* its two tables. One request is one goroutine; the user id it creates    *)
(* is fresh, so requests stand for the ids.                                *)
(*                                                                         *)
(* The database is PostgreSQL at READ COMMITTED: SELECT ... FOR UPDATE     *)
(* locks a row until the transaction ends and sees what was committed      *)
(* before it got the lock; an INSERT waits for an uncommitted row with the *)
(* same key; no other transaction sees uncommitted rows. A name stands for *)
(* what the two UNIQUE columns, username and email, compare.               *)
(***************************************************************************)
EXTENDS Naturals, FiniteSets
CONSTANTS Requests, Names, Codes, Admin, None

Answers == {"created", "conflict", "invite", "invite failed", "error", "lost"}
ASSUME OutsidersAssumption ==
  /\ Admin \notin Requests /\ None \notin Requests \cup {Admin}
  /\ None \notin Names \cup Codes \cup Answers

VARIABLES
  place,   \* the place of each request's handler
  form,    \* the name and the code the visitor sent
  answer,  \* what the visitor was told
  owner,   \* committed users: the id that has each name
  issued,  \* committed invite codes ...
  usedBy,  \* ... and the user that each was redeemed by
  lock,    \* the transaction that holds a code's row
  pending  \* the uncommitted rows of each transaction

handlers == <<place, form, answer>>
tables   == <<owner, issued, usedBy>>
vars     == <<handlers, tables, lock, pending>>

NoForm == [name |-> None, code |-> None]

Init ==
  /\ place = [r \in Requests |-> "idle"]
  /\ form = [r \in Requests |-> NoForm]
  /\ answer = [r \in Requests |-> None]
  /\ owner = [n \in Names |-> None]
  /\ issued = {} /\ usedBy = [c \in Codes |-> None]
  /\ lock = [c \in Codes |-> None]
  /\ pending = [r \in Requests |-> {}]

Go(r, p) == place' = [place EXCEPT ![r] = p]

(* The end of a transaction drops its locks and its uncommitted rows. *)
EndTx(r) ==
  /\ lock' = [c \in Codes |-> IF lock[c] = r THEN None ELSE lock[c]]
  /\ pending' = [pending EXCEPT ![r] = {}]

(* An uncommitted row with this name. *)
Inserting(n) == \E r \in Requests : "user" \in pending[r] /\ form[r].name = n

(* tx.Rollback, deferred, and the answer to the visitor. *)
Rollback(r, a) ==
  /\ Go(r, "done") /\ answer' = [answer EXCEPT ![r] = a]
  /\ EndTx(r)
  /\ UNCHANGED <<form, tables>>

-----------------------------------------------------------------------------
(* The request is validated, the password hashed, the transaction begun.   *)
(* A code that is not issued stands for a wrong one.                       *)
Begin(r, name, code) ==
  /\ place[r] = "idle"
  /\ Go(r, "begun")
  /\ form' = [form EXCEPT ![r] = [name |-> name, code |-> code]]
  /\ UNCHANGED <<answer, tables, lock, pending>>

SelectInvite(r) ==
  LET c == form[r].code IN
  /\ place[r] = "begun" /\ lock[c] = None
  /\ IF c \in issued /\ usedBy[c] = None
     THEN /\ Go(r, "selected") /\ lock' = [lock EXCEPT ![c] = r]
          /\ UNCHANGED <<form, answer, tables, pending>>
     ELSE Rollback(r, "invite")

(* Mutant: the user is created on the pool, outside the transaction. *)
InsertUserDirectly(r) ==
  LET n == form[r].name IN
  /\ place[r] = "selected" /\ ~Inserting(n)
  /\ IF owner[n] = None
     THEN /\ Go(r, "inserted") /\ owner' = [owner EXCEPT ![n] = r]
          /\ UNCHANGED <<form, answer, issued, usedBy, lock, pending>>
     ELSE Rollback(r, "conflict")

(* Mutant: a failed INSERT leaves the transaction open. *)
InsertUserNoRollback(r) ==
  LET n == form[r].name IN
  /\ place[r] = "selected" /\ ~Inserting(n)
  /\ IF owner[n] = None
     THEN /\ Go(r, "inserted") /\ pending' = [pending EXCEPT ![r] = {"user"}]
          /\ UNCHANGED <<form, answer, tables, lock>>
     ELSE /\ Go(r, "done") /\ answer' = [answer EXCEPT ![r] = "conflict"]
          /\ UNCHANGED <<form, tables, lock, pending>>

(* The UNIQUE columns of users decide. *)
InsertUser(r) ==
  LET n == form[r].name IN
  /\ place[r] = "selected" /\ ~Inserting(n)
  /\ IF owner[n] = None
     THEN /\ Go(r, "inserted") /\ pending' = [pending EXCEPT ![r] = {"user"}]
          /\ UNCHANGED <<form, answer, tables, lock>>
     ELSE Rollback(r, "conflict")

(* UPDATE ... AND used_by IS NULL. *)
RedeemInvite(r) ==
  /\ place[r] = "inserted"
  /\ IF usedBy[form[r].code] = None
     THEN /\ Go(r, "redeemed") /\ pending' = [pending EXCEPT ![r] = @ \cup {"invite"}]
          /\ UNCHANGED <<form, answer, tables, lock>>
     ELSE Rollback(r, "invite")

(* The database makes the rows of a transaction visible at once. *)
Apply(r) ==
  /\ owner' = IF "user" \in pending[r] THEN [owner EXCEPT ![form[r].name] = r] ELSE owner
  /\ usedBy' = IF "invite" \in pending[r] THEN [usedBy EXCEPT ![form[r].code] = r] ELSE usedBy
  /\ EndTx(r)
  /\ UNCHANGED issued

(* Mutant: the error of Commit is dropped. *)
CommitErrorIgnored(r) ==
  /\ place[r] = "redeemed"
  /\ Go(r, "committed")
  /\ Apply(r) \/ (EndTx(r) /\ UNCHANGED tables)
  /\ UNCHANGED <<form, answer>>

Commit(r) ==
  /\ place[r] = "redeemed"
  /\ Go(r, "committed") /\ Apply(r)
  /\ UNCHANGED <<form, answer>>

(* An error of Commit leaves open whether the rows were committed. *)
CommitFails(r) ==
  /\ place[r] = "redeemed"
  /\ Go(r, "done") /\ answer' = [answer EXCEPT ![r] = "error"]
  /\ Apply(r) \/ (EndTx(r) /\ UNCHANGED tables)
  /\ UNCHANGED form

(* An error of the database. The answer is chosen by the text of the       *)
(* error, and those of the SELECT and of the UPDATE name the invite code:  *)
(* "invite failed" has the same text as "invite", and only its reason is   *)
(* another.                                                                *)
StatementFails(r) ==
  \/ place[r] = "selected" /\ Rollback(r, "error")
  \/ place[r] \in {"begun", "inserted"} /\ Rollback(r, "invite failed")

(* A token is issued for the new user, and the visitor is told; the API    *)
(* answers an error if that fails, although the account exists by then.    *)
IssueToken(r) ==
  /\ place[r] = "committed"
  /\ Go(r, "done")
  /\ \E a \in {"created", "error"} : answer' = [answer EXCEPT ![r] = a]
  /\ UNCHANGED <<form, tables, lock, pending>>

(* The server stops or dies: visitors get no answer, and the database      *)
(* rolls back what its connections had begun.                              *)
Active == {r \in Requests : place[r] \notin {"idle", "done"}}

Crash ==
  /\ Active # {}
  /\ place' = [r \in Requests |-> IF r \in Active THEN "done" ELSE place[r]]
  /\ answer' = [r \in Requests |-> IF r \in Active THEN "lost" ELSE answer[r]]
  /\ lock' = [c \in Codes |-> None]
  /\ pending' = [r \in Requests |-> {}]
  /\ UNCHANGED <<form, tables>>

-----------------------------------------------------------------------------
(* An administrator creates a code, and the server's command line a user. *)
CreateInviteCode(c) ==
  /\ c \notin issued /\ issued' = issued \cup {c}
  /\ UNCHANGED <<handlers, owner, usedBy, lock, pending>>

CreateUser(n) ==
  /\ ~Inserting(n) /\ owner[n] = None
  /\ owner' = [owner EXCEPT ![n] = Admin]
  /\ UNCHANGED <<handlers, issued, usedBy, lock, pending>>

Step(r) == SelectInvite(r) \/ InsertUser(r) \/ RedeemInvite(r) \/ Commit(r) \/ IssueToken(r)

Next ==
  \/ \E r \in Requests :
       \/ Step(r) \/ CommitFails(r) \/ StatementFails(r)
       \/ \E n \in Names, c \in Codes : Begin(r, n, c)
  \/ \E c \in Codes : CreateInviteCode(c)
  \/ \E n \in Names : CreateUser(n)
  \/ Crash
Spec == Init /\ [][Next]_vars

(* Handlers run, and the database answers once the locks allow it. *)
FairSpec == Spec /\ \A r \in Requests : WF_vars(Step(r))

-----------------------------------------------------------------------------
(* Type correctness: a request has a form from its start and an answer at  *)
(* its end.                                                                *)
TypeOK ==
  /\ place \in [Requests -> {"idle", "begun", "selected", "inserted", "redeemed",
                             "committed", "done"}]
  /\ form \in [Requests -> [name: Names \cup {None}, code: Codes \cup {None}]]
  /\ \A r \in Requests : (place[r] = "idle") <=> (form[r] = NoForm)
  /\ answer \in [Requests -> Answers \cup {None}]
  /\ \A r \in Requests : (place[r] = "done") <=> (answer[r] # None)
  /\ owner \in [Names -> Requests \cup {Admin, None}]
  /\ issued \subseteq Codes /\ usedBy \in [Codes -> Requests \cup {None}]
  /\ lock \in [Codes -> Requests \cup {None}]
  /\ pending \in [Requests -> SUBSET {"user", "invite"}]

HasUser(r) == \E n \in Names : owner[n] = r
HasInvite(r) == \E c \in Codes : usedBy[c] = r

(* A registered user has redeemed the code it registered with, and a       *)
(* redeemed code was issued and its user exists: no orphaned users, no     *)
(* codes lost without a user, in any interleaving, failure or crash.       *)
UsersMatchInvites ==
  \A r \in Requests :
    /\ \A n \in Names : owner[n] = r =>
         form[r].name = n /\ form[r].code \in issued /\ usedBy[form[r].code] = r
    /\ \A c \in Codes : usedBy[c] = r => form[r].code = c /\ owner[form[r].name] = r

(* A visitor who is told "created" has an account and has used the code;   *)
(* one who is refused has neither, and may send the form again.            *)
AnswersTrue ==
  \A r \in Requests :
    /\ answer[r] = "created" => HasUser(r) /\ HasInvite(r)
    /\ answer[r] \in {"conflict", "invite", "invite failed"} => ~HasUser(r) /\ ~HasInvite(r)

(* What is committed stays: no transaction, statement or crash takes a     *)
(* name from its user or a redeemed code from the user that redeemed it.   *)
NeverTakenBack ==
  [][/\ \A n \in Names : owner[n] # None => owner'[n] = owner[n]
     /\ \A c \in Codes : usedBy[c] # None => usedBy'[c] = usedBy[c]]_vars

(* The transactions with their locks, errors and crashes implement one     *)
(* atomic registration per request, and answers that are true.             *)
Told(a) ==
  CASE a = "conflict" -> "taken"
    [] a = "invite" -> "no code"
    [] a = "invite failed" -> "refused"
    [] a \in {"error", "lost"} -> "unknown"
    [] OTHER -> a
told == [r \in Requests |-> Told(answer[r])]
Accounts == INSTANCE InviteAccounts WITH Users <- Requests, asked <- form
ImplementsAccounts == Accounts!Spec

(* Whom a transaction waits for: the holder of its code's row, or another  *)
(* one that has inserted its name.                                         *)
Blocks(q, r) ==
  \/ place[r] = "begun" /\ lock[form[r].code] = q
  \/ place[r] = "selected" /\ "user" \in pending[q] /\ form[q].name = form[r].name
Waits(r) == \E q \in Requests : Blocks(q, r)

(* No transaction waits for itself, round a cycle or for one that is over, *)
(* although each takes a row of invite_codes and one of users: whom it     *)
(* waits for is under way, and waits for none or for one that waits for    *)
(* none.                                                                   *)
WaitsAreShort ==
  \A r, q \in Requests : Blocks(q, r) =>
    /\ q \in Active
    /\ \A p \in Requests : Blocks(p, q) => p \in Active /\ ~Waits(p)

(* A registration ends: transactions do not wait for each other for good. *)
RegistrationEnds == \A r \in Requests : place[r] = "begun" ~> place[r] = "done"
=============================================================================
