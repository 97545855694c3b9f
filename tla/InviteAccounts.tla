---------------------------- MODULE InviteAccounts ----------------------------
(***************************************************************************)
(* What registration promises, whatever transactions, failures and crashes *)
(* come in between: an account and the use of its invite code appear in    *)
(* one step, at most once for a request and never after its visitor was    *)
(* told anything, and are not taken back; what the visitor is told is true *)
(* at that moment.                                                         *)
(***************************************************************************)
CONSTANTS Users, Names, Codes, Admin, None
VARIABLES
  asked,  \* the name and the code of each request
  told,   \* what its visitor was told
  owner, issued, usedBy

vars == <<asked, told, owner, issued, usedBy>>

NotAsked == [name |-> None, code |-> None]

Init ==
  /\ asked = [u \in Users |-> NotAsked] /\ told = [u \in Users |-> None]
  /\ owner = [n \in Names |-> None]
  /\ issued = {} /\ usedBy = [c \in Codes |-> None]

Waiting(u) == asked[u] # NotAsked /\ told[u] = None
Without(u) == (\A n \in Names : owner[n] # u) /\ (\A c \in Codes : usedBy[c] # u)
Registered(u) == owner[asked[u].name] = u /\ usedBy[asked[u].code] = u

Ask(u, n, c) ==
  /\ asked[u] = NotAsked
  /\ asked' = [asked EXCEPT ![u] = [name |-> n, code |-> c]]
  /\ UNCHANGED <<told, owner, issued, usedBy>>

(* The visitor may learn at once that the outcome is not known. *)
Register(u) ==
  LET n == asked[u].name
      c == asked[u].code
  IN
  /\ Waiting(u) /\ Without(u)
  /\ owner[n] = None /\ owner' = [owner EXCEPT ![n] = u]
  /\ c \in issued /\ usedBy[c] = None /\ usedBy' = [usedBy EXCEPT ![c] = u]
  /\ UNCHANGED told \/ told' = [told EXCEPT ![u] = "unknown"]
  /\ UNCHANGED <<asked, issued>>

(* Whether a visitor may be told so. *)
True(u, answer) ==
  \/ answer = "created" /\ Registered(u)
  \/ answer = "taken" /\ Without(u) /\ owner[asked[u].name] # None
  \/ /\ answer = "no code" /\ Without(u)
     /\ asked[u].code \notin issued \/ usedBy[asked[u].code] # None
  \/ answer = "refused" /\ Without(u)
  \/ answer = "unknown"

Tell(u, answer) ==
  /\ Waiting(u) /\ True(u, answer)
  /\ told' = [told EXCEPT ![u] = answer]
  /\ UNCHANGED <<asked, owner, issued, usedBy>>

(* The server dies: these visitors get no answer. *)
Lose(U) ==
  /\ \A u \in U : Waiting(u)
  /\ told' = [u \in Users |-> IF u \in U THEN "unknown" ELSE told[u]]
  /\ UNCHANGED <<asked, owner, issued, usedBy>>

Issue(c) ==
  /\ c \notin issued /\ issued' = issued \cup {c}
  /\ UNCHANGED <<asked, told, owner, usedBy>>

CreateUser(n) ==
  /\ owner[n] = None /\ owner' = [owner EXCEPT ![n] = Admin]
  /\ UNCHANGED <<asked, told, issued, usedBy>>

Next ==
  \/ \E u \in Users :
       \/ \E n \in Names, c \in Codes : Ask(u, n, c)
       \/ Register(u)
       \/ \E a \in {"created", "taken", "no code", "refused", "unknown"} : Tell(u, a)
  \/ \E U \in SUBSET Users : Lose(U)
  \/ \E c \in Codes : Issue(c)
  \/ \E n \in Names : CreateUser(n)

Spec == Init /\ [][Next]_vars
=============================================================================
