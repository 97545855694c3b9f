---------------------------- MODULE ServerIdentity ----------------------------
(***************************************************************************)
(* What the server promises over all its runs to those that remember it:   *)
(* it has one host key and one secret for sessions, each made once and     *)
(* never replaced, and every run shows this key and accepts what was       *)
(* signed with this secret, whatever files, kills and failed starts come   *)
(* in between.                                                             *)
(***************************************************************************)
CONSTANTS Keys, Secrets, Clients, Browsers, Absent
VARIABLES
  hostKey, signing,  \* the identity, Absent until made
  shown, accepted,   \* what the present run uses; Absent while none serves
  known, cookie      \* what clients and browsers remember

vars == <<hostKey, signing, shown, accepted, known, cookie>>

Init ==
  /\ hostKey = Absent /\ signing = Absent /\ shown = Absent /\ accepted = Absent
  /\ known = [c \in Clients |-> Absent] /\ cookie = [b \in Browsers |-> Absent]

MakeHostKey ==
  /\ hostKey = Absent /\ hostKey' \in Keys
  /\ UNCHANGED <<signing, shown, accepted, known, cookie>>

(* A run begins to serve; the first one makes the secret. *)
Up ==
  /\ shown = Absent /\ hostKey # Absent
  /\ IF signing = Absent THEN signing' \in Secrets ELSE UNCHANGED signing
  /\ shown' = hostKey /\ accepted' = signing'
  /\ UNCHANGED <<hostKey, known, cookie>>

Down ==
  /\ shown # Absent
  /\ shown' = Absent /\ accepted' = Absent
  /\ UNCHANGED <<hostKey, signing, known, cookie>>

Connect(c) ==
  /\ shown # Absent /\ known[c] = Absent
  /\ known' = [known EXCEPT ![c] = shown]
  /\ UNCHANGED <<hostKey, signing, shown, accepted, cookie>>

Login(b) ==
  /\ accepted # Absent
  /\ cookie' = [cookie EXCEPT ![b] = accepted]
  /\ UNCHANGED <<hostKey, signing, shown, accepted, known>>

Logout(b) ==
  /\ cookie[b] # Absent
  /\ cookie' = [cookie EXCEPT ![b] = Absent]
  /\ UNCHANGED <<hostKey, signing, shown, accepted, known>>

Next ==
  \/ MakeHostKey \/ Up \/ Down
  \/ \E c \in Clients : Connect(c)
  \/ \E b \in Browsers : Login(b) \/ Logout(b)
Spec == Init /\ [][Next]_vars
=============================================================================
