------------------------------- MODULE Profile -------------------------------
(***************************************************************************)
(* Editing profiles (PutUserInfo in route/v1/user.go over UpdateUser in    *)
(* service/user.go) while other requests do the same, change a password or *)
(* delete an account (ChangeUserPassword, DeleteUserById).  Each statement *)
(* on o_users is a step; what a request has read may be stale when it      *)
(* writes.  A row has the name, which is unique, one more field for the    *)
(* others that a profile has (email, nickname, avatar, description), the   *)
(* password and the role.                                                  *)
(***************************************************************************)
EXTENDS Naturals, FiniteSets

CONSTANTS
  User,       \* the accounts
  Admin,      \* the ones that are administrators
  Name,       \* user names
  Text,       \* values of the other fields
  Call,       \* requests
  Blank,      \* the empty string
  MaxPassword \* bound: passwords set per account

ProfileAssumption ==
  /\ Admin \subseteq User /\ Admin # {}
  /\ Blank \notin Name \cup Text
  /\ Cardinality(Name) >= Cardinality(User)
  /\ MaxPassword \in Nat

VARIABLES
  rows,      \* the ids in o_users
  row,       \* User -> the columns
  gone,      \* ids that were deleted
  call       \* Call -> the request

vars == <<rows, row, gone, call>>

Row == [name : Name, text : Text, password : 0..MaxPassword, role : {"admin", "user"}]

Idle == [op |-> "none", pc |-> "idle", id |-> Blank, name |-> Blank, text |-> Blank,
         user |-> [name |-> Blank, text |-> Blank, role |-> Blank], password |-> 0]

TypeOK ==
  /\ rows \subseteq User /\ gone = User \ rows
  /\ row \in [User -> Row]
  /\ \A c \in Call :
       /\ call[c].pc \in {"idle", "read", "taken", "update", "answer", "verify", "store"}
       /\ call[c].pc = "update" => call[c].user.name \in Name

Init ==
  /\ rows = User /\ gone = {}
  /\ row \in [User -> Row]
  /\ \A u \in User : row[u].password = 0 /\ (row[u].role = "admin") = (u \in Admin)
  /\ \A u, v \in User : row[u].name = row[v].name => u = v
  /\ call = [c \in Call |-> Idle]

Step(c, new) == call' = [call EXCEPT ![c] = new]

-----------------------------------------------------------------------------
(* PutUserInfo *)

\* The request names a new name, a new text, both or neither.
PutUserInfo(c, u, name, text) ==
  /\ call[c].pc = "idle"
  /\ Step(c, [Idle EXCEPT !.op = "put", !.pc = "read", !.id = u, !.name = name, !.text = text])
  /\ UNCHANGED <<rows, row, gone>>

\* Mutant: a missing row is not noticed, and is read as blank.
GetUserInfoByIdBlank(c) ==
  /\ call[c].pc = "read"
  /\ LET u == call[c].id
     IN  Step(c, [call[c] EXCEPT
           !.pc = IF call[c].name = Blank THEN "update" ELSE "taken",
           !.user = IF u \notin rows THEN Idle.user
                    ELSE [name |-> row[u].name, text |-> row[u].text, role |-> row[u].role]])
  /\ UNCHANGED <<rows, row, gone>>

\* The profile columns; the password is not among them.
GetUserInfoById(c) ==
  /\ call[c].pc = "read"
  /\ LET u == call[c].id
     IN  IF u \notin rows THEN Step(c, Idle)
         ELSE Step(c, [call[c] EXCEPT
                !.pc = IF call[c].name = Blank THEN "update" ELSE "taken",
                !.user = [name |-> row[u].name, text |-> row[u].text, role |-> row[u].role]])
  /\ UNCHANGED <<rows, row, gone>>

\* Another account has the name: refused.
GetUserInfoByUserName(c) ==
  /\ call[c].pc = "taken"
  /\ IF \E u \in rows : row[u].name = call[c].name /\ u # call[c].id
     THEN Step(c, Idle)
     ELSE Step(c, [call[c] EXCEPT !.pc = "update"])
  /\ UNCHANGED <<rows, row, gone>>

firstNonEmpty(candidate, fallback) == IF candidate # Blank THEN candidate ELSE fallback

\* The unique index on o_users.username.
NameFree(u, name) == \A v \in rows : row[v].name = name => u = v

\* What is written: the requested values over the ones read a while ago.
Updated(c) == [name |-> firstNonEmpty(call[c].name, call[c].user.name),
               text |-> firstNonEmpty(call[c].text, call[c].user.text)]

\* Mutant: Save inserts the row when there is none to update.
UpdateUserSaves(c) ==
  /\ call[c].pc = "update"
  /\ LET u == call[c].id
     IN  IF NameFree(u, Updated(c).name)
         THEN /\ row' = [row EXCEPT ![u].name = Updated(c).name, ![u].text = Updated(c).text]
              /\ rows' = rows \cup {u} /\ gone' = gone \ {u}
         ELSE UNCHANGED <<rows, row, gone>>
  /\ Step(c, [call[c] EXCEPT !.pc = "answer"])

\* Mutant: every column is written, with an old password.
UpdateUserWritesAll(c) ==
  /\ call[c].pc = "update"
  /\ LET u == call[c].id
     IN  IF u \in rows /\ NameFree(u, Updated(c).name)
         THEN row' = [row EXCEPT ![u].name = Updated(c).name, ![u].text = Updated(c).text,
                                 ![u].password = 0]
         ELSE UNCHANGED row
  /\ Step(c, [call[c] EXCEPT !.pc = "answer"])
  /\ UNCHANGED <<rows, gone>>

\* Updates touches an existing row only and leaves password, role and token
\* version out; its error is dropped, the unique index's included.
UpdateUser(c) ==
  /\ call[c].pc = "update"
  /\ LET u == call[c].id
     IN  IF u \in rows /\ NameFree(u, Updated(c).name)
         THEN row' = [row EXCEPT ![u].name = Updated(c).name, ![u].text = Updated(c).text]
         ELSE UNCHANGED row
  /\ Step(c, [call[c] EXCEPT !.pc = "answer"])
  /\ UNCHANGED <<rows, gone>>

\* The row is read once more for the answer.
Answer(c) ==
  /\ call[c].pc = "answer"
  /\ Step(c, Idle)
  /\ UNCHANGED <<rows, row, gone>>

-----------------------------------------------------------------------------
(* The requests beside it *)

PutUserPassword(c, u) ==
  /\ call[c].pc = "idle"
  /\ Step(c, [Idle EXCEPT !.op = "password", !.pc = "verify", !.id = u])
  /\ UNCHANGED <<rows, row, gone>>

\* The stored verifier is read; the request ends if the account is gone or the
\* old password is not the stored one.
VerifyOld(c) ==
  /\ call[c].pc = "verify"
  /\ LET u == call[c].id
     IN  \/ Step(c, Idle)
         \/ /\ u \in rows /\ row[u].password < MaxPassword
            /\ Step(c, [call[c] EXCEPT !.pc = "store", !.password = row[u].password])
  /\ UNCHANGED <<rows, row, gone>>

\* The new verifier replaces the one that was checked, or none.  (The token
\* version that advances with it and the sessions are those of Sessions.)
ChangeUserPassword(c) ==
  /\ call[c].pc = "store"
  /\ LET u == call[c].id
     IN  IF u \in rows /\ row[u].password = call[c].password
         THEN row' = [row EXCEPT ![u].password = @ + 1]
         ELSE UNCHANGED row
  /\ Step(c, Idle)
  /\ UNCHANGED <<rows, gone>>

Administrators == {u \in rows : row[u].role = "admin"}

\* One immediate transaction; the last administrator stays.  (The sessions that
\* are revoked after it are those of Installation and Sessions.)
DeleteUser(u) ==
  /\ u \in rows
  /\ row[u].role = "admin" => Cardinality(Administrators) > 1
  /\ rows' = rows \ {u} /\ gone' = gone \cup {u}
  /\ UNCHANGED <<row, call>>

-----------------------------------------------------------------------------
Next ==
  \/ \E c \in Call :
       \/ \E u \in User, name \in Name \cup {Blank}, text \in Text \cup {Blank} :
            PutUserInfo(c, u, name, text)
       \/ GetUserInfoById(c) \/ GetUserInfoByUserName(c) \/ UpdateUser(c) \/ Answer(c)
       \/ \E u \in User : PutUserPassword(c, u)
       \/ VerifyOld(c) \/ ChangeUserPassword(c)
  \/ \E u \in User : DeleteUser(u)

Spec == Init /\ [][Next]_vars

-----------------------------------------------------------------------------
(* Properties *)

\* Accounts only go, and the verifiers of one only follow one another.
Forward == rows' \subseteq rows /\ \A u \in User : row'[u].password >= row[u].password

\* An edit of a profile, which writes over a row it read before, brings back
\* neither an account that was deleted meanwhile nor a password that was
\* changed.
EditUndoesNothing == [][Forward]_vars
==============================================================================
