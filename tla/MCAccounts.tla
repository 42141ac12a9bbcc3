----------------------------- MODULE MCAccounts -----------------------------
(***************************************************************************)
(* One instance for two parts that requests on accounts race through: the  *)
(* rate-limit keys (LoginThrottle) and the editing of profiles (Profile).  *)
(* They share no state: a behaviour chooses the part it is about, and the  *)
(* other keeps an initial state.  Two administrators, so that one can be   *)
(* deleted, and a name that nobody has at first.  The rows of different    *)
(* keys do not depend on one another, so one key is enough; the ticks are  *)
(* enough for a window to run out and for PruneAuthState to find its row.  *)
(***************************************************************************)
EXTENDS LoginThrottle, TLC

CONSTANTS
  User, Name, Text, Blank, MaxPassword, \* of Profile
  Spare                                 \* one of the names

VARIABLES
  part,   \* the part that runs
  rows, row, gone, call

Account == INSTANCE Profile WITH Admin <- User, Call <- Handler

profile == <<rows, row, gone, call>>

ASSUME Account!ProfileAssumption /\ Spare \in Name

\* Requests are interchangeable, and so are keys.
Symmetry == Permutations(Handler) \cup Permutations(Key) \cup Permutations(Name \ {Spare})

-----------------------------------------------------------------------------
(* The parts side by side *)

PartsInit ==
  /\ part \in {"throttle", "profile"}
  /\ Init
  /\ Account!Init
  /\ \A u \in User : row[u].name # Spare

PartsNext ==
  /\ UNCHANGED part
  /\ \/ part = "throttle" /\ Next /\ UNCHANGED profile
     \/ part = "profile" /\ Account!Next /\ UNCHANGED vars

PartsVars == <<part, vars, profile>>

PartsSpec == PartsInit /\ [][PartsNext]_PartsVars

-----------------------------------------------------------------------------
(* Properties *)

\* Both parts stay in their types: attempts are dated (RecordLoginFailure), and
\* no profile is written from a row that is not there (GetUserInfoById).
PartsTypeOK == TypeOK /\ Account!TypeOK

\* A deleted account is not written back, a password change is not undone
\* (PutUserInfo against DeleteUser and ChangeUserPassword).
EditUndoesNothing == [][Account!Forward]_profile
=============================================================================
