-------------------------- MODULE ConfigStoreRegister --------------------------
(***************************************************************************)
(* The store of ConfigStore seen as the register of DurableRegister.       *)
(***************************************************************************)
EXTENDS ConfigStore

\* What the user of the register sees of the store: complete files, requests under
\* way, those that have changed the entry, and the answers given.
Complete == {i \in Inode : data[i] = "synced"}
Pending  == {h \in Handler : at[h] # "idle"}
Changed  == {h \in Handler : at[h] \in {"syncWrite", "publish", "syncDelete"}}
Answer   == [h \in Handler |-> IF result[h] = "ok" THEN {ino[h]} ELSE {}]

Register ==
  INSTANCE DurableRegister WITH
    Client <- Handler, Value <- Inode, Absent <- None,
    history <- log, safe <- disk, whole <- Complete, pending <- Pending,
    start <- since, changed <- Changed, answer <- Answer, acked <- told

\* Through all its system calls, failures and losses of power the store behaves
\* as one atomic register: the value changes once per request and only to a
\* complete one, a GET answers with a value of its own time, a response or a
\* save_config event is an acknowledgement, and no crash undoes what it covers.
ImplementsRegister == Register!Spec
==============================================================================
