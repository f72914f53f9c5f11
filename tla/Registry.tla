------------------------------ MODULE Registry ------------------------------
(***************************************************************************)
(* What a table shared by the threads of a process promises: a client that *)
(* asks for a key gets its entry, which is made by the first client that   *)
(* needs it and is the same for all from then on.  "Separating 'get' and   *)
(* 'create' functions would break atomicity" (Automap_Pmap.c:125).         *)
(*                                                                         *)
(* An entry is named by the client that made it.                           *)
(***************************************************************************)
CONSTANTS Clients, Keys, None

VARIABLES
  table,  \* key -> entry, or None
  asked,  \* client -> the key it waits for, or None
  got     \* client -> the entry it uses, or None

vars == <<table, asked, got>>

Init ==
  /\ table = [k \in Keys |-> None]
  /\ asked = [c \in Clients |-> None]
  /\ got = [c \in Clients |-> None]

Ask(c, k) ==
  /\ asked[c] = None
  /\ asked' = [asked EXCEPT ![c] = k]
  /\ got' = [got EXCEPT ![c] = None]
  /\ UNCHANGED table

\* The first to need the entry makes it.
Create(c, k) ==
  /\ asked[c] = k
  /\ table[k] = None
  /\ table' = [table EXCEPT ![k] = c]
  /\ asked' = [asked EXCEPT ![c] = None]
  /\ got' = [got EXCEPT ![c] = c]

\* The others find it, or know it already.
Get(c, k) ==
  /\ asked[c] \in {k, None}
  /\ table[k] # None
  /\ asked' = [asked EXCEPT ![c] = None]
  /\ got' = [got EXCEPT ![c] = table[k]]
  /\ UNCHANGED table

\* The entry cannot be made, or is not needed any more.
Leave(c) ==
  /\ asked' = [asked EXCEPT ![c] = None]
  /\ got' = [got EXCEPT ![c] = None]
  /\ UNCHANGED table

\* The process ends and another one starts.
Restart ==
  /\ table' = [k \in Keys |-> None]
  /\ asked' = [c \in Clients |-> None]
  /\ got' = [c \in Clients |-> None]

Next ==
  \/ \E c \in Clients : Leave(c) \/ (\E k \in Keys : Ask(c, k) \/ Create(c, k) \/ Get(c, k))
  \/ Restart

Spec == Init /\ [][Next]_vars
=============================================================================
