----------------------------- MODULE Conversation -----------------------------
(***************************************************************************)
(* What a session of the Colibri runtime promises to those who generate on *)
(* it: its cache is the record of one conversation, that of author, which  *)
(* only grows until it is dropped.                                         *)
(***************************************************************************)
EXTENDS Integers

CONSTANTS Clients, Nobody

VARIABLES author,   \* whose prompt and answer the rows are
          length    \* rows in the cache

Init == author = Nobody /\ length = 0

Open == author = Nobody /\ author' \in Clients /\ length' \in Nat \ {0}

Extend == author # Nobody /\ author' = author /\ length' = length + 1

Drop == author' = Nobody /\ length' = 0

Next == Open \/ Extend \/ Drop

Spec == Init /\ [][Next]_<<author, length>>
=============================================================================
