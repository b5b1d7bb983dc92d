------------------------------ MODULE SecretStore ------------------------------
(***************************************************************************)
(* What the vault promises: a map from names to values under one key, where *)
(* every operation happens at once or not at all.  There is no action for a *)
(* crash, a lock or a failed call, because none of them changes the store. *)
(***************************************************************************)
EXTENDS Naturals

CONSTANTS
    Names,       \* names of secrets
    Keys,        \* keys that open the store
    Values       \* values of secrets

VARIABLES
    key,         \* the key the store is under, 0 before it is created
    secrets      \* the value of every name, 0 if there is none

vars == <<key, secrets>>

Init == key = 0 /\ secrets = [n \in Names |-> 0]

Create == key = 0 /\ key' \in Keys /\ UNCHANGED secrets

Put == /\ key # 0
       /\ \E n \in Names, v \in Values : secrets' = [secrets EXCEPT ![n] = v]
       /\ UNCHANGED key

Drop == /\ key # 0
        /\ \E n \in Names : secrets' = [secrets EXCEPT ![n] = 0]
        /\ UNCHANGED key

\* A new key; not one secret changes.
ChangePassword == key # 0 /\ key' \in Keys \ {key} /\ UNCHANGED secrets

Next == Create \/ Put \/ Drop \/ ChangePassword

Spec == Init /\ [][Next]_vars
=============================================================================
