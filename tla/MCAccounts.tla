------------------------------ MODULE MCAccounts ------------------------------
(* Accounts with an administrator, and a user who typed her address in capitals. *)
EXTENDS Accounts

CONSTANTS root, ana, rootMail, anaMail, AnaMail

Lowered == [e \in Addresses |-> IF e = AnaMail THEN anaMail ELSE e]
SeedMail == [a \in Seeds |-> IF a = root THEN rootMail ELSE AnaMail]

================================================================================
