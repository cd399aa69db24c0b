------------------------------ MODULE MCVault ------------------------------
(* Small instances of the vault for TLC: blobs x and y of one and two      *)
(* units.                                                                  *)
EXTENDS Vault
CONSTANTS x, y
MCSize(b) == IF b = x THEN 1 ELSE 2
============================================================================
