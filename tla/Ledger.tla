------------------------------- MODULE Ledger -------------------------------
(***************************************************************************)
(* The audit ledger of the AI plane (internal/aiplane/ledger.go): an       *)
(* append-only chain in which the hash of every entry covers its content,  *)
(* its number and the hash before it, and the head is the last hash.       *)
(***************************************************************************)
EXTENDS Naturals, Sequences

CONSTANTS Hash(_), Genesis

Blank(n, body, prev) == [seq |-> n, body |-> body, prev |-> prev]

(* Mutation: an entry's hash does not cover the one before it.             *)
SealUnchained(n, body, prev) ==
  [seq |-> n, body |-> body, prev |-> prev, hash |-> Hash(Blank(n, body, Genesis))]

(* hashHandshake: over the whole entry, with the hash itself left blank.   *)
Seal(n, body, prev) ==
  [seq |-> n, body |-> body, prev |-> prev, hash |-> Hash(Blank(n, body, prev))]

NewLedger == [entries |-> <<>>, last |-> Genesis]

Appended(l, body) ==
  LET e == Seal(Len(l.entries), body, l.last)
  IN  [entries |-> Append(l.entries, e), last |-> e.hash]

Before(l, i) == IF i = 1 THEN Genesis ELSE l.entries[i - 1].hash

Verify(l) ==
  /\ \A i \in 1..Len(l.entries) :
       l.entries[i] = Seal(i - 1, l.entries[i].body, Before(l, i))
  /\ l.last = Before(l, Len(l.entries) + 1)

(* The check against a count and a head kept elsewhere.                    *)
VerifyAgainst(l, count, head) ==
  Verify(l) /\ Len(l.entries) = count /\ l.last = head
=============================================================================
