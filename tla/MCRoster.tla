------------------------------ MODULE MCRoster ------------------------------
(* A known technique, an unknown one, and an unknown sub-technique of the  *)
(* known one.                                                              *)
EXTENDS Roster

CONSTANTS known, new, sub

MCNear(t) == IF t = sub THEN {known} ELSE {}
MCHash(x) == x

Says(t, why, cites) == [ttp |-> t, why |-> why, cites |-> cites]

MCFamilies == {[name |-> n, conf |-> "HIGH", cites |-> {Junk}] : n \in {"said", "blank"}}
MCBehaviours ==
  {<<Says(NoTechnique, "long", {known, Junk}), Says(new, "said", {known})>>,
   <<Says(new, "none", {}), Says(known, "said", {known, Junk})>>,
   <<Says(known, "said", {known, new})>>}
MCIOCs == {{[at |-> 1, type |-> "said", seen |-> TRUE], [at |-> 2, type |-> "said", seen |-> b]} :
             b \in BOOLEAN}
          \cup {{[at |-> 1, type |-> "none", seen |-> TRUE]}}
MCOtherRecords == {[outcome |-> "gated", needsHuman |-> TRUE, accepted |-> 1,
                    cited |-> {}, tiers |-> {}]}
MCEvidences == {{new}, {known, sub}}
=============================================================================
