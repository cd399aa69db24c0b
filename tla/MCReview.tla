----------------------------- MODULE MCReview -----------------------------
(* Small instances of Review: two submissions that share a technique, and  *)
(* where MCLearns is taken, one of them teaches a sample too.              *)
EXTENDS Review

CONSTANTS s1, s2, sample, tech

MCBase(s) == IF s = s1 THEN Malicious ELSE Unknown
MCLearns(s) == IF s = s1 THEN <<sample, tech>> ELSE <<tech>>
MCShared(s) == <<tech>>

Cited   == [kind |-> "technique", conf |-> "LOW", grounded |-> TRUE,
            refuted |-> FALSE, novel |-> FALSE, shaky |-> FALSE]
Hunch   == [kind |-> "family", conf |-> "HIGH", grounded |-> FALSE,
            refuted |-> FALSE, novel |-> FALSE, shaky |-> FALSE]

OneProposal == {<<Cited>>}
MCProposals == {<<Cited, Hunch>>}
=============================================================================
