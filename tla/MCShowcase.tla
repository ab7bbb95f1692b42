----------------------------- MODULE MCShowcase -----------------------------
(* An instance of Showcase for TLC. *)
EXTENDS Showcase

CONSTANTS mail, wiki, docs

EachItsFile == [i \in Images |-> i]

(* mail and wiki stand for two names that differ in letter case only. *)
OneFileForTwo == [i \in Images |-> IF i = wiki THEN mail ELSE i]
=============================================================================
