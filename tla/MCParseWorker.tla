--------------------------- MODULE MCParseWorker ---------------------------
(* Instances of ParseWorker for TLC. *)
EXTENDS ParseWorker

CONSTANTS b1, b2, markdown, rust

(* Markdown's fenced blocks are in rust. *)
Fenced == [l \in LanguageId |-> IF l = markdown THEN {rust} ELSE {}]

=============================================================================
