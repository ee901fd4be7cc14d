----------------------------- MODULE MCSessions -----------------------------
(* Small instances of Sessions for TLC. *)
EXTENDS Sessions, TLC

\* Each browser has a single page, or all pages are of one browser.
OnePageEach == [p \in Page |-> p]
Tabs == [p \in Page |-> CHOOSE b \in Browser : TRUE]

Symmetric == Permutations(User) \cup Permutations(Page)
             \cup Permutations(Request) \cup Permutations(Token)
=============================================================================
