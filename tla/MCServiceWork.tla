--------------------------- MODULE MCServiceWork ---------------------------
(* A small instance of ServiceWork: one chat receives a queued message, a   *)
(* cancellation and a scheduled run, another an ordinary message, and both  *)
(* share two operation ids, which are interchangeable.                      *)
EXTENDS ServiceWork, TLC

CONSTANTS q1, x1, m1, r1, dm, web, o1, o2, i1

LedgerSources == {q1, x1, m1, r1}
LedgerKind == [s \in LedgerSources |->
  CASE s = q1 -> "queued"
    [] s = x1 -> "cancellation"
    [] s = m1 -> "message"
    [] s = r1 -> "scheduled"]
LedgerChatOf == [s \in LedgerSources |-> IF s = m1 THEN dm ELSE web]
LedgerSymmetry == Permutations({o1, o2})
=============================================================================
