------------------------------ MODULE MCWebAuth ------------------------------
EXTENDS WebAuth, TLC

CONSTANTS w1, w2, s1, s2, r1, r2

(* What a handler may still use of what it has read *)
Kept(q) ==
  CASE q = None -> None
    [] q.pc = "login" -> q
    [] q.pc = "welcome" -> <<q.s, q.overtaken>>
    [] q.pc \in {"required", "confirmed"} -> <<q.pc, q.kind, q.s, q.pw>>
    [] q.pc = "check" -> <<q.s, q.reauth>>
    [] q.pc = "body" -> <<q.s, q.pc, q.read>>
    [] OTHER -> <<q.pc, q.s>>

(* Rows of sessions that nobody can use any more are all alike. *)
Relevant ==
  <<admin, IF admin = None THEN token ELSE None, [r \in Requests |-> Kept(req[r])], history,
    [s \in Sessions |-> IF Unused(s) THEN None ELSE sess[s]]>>

Symmetric == Permutations(Passwords) \cup Permutations(Sessions) \cup Permutations(Requests)
=============================================================================
