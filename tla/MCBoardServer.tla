--------------------------- MODULE MCBoardServer ---------------------------
(* A small instance of BoardServer for TLC. *)
EXTENDS BoardServer, TLC

CONSTANTS boss, deputy, guest,
          r1, r2, n1, n2, k1, i1, b1, b2

MCNicknames == {n1, n2}
MCNicknameKey == (n1 :> k1) @@ (n2 :> k1)

Ask(op, agent, r, target, role, nickname, key, body) ==
  [op |-> op, agent |-> agent, room |-> r, target |-> target, role |-> role,
   nickname |-> nickname, key |-> key, body |-> body]

Create(a, r) == Ask("create", a, r, None, None, None, None, None)
Grant(a, t, role) == Ask("grant", a, r1, t, role, None, None, None)
Revoke(a, t) == Ask("revoke", a, r1, t, None, None, None, None)
Rename(a, n) == Ask("nickname", a, r1, None, None, n, None, None)
PostAs(a, body) == Ask("post", a, r1, None, None, None, i1, body)

(* The owner and an admin edit the allowlist, also each other's entry; a   *)
(* member posts, retries, changes its name and is removed and readmitted;  *)
(* an outsider tries.                                                      *)
EveryRequest ==
  {Create(boss, r1), Create(boss, r2),
   Grant(boss, deputy, "admin"), Revoke(boss, deputy), Revoke(deputy, boss),
   Grant(boss, guest, "poster"), Grant(deputy, guest, "owner"), Revoke(boss, guest),
   Grant(deputy, guest, "reader"), Revoke(guest, deputy),
   Rename(guest, n1), PostAs(guest, b1), PostAs(guest, b2)}

=============================================================================
