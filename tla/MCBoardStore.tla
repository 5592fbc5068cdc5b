---------------------------- MODULE MCBoardStore ----------------------------
(* Small instances of BoardStore for TLC. *)
EXTENDS BoardAuthorization, TLC

CONSTANTS n1, N1, n2, k1, k2

(* n1 and N1 differ only in case. *)
MCNicknames == {n1, N1, n2}
MCNicknameKey == (n1 :> k1) @@ (N1 :> k1) @@ (n2 :> k2)

(* Nothing distinguishes the agents before one of them opens a room. *)
AgentsAlike == Permutations(Agents)

=============================================================================
