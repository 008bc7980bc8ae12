------------------------ MODULE MCChannelRouting ------------------------
(* ChannelRouting with two providers that share a user id.                 *)
EXTENDS ChannelRouting, TLC

CONSTANTS r1, r2, mattermost, telegram, u1, a, b, j1, j2

Symmetry == Permutations(Replicas) \cup Permutations(Rooms) \cup Permutations(Jobs)

=========================================================================
