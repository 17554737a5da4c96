----------------------------- MODULE MCChannels -----------------------------
(* Small instances of Channels for TLC. *)
EXTENDS Channels, TLC

CONSTANTS c1, c2, c3, d1, b1, v1, v2, v3, h1, h2

\* Two accounts: the first connects one token twice, the second the same token.
Owners == [r \in Requests \ Updates |-> IF r = c3 THEN "u2" ELSE "u1"]
OneToken == [c \in Connects |-> "t"]
ChatOfUpdate == [v \in Updates |-> IF v = v3 THEN h2 ELSE h1]

\* One phone that connects twice.
OnePhone == [c \in Sockets |-> h1]

\* The components use the same model values for what is interchangeable.
ChannelSymmetry == Permutations({c1, c2}) \cup Permutations({v1, v2})
=============================================================================
