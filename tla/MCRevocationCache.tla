------------------------- MODULE MCRevocationCache --------------------------
(* An instance of RevocationCache for TLC: a token that a revocation can reach    *)
(* by its jti, its family and its client, whose rows are kept longer.             *)
EXTENDS RevocationCache

CONSTANTS t1, j1, f, a

MCDimensionOf == [c \in Criteria |->
  CASE c = j1 -> "jti" [] c = f -> "token_family" [] OTHER -> "app.key"]
MCJTIOf == [t \in Tokens |-> j1]
MCCarries == [t \in Tokens |-> Criteria]
MCValidity == [t \in Tokens |-> 1]
MCTTL == [c \in Criteria |-> IF c = a THEN 2 ELSE 0]
=============================================================================
