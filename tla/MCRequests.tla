----------------------------- MODULE MCRequests -----------------------------
(***************************************************************************)
(* Requests and Scripts for TLC: values of the constants that a            *)
(* configuration cannot write, and the symmetry of the sets it gives.      *)
(***************************************************************************)
EXTENDS Scripts, TLC

MCOne       == [k \in {"pre", "post", "global"} |-> 1]
MCCapacity  == [pre |-> 1, post |-> 2, global |-> 1]
MCRateLimit == [email |-> 1, ip |-> 2]
MCNormal    == [c \in Code |-> IF c = "n" THEN "a" ELSE c]
MCShard     == [c \in Code |-> IF c \in {"a", "b", "c"} THEN 1 ELSE 2]

\* A text that is written as a native line feed, and bytes that are text and that are not.
MCBlobTexts == {<<13, 10>>}
MCBlobFirst == <<1, 255>>

\* Tokens, callers and requests are interchangeable.
Kinds == {Token, Caller, Request}
Symmetry == {f \in Permutations(UNION Kinds) :
               /\ \A K \in Kinds : \A x \in K : f[x] \in K
               /\ (\A x \in UNION Kinds : f[x] = x) \/ (\A x \in UNION Kinds : f[x] # x)}
=============================================================================
