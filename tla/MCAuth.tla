------------------------------- MODULE MCAuth -------------------------------
(* Instances of Auth for TLC. *)
EXTENDS Auth, TLC

CONSTANTS u1, u2, b1, b2, f1, f2, c1, c2, c3, q1, q2, q3, v1, v2, s1, s2, s3

Row(token, user, expires, access) ==
    [token |-> token, user |-> user, expires |-> expires, access |-> access]

\* Sessions left from an earlier process.  For the logins: one, which is the
\* first to expire.  For the requests: two of one account, of which one has no
\* ledger token any more, and one of another.
StoredForLogins   == {Row(s1, u1, 2, 1)}
StoredForRequests == {Row(s1, u1, 2, 2), Row(s3, u1, 2, 0), Row(s2, u2, 2, 1)}

OneEach == [scope \in Scopes |-> 1]

SearchShorter == [scope \in Scopes |-> IF scope = "web_search" THEN 1 ELSE 2]

Interchangeable == Permutations({f1, f2}) \union Permutations({c1, c2, c3})
                   \union Permutations({q1, q2, q3}) \union Permutations({v1, v2})
                   \union Permutations({b1, b2})
=============================================================================
