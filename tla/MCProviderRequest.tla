-------------------------- MODULE MCProviderRequest --------------------------
(* Model values for ProviderRequest: a token that names an account and an    *)
(* api key that names none, so that the credentials can change the identity. *)
EXTENDS ProviderRequest, TLC

CONSTANTS m1, m2, s1, s2

MCSlots == {s1, s2}
MCClaim == [t |-> "a", t2 |-> "a", k |-> None]
Option(authorization, header, apiKey) ==
    [authorization |-> authorization, suppressed |-> FALSE, accountHeader |-> header,
     apiKey |-> apiKey]
MCAuthOptions == {Option("t", None, None), Option(None, None, "k")}

\* A refreshed token and an agreeing header keep the identity of the account; a
\* contradicting header or an authorization that is no bearer token yields none.
IdentityOf(o) == ProviderCompactionIdentity(m1, CreateProviderConnection(o))
ASSUME
    /\ IdentityOf(Option("t2", "a", None)) = IdentityOf(Option(None, None, "t"))
    /\ IdentityOf(Option("t", "b", None)) = NoIdentity
    /\ IdentityOf(Option("other", None, "t")) = NoIdentity
    /\ IdentityOf([Option(None, None, "k") EXCEPT !.suppressed = TRUE]) = NoIdentity

MCInitialAuth == Option("t", None, None)
MCInitialKinds == <<"message", "custom">>
Bound(o, r, n, e) == [overlapping |-> o, requests |-> r, entries |-> n, events |-> e]
MCBounds == {Bound(1, 3, 5, 1), Bound(1, 1, 3, 2), Bound(2, 2, 3, 1)}
Symmetric == Permutations(MCSlots)
=============================================================================
