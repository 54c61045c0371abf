------------------------------ MODULE MCIdentity ------------------------------
(* One-time codes and sessions: each runs with the other at rest.           *)
EXTENDS VerificationCodes, SignIn, TLC

IdentityInit == CodesInit /\ SignInInit

CodesAtRest == CodesInit /\ UNCHANGED codeVars
SignInAtRest == SignInInit /\ employment = [b \in Businesses |-> "active"] /\ ~reach
                /\ UNCHANGED signInVars

IdentityNext ==
    \/ SignInNext /\ CodesAtRest
    \/ CodesNext /\ SignInAtRest

IdentitySpec == IdentityInit /\ [][IdentityNext]_<<codeVars, signInVars>>

\* Only one of the two moves in a behaviour, so a permutation of one's callers
\* may permute the other's clients with them, and inviters businesses.
Tied(f, A, B) == (\A x \in A : f[x] = x) <=> (\A x \in B : f[x] = x)
IdentitySymmetry ==
    {f \in {p @@ q @@ r @@ s : p \in Permutations(Callers), q \in Permutations(Clients),
                               r \in Permutations(Inviters), s \in Permutations(Businesses)} :
        Tied(f, Callers, Clients) /\ Tied(f, Inviters, Businesses)}
=============================================================================
