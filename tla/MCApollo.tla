------------------------------ MODULE MCApollo ------------------------------
EXTENDS ApolloClient, TLC

CONSTANTS k1, k2, v1, v2, s1

\* Three releases that add, modify and delete keys.
MCReleases == << (k1 :> v1 @@ k2 :> Absent), (k1 :> v2 @@ k2 :> v1), (k1 :> Absent @@ k2 :> v2) >>
====
