----------------------------- MODULE MCWebhook ------------------------------
(* Instances of Webhook for TLC.                                           *)
EXTENDS Webhook, TLC

CONSTANTS r1, r2, r3, server1, peer1

ThreeRequests == {r1, r2, r3}
TwoAddresses == {server1, peer1}

Interchangeable == Permutations(Requests) \cup Permutations(Addresses)
=============================================================================
