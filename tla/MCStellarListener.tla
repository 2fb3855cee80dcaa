------------------------- MODULE MCStellarListener -------------------------
(***************************************************************************)
(* Instances of StellarListener for TLC: payments to the platform, to a    *)
(* user wallet and between outsiders, and operations that are no payments. *)
(***************************************************************************)
EXTENDS StellarListener

MCAddress    == {"platform", "alice", "bob", "eve"}
MCPlatform   == {"platform"}
MCUserWallet == {"alice"}

\* Payments to the platform, one from it, and a path payment to it.
ResumeSender   == <<"bob", "platform", "eve", "bob", "eve">>
ResumeReceiver == <<"platform", "bob", "platform", "platform", "platform">>
ResumePayments == {1, 2, 4, 5}

\* A path payment to the platform, a payment of the platform, one to alice.
TrackingSender   == <<"eve", "platform", "bob">>
TrackingReceiver == <<"platform", "eve", "alice">>
TrackingPayments == {2, 3}

=============================================================================
