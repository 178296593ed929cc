---------------------------- MODULE MCStreamClient ----------------------------
(* The instances of StreamClient that TLC checks. *)
EXTENDS StreamClient

NoWork   == << >>
SomeWork == <<"source", "claim", "verification">>
FullWork == <<"search", "source", "claim", "verification">>

=============================================================================
