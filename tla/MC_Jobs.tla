------------------------------ MODULE MC_Jobs ------------------------------
(* A small instance of each service. Values that a .cfg cannot hold are here. *)
EXTENDS Jobs, TLC

\* Two uploads that all succeed, or one and a failure.
UploadsAndFailures == {<<2, 0>>, <<1, 1>>}

=============================================================================
