------------------------------- MODULE MCFeed -------------------------------
(* Instances of EventLoop; its constants have values that a cfg can give. *)
EXTENDS EventLoop
=============================================================================
