-------------------------- MODULE MCFragmentTunnel --------------------------
(* FragmentTunnel for TLC: a window of two buffers over four sequence ids. *)
EXTENDS FragmentTunnel
=============================================================================
