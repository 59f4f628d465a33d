----------------------------- MODULE MCSession -----------------------------
(***************************************************************************)
(* Small instances of MsrpSession for TLC, and what a comment of the code  *)
(* promises and the code does not keep.                                    *)
(***************************************************************************)
EXTENDS MsrpSession

CONSTANTS a, b   \* two remote addresses

Sdp(addr, setup, dir, hb) ==
  [addr |-> addr, setup |-> setup, dir |-> dir, heartbeats |-> hb]

\* Both roles and every direction setupConnection tells apart, and two remote
\* parties.
CoreSdps == {Sdp(a, "actpass", "sendrecv", TRUE), Sdp(b, "passive", "recvonly", FALSE),
             Sdp(a, "none", "inactive", TRUE)}

\* Two sessions whose remote parties share an address.
PairSdps == {Sdp(a, "active", "sendrecv", TRUE), Sdp(a, "passive", "sendrecv", FALSE)}

SharedSdps == {Sdp(a, "active", "sendrecv", FALSE)}

\* Every role a remote party can take, and a connection that is not needed.
LiveSdps == {Sdp(a, setup, "sendrecv", TRUE) : setup \in Setups \ {"active", "none"}}
              \cup {Sdp(a, "active", "inactive", FALSE)}
=============================================================================
