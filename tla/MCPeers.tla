------------------------------- MODULE MCPeers -------------------------------
(***************************************************************************)
(* Two gossipers on one network: a listens on all interfaces (":5000") and *)
(* has two addresses, b listens on one.                                        *)
(***************************************************************************)
EXTENDS Peers, TLC

CONSTANTS a, b, ea, wa, eb, ta, ua, tb, la, lb, port

Two == {a, b}
OwnerOf == (ea :> a @@ wa :> a @@ eb :> b)
HomeOf == (a :> wa @@ b :> eb)
\* la and lb are host names; port is ":5000", which is no address of a peer
DenotesOf == (ta :> ea @@ ua :> wa @@ tb :> eb @@ la :> ea @@ lb :> eb @@ port :> Nowhere)
WrittenOf == (ea :> ta @@ wa :> ua @@ eb :> tb)
SelfOf == (a :> port @@ b :> tb)
\* b is launched with a as its peer, a with none
FlagOfB == (a :> {} @@ b :> {la})
\* The user of a enters b by its name, a itself and the text of -gossipAddr.
TypedAtA == (a :> {lb, la, port} @@ b :> {})
==============================================================================
