------------------------------ MODULE MCAddresses ------------------------------
(******************************************************************************)
(* AddressesProofs for TLC, with short limits and texts of every kind.        *)
(******************************************************************************)
EXTENDS AddressesProofs, TLC

V4(n) == [family |-> "v4", n |-> n]
V6(n) == [family |-> "v6", n |-> n]

MCPuny    == << "x", "-" >>
MCLiteral == << "1", ".", "1" >> :> V4(1) @@ << "1", "-" >> :> V6(1)
MCIp      == {V4(1), V6(1)}
MCKnown   == {V4(1), V4(2), V6(1), V6(2)}

MCName == { << >>, << "1", ".", "1" >>, << "1", "-" >>, << "a", "a" >>, << "a", ".", "a", "a" >>, << "-" >> }

================================================================================
