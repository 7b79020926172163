----------------------------- MODULE MCFraming -----------------------------
(***************************************************************************)
(* Instances of Framing with bytes below 10, the smallest base that holds  *)
(* the command bytes.  Payloads are chosen so that frames have different   *)
(* lengths, carry bytes that look like sizes and slashes, and frame sizes  *)
(* and connection ids need both of their bytes.                            *)
(***************************************************************************)
EXTENDS Framing

MCMessages == {CreateRequest(11, <<3>>, <<0, 4>>), CreateResponse(1, 1, <<5>>),
               Destroy(12), Data(1, <<0, 3, 7, 0, 3, 7>>), Data(1, <<>>),
               RenewRequest(<<>>), RenewResponse(0, <<2>>),
               Signal(CmdKeepalive), Signal(CmdReject)}

MCWedges == {Raw(<<0, 0>>), Raw(<<0, 2, 7, 0, 3, 7>>)}

MCLast == {Signal(CmdReject)}
=============================================================================
