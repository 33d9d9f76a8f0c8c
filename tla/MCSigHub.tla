------------------------------ MODULE MCSigHub ------------------------------
(***************************************************************************)
(* Small instances of SigHub: who connects, what the hellos say, and which  *)
(* frames follow.                                                           *)
(***************************************************************************)
EXTENDS SigHub, TLC

CONSTANTS c1, c2, c3

Says(k, r, cred) == [key |-> k, role |-> r, cred |-> cred]

Report(cand)   == [type |-> "endpoints", cand |-> cand]
Connect(k)     == [type |-> "connect", key |-> k]
Result(direct) == [type |-> "result", direct |-> direct]

(* Two codes of the default network. *)
MCCodeNet == "A" :> "default" @@ "B" :> "default"

(* Two clients of one network; both report, one asks for the other or for    *)
(* itself.                                                                   *)
Pair == c1 :> Says("a", "client", "A") @@ c2 :> Says("b", "client", "B")
PairFrames == c1 :> {Report("private"), Connect("a"), Connect("b")}
              @@ c2 :> {Report("public"), Connect("a"), Result(TRUE)}

(* One asks for the other, who may be slow to read. *)
AskFrames == c1 :> {Connect("b")} @@ c2 :> {}

(* A key that comes back as an exit, in another network, while its old       *)
(* connection may still be there; a peer of the old network asks for it and  *)
(* for itself, and the one that came back asks across networks.              *)
Moving == c1 :> Says("a", "client", "A") @@ c2 :> Says("a", "exit", "token")
          @@ c3 :> Says("b", "client", "B")
MovingFrames == c1 :> {} @@ c2 :> {Connect("b")}
                @@ c3 :> {Connect("a"), Connect("b"), Report("public")}
=============================================================================
