------------------------------ MODULE MCFleet ------------------------------
(* Small instances of Fleet. *)
EXTENDS Fleet, TLC

(* Each customer has keys of its own; one of the NATs remaps. *)
OwnKeys == "c" :> {"k", "k2"} @@ "d" :> {"l"}
OwnNats == "p" :> {"h1", "h2"} @@ "q" :> {"h3"}
=====
