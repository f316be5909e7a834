----------------------------- MODULE MCKvEngine -----------------------------
(* Prompts for model checking KvEngine. *)
EXTENDS KvInv

(* One is a prefix of another, and one shares nothing with them. *)
SmallPrompts == {<<1>>, <<1, 2>>, <<2>>}

(* One request, made again. *)
OnePrompt == {<<1, 2>>}

(* Of two sizes. *)
BarePrompts == {<<1>>, <<2, 1>>}

(* Two batches long, and parting after the first batch or within it. *)
LongPrompts == {<<1, 2, 1>>, <<1, 2, 2>>, <<1, 1>>, <<2>>}
=============================================================================
