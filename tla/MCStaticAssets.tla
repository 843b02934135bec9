--------------------------- MODULE MCStaticAssets ---------------------------
(***************************************************************************)
(* Two files, named 1 and 2, with contents of at most two bytes.           *)
(***************************************************************************)
EXTENDS StaticAssets

MCNames == << <<1>>, <<2>> >>

Contents == {Nil, <<>>, <<1>>, <<2>>, <<2, 1>>}

MCBuilds == {<<a, b>> : a \in Contents \ {Nil}, b \in Contents}
=============================================================================
