----------------------------- MODULE MCComposer -----------------------------
(***************************************************************************)
(* Two direct indicators, a spread of them and a ratio over the spread.  A   *)
(* tenant may hide the spread by one without readings, or one price by a     *)
(* formula that refers to the same code.                                    *)
(***************************************************************************)
EXTENDS Composer, TLC
CONSTANTS tdi, toluene, spread, ratio

MCCatalog ==
    (tdi :> Direct) @@ (toluene :> Direct)
    @@ (spread :> Op("subtract", Code(tdi), Code(toluene)))
    @@ (ratio :> Op("divide", Code(spread), Code(toluene)))
MCDrafts ==
    {<<spread, Direct>>, <<spread, Op("multiply", Code(tdi), Scalar(3))>>,
     <<tdi, Op("add", Code(tdi), Scalar(1))>>, <<tdi, Op("add", Scalar(1), Malformed)>>}
MCFormulas ==
    ({Code(c) : c \in Codes} \cup {Scalar(1), Scalar(3), Malformed}
     \cup {Catalog[c] : c \in Codes} \cup {d[2] : d \in Drafts}) \ {Direct}
=============================================================================
