----------------------------- MODULE MCLegacyPayout -----------------------------
EXTENDS LegacyPayout, TLC

CONSTANTS t1, t2, w1, w2, bad

(* The first Tree has two seasons worth something; the second has one worth *)
(* something and one that rests on nothing.                                 *)
Says(h, p) == [signed |-> TRUE, verified |-> h, placeholder |-> p]
MCAttested ==
  <<t1, 1>> :> Says(24, FALSE) @@ <<t1, 2>> :> Says(12, FALSE)
  @@ <<t2, 1>> :> Says(5, FALSE) @@ <<t2, 2>> :> Says(24, TRUE)

================================================================================
