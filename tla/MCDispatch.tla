----------------------------- MODULE MCDispatch -----------------------------
(* Finite values for the constants of Dispatch.                            *)
EXTENDS Dispatch

Regular == [short |-> FALSE, reserved |-> FALSE, parts |-> 2,
            announced |-> "exact", encoding |-> "deflate",
            inflates |-> "all", xml |-> TRUE]

(* One thing wrong with each.                                              *)
MCForms == {Regular,
            [Regular EXCEPT !.short = TRUE],
            [Regular EXCEPT !.reserved = TRUE],
            [Regular EXCEPT !.parts = 3],
            [Regular EXCEPT !.announced = NULL],
            [Regular EXCEPT !.announced = "beyond"],
            [Regular EXCEPT !.encoding = NULL],
            [Regular EXCEPT !.encoding = "text"],
            [Regular EXCEPT !.inflates = "none"],
            [Regular EXCEPT !.inflates = "partly"],
            [Regular EXCEPT !.xml = FALSE]}

TextForms == {[Regular EXCEPT !.encoding = "text"]}
=============================================================================
