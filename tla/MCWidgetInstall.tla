--------------------------- MODULE MCWidgetInstall ---------------------------
(* The tool wgtpkg-install alone, with one widget whose file properties are wrong: *)
(* it is refused after the move, without any other failure.                        *)
EXTENDS WidgetInstall

MCTemps == <<"TMP0">>
MCPackages ==
    {[id |-> "a", files |-> <<<<"bin", "x">>>>, features |-> <<>>, icon |-> <<>>, params |-> <<>>,
      contents |-> <<<<"bin", "x">>>>, strings |-> TRUE, config |-> TRUE, signed |-> TRUE, props |-> FALSE,
      zip |-> TRUE]}
=============================================================================
