------------------------ MODULE MCTranslationServer ------------------------
(***************************************************************************)
(* Model-checking instance of TranslationServer: every sequence of up to  *)
(* four packets over BEGIN, END, a .html and a .cgi URI, an empty PARAM    *)
(* (log-out), a SESSION and two WIDGET_TYPEs, two-byte headers, and chunks *)
(* of one to three bytes, so that chunks end inside headers, inside       *)
(* payloads, on packet boundaries, and hold several packets.               *)
(***************************************************************************)
EXTENDS TranslationServer

MCPackets ==
  {[cmd |-> "BEGIN", val |-> None], [cmd |-> "END", val |-> None],
   [cmd |-> "URI", val |-> "/a.html"], [cmd |-> "URI", val |-> "/a.cgi"],
   [cmd |-> "PARAM", val |-> ""], [cmd |-> "SESSION", val |-> "s"],
   [cmd |-> "WIDGET_TYPE", val |-> "w"], [cmd |-> "WIDGET_TYPE", val |-> "m"]}

\* Widget "w": a comment, a cgi line, a path line with one argument too
\* many (a syntax error), and a flag after it.  Widget "m" has no file.
MCWidgetFiles ==
  [t \in {"w", "m"} |->
     IF t = "m" THEN Missing
     ELSE << [kw |-> "#", args |-> <<>>], [kw |-> "cgi", args |-> <<"x">>],
             [kw |-> "ajp", args |-> <<"x", "y">>], [kw |-> "path", args |-> <<"x", "y">>],
             [kw |-> "process", args |-> <<>>] >>]
MCMaxPackets == 4
MCHeaderSize == 2
MCMaxChunk == 3

=============================================================================
