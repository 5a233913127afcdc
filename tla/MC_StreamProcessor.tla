------------------------- MODULE MC_StreamProcessor -------------------------
(* Model-checking instance of StreamProcessor. *)
EXTENDS StreamProcessor

\* Two tool ids: enough for a result of one tool to arrive while the other
\* is active, and for an id to be started twice.
MCIds == {"t1", "t2"}
\* A one-token tool the code knows, an mcp__ name with a server and a tool
\* whose name holds an underscore, and an unknown tool.
MCNames == {<<"Bash">>, <<"mcp", "__", "srv", "__", "run", "_", "it">>, <<"Other">>}
\* Inputs: empty, a blank description (truthy for Bash, blank for the
\* generic rule), and a two-line command.
MCInputs == {[k \in {} |-> <<>>],
             [k \in {"description"} |-> <<" ">>],
             [k \in {"description", "command"} |->
                IF k = "command" THEN <<"a", "\n", "a">> ELSE <<>>]}
\* Empty, blank and non-empty text.
MCTexts == {<<>>, <<" ">>, <<"a">>}
\* Every text of up to four characters over letter, blank and line break.
MCSampleTexts == BoundedSeq({"a", " ", "\n"}, 4)
====
