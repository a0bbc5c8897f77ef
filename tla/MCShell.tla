------------------------------ MODULE MCShell ------------------------------
(* Shell for TLC: all lines of up to MaxTokens tokens, and some longer.    *)
EXTENDS Shell, TLC

CONSTANTS MaxTokens, Words

Short == UNION {[1 .. n -> Symbols \cup Words] : n \in 0 .. MaxTokens}

Long == {
  <<"echo", "x", "|", "cat">>, <<"echo", "x", "|", "cat", "|", "cat">>,
  <<"(", "echo", "x", ";", "echo", "y", ")", "|", "cat", ">", "g">>,
  <<"(", "echo", "x", ";", "cat", "f", ")", ">", "g", ";", "cat", "g">>,
  <<"cat", "f", "f", "|", "echo", "x">>, <<"echo", "x", "y", "|", "echo", "z">>, <<"echo", "x", "y", "z">>,
  <<"cat", "<", "f", "|", "(", "cat", ";", "echo", "y", ")">>,
  <<"echo", "x", "&", ";", "echo", "y">>,
  <<"(", "echo", "x", "|", "cat", ")", "&">> }

Twice == {<<"echo", "x", ">", "f">>, <<"cat", "f", "|", "cat">>, <<"echo", "y", "&">>, <<"cd", "x">>, Eot}

MCInputs == {<<t>> : t \in Short \cup Long} \cup {<<s, t>> : s, t \in Twice}

MCFiles == [w \in {"echo", "cat", "f", "g", "x", "y"} |->
              CASE w \in {"echo", "cat"} -> <<"program">> [] w = "f" -> <<"1", "2">> [] OTHER -> <<"none">>]
============================================================================
