--------------------------- MODULE MCKeyValueParser ---------------------------
(* Texts of at most eight tokens, with or without a blank at their end: a  *)
(* block inside a block has pairs before and behind it.  A blank between   *)
(* two tokens changes nothing, as none is read before the blanks in front  *)
(* of it are skipped.                                                      *)
EXTENDS KeyValueParser

TextsOf(tokens, n) == UNION {[1..m -> tokens] : m \in 0..n}

WithBlank(ts) == ts \cup {Append(t, "blank") : t \in ts}

Strings == {"word", "quoted"}
Braced == TextsOf(Strings \cup {"open", "close"}, 4) \cup TextsOf({"word", "open", "close"}, 8)
Cut == {Append(t, "unclosed") : t \in TextsOf({"word", "open", "close"}, 4)}

MCTexts == WithBlank(Braced) \cup Cut

(* Texts with a slash that begins no comment. *)
SlashTexts == WithBlank(TextsOf({"word", "slash", "open", "close"}, 3))
===============================================================================
