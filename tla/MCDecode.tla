------------------------------ MODULE MCDecode ------------------------------
(* A two-layer model over three tokens for Decode.  Its arithmetic mixes    *)
(* every operand it is given, so that a wrong cache entry, position or      *)
(* layer shows in the logits; the logits have ties.                         *)
EXTENDS Decode

AllVariants == {"reference", "cis2_verify", "verify2", "verify3"}
Tokens == 1 .. 3
MCPrompts == UNION {[1 .. n -> Tokens] : n \in 0 .. 3}
MCGenToks == 0 .. 3
MCLayers == 2

Modulus == 97
MCEmbed(t) == t * 11
MCProject(l, h, p) == (h * 5 + l * 29 + p * 17) % Modulus
MCBlock(l, h, p, kv) ==
  LET Sum[j \in 0 .. Len(kv)] == IF j = 0 THEN h * 3 + l * 7 + p ELSE (Sum[j - 1] * 13 + kv[j]) % Modulus
  IN  Sum[Len(kv)]
MCLmHead(h) == <<h % 3, (h \div 3) % 3, (h \div 9) % 3>>
=============================================================================
