------------------------------ MODULE Tokenizer ------------------------------
(***************************************************************************)
(* The estimate of a text's tokens (tokenizer/gemini_ml_calibrated.rs): a  *)
(* base count times factors that depend on features of the text.  A text   *)
(* is its features; a factor is a pair of integers, and the product is     *)
(* exact where the code computes with f64.                                 *)
(***************************************************************************)
EXTENDS Naturals, Sequences

Text ==
  [tokens : Nat,       \* what tiktoken counts, if it could be loaded
   chars : Nat, words : Nat, unicode : Nat, emoji : Nat, punctuation : Nat,
   math : Nat, keywords : Nat, braces : Nat, semicolons : Nat, json : Nat]

\* count_tokens and the approximation it falls back to.
BaseCount(text, tiktoken) ==
  IF tiktoken THEN text.tokens ELSE text.words + text.punctuation \div 2

\* n / d of the characters are more than p hundredths.
Exceeds(n, d, p) == d > 0 /\ 100 * n > p * d

\* With no characters the ratio is 0.
WordFactor(text) ==
  IF Exceeds(text.words, text.chars, 15) THEN <<19, 20>>
  ELSE IF 100 * text.words < 5 * text.chars \/ text.chars = 0 THEN <<11, 10>>
  ELSE <<1, 1>>

UnicodeFactor(text) ==
  IF Exceeds(text.unicode, text.chars, 30) THEN <<6, 5>>
  ELSE IF Exceeds(text.unicode, text.chars, 15) THEN <<11, 10>>
  ELSE IF Exceeds(text.unicode, text.chars, 5) THEN <<21, 20>>
  ELSE <<1, 1>>

EmojiFactor(text) == IF text.emoji > 0 THEN <<11, 10>> ELSE <<1, 1>>

MathFactor(text) ==
  IF text.math = 0 THEN <<1, 1>>
  ELSE IF Exceeds(text.math, text.chars, 10) THEN <<11, 10>> ELSE <<21, 20>>

CodeFactor(text) ==
  LET score == text.keywords + text.braces + text.semicolons
  IN  IF text.keywords = 0 /\ text.braces <= 2 THEN <<1, 1>>
      ELSE IF score > 10 THEN <<13, 10>>
      ELSE IF score > 5 THEN <<6, 5>> ELSE <<11, 10>>

JsonFactor(text) == IF text.json > 5 THEN <<21, 20>> ELSE <<1, 1>>

\* Mutant: the step for long texts taken on top of the one for very long ones.
LengthFactorBoth(text) ==
  IF text.chars > 1000 THEN <<437, 500>>
  ELSE IF text.chars > 500 THEN <<19, 20>> ELSE <<1, 1>>

LengthFactor(text) ==
  IF text.chars > 1000 THEN <<23, 25>>
  ELSE IF text.chars > 500 THEN <<19, 20>> ELSE <<1, 1>>

\* The product of two fractions.
Times(a, b) == <<a[1] * b[1], a[2] * b[2]>>

\* apply_ml_calibration: the base count times every factor.
Calibrated(base, text) ==
  LET w == Times(<<base, 1>>, WordFactor(text))
      u == Times(w, UnicodeFactor(text))
      e == Times(u, EmojiFactor(text))
      m == Times(e, MathFactor(text))
      c == Times(m, CodeFactor(text))
      j == Times(c, JsonFactor(text))
  IN  Times(j, LengthFactor(text))

\* A half up.
Rounded(n, d) == (2 * n + d) \div (2 * d)

\* predict_token_count: rounded, and at least 1.
Estimate(text, tiktoken) ==
  LET product == Calibrated(BaseCount(text, tiktoken), text)
      rounded == Rounded(product[1], product[2])
  IN  IF rounded = 0 THEN 1 ELSE rounded
=============================================================================
