--------------------------- MODULE RuleConditions ---------------------------
(***************************************************************************)
(* The conditions of a DSC Rule: what rule_engine.py makes of one row      *)
(* (field, operator, value) and a document.  A field of a document is      *)
(* empty (None), a number or a text; texts are opaque, and the functions   *)
(* below say what the conversions the code applies make of each.           *)
(***************************************************************************)
EXTENDS Integers

CONSTANTS
  Texts,     \* the texts that occur
  Numbers,   \* the numbers that occur in fields
  NoValue,   \* None
  Blank,     \* the empty text
  NoneText,  \* str(None)
  Numeral,   \* str of each number
  FloatOf,   \* what float() reads in each text that is a numeral
  ItemsOf,   \* the stripped comma-separated items of each text
  PartsOf    \* the texts each text contains

ASSUME TextAssumption ==
  /\ {Blank, NoneText} \subseteq Texts /\ NoValue \notin Texts \cup Numbers
  /\ Texts \cap Numbers = {}
  /\ 0 \in Numbers /\ Numbers \subseteq Int
  /\ Numeral \in [Numbers -> Texts]
  /\ DOMAIN FloatOf \subseteq Texts /\ \A t \in DOMAIN FloatOf : FloatOf[t] \in Int
  /\ \A n \in Numbers : Numeral[n] \in DOMAIN FloatOf /\ FloatOf[Numeral[n]] = n
  /\ ItemsOf \in [Texts -> SUBSET Texts] /\ PartsOf \in [Texts -> SUBSET Texts]

Values == {NoValue} \cup Numbers \cup Texts

Operators == {"is_set", "is_not_set", "equals", "not_equals", "greater_than",
              "less_than", "in", "not_in", "contains"}

\* frappe.utils.flt: a text that is not a numeral is 0, and so is None; it
\* never raises.
Flt(v) ==
  CASE v \in Numbers          -> v
    [] v \in DOMAIN FloatOf   -> FloatOf[v]
    [] OTHER                  -> 0

Str(v) ==
  CASE v = NoValue     -> NoneText
    [] v \in Numbers   -> Numeral[v]
    [] OTHER           -> v

Unset(v) == v \in {NoValue, Blank, 0}

\* _coerce_and_compare: since flt never raises, the comparison of the texts
\* that follows the try block is never reached.
CoerceAndCompare(fv, tv, op) ==
  CASE op = "eq" -> Flt(fv) = Flt(tv)
    [] op = "ne" -> Flt(fv) # Flt(tv)
    [] op = "gt" -> Flt(fv) > Flt(tv)
    [] op = "lt" -> Flt(fv) < Flt(tv)

\* _check_condition, on the value of the condition's field.
CheckCondition(c, v) ==
  CASE c.operator = "is_set"       -> ~Unset(v)
    [] c.operator = "is_not_set"   -> Unset(v)
    [] c.operator = "equals"       -> CoerceAndCompare(v, c.value, "eq")
    [] c.operator = "not_equals"   -> CoerceAndCompare(v, c.value, "ne")
    [] c.operator = "greater_than" -> CoerceAndCompare(v, c.value, "gt")
    [] c.operator = "less_than"    -> CoerceAndCompare(v, c.value, "lt")
    [] c.operator = "in"           -> Str(v) \in ItemsOf[c.value]
    [] c.operator = "not_in"       -> Str(v) \notin ItemsOf[c.value]
    [] c.operator = "contains"     -> c.value \in PartsOf[IF Unset(v) THEN Blank ELSE Str(v)]
    [] OTHER                       -> FALSE

\* evaluate_conditions: all rows must pass; no row, no obstacle.
EvaluateConditions(conditions, fields) ==
  \A c \in conditions : CheckCondition(c, fields[c.field])

\* What "equals" means to the reader of a rule (docs/signing-rules.md 35-37):
\* numerals by their number, other texts letter by letter, an empty field as
\* the empty text.
SameValue(v, t) ==
  IF (v \in Numbers \/ v \in DOMAIN FloatOf) /\ t \in DOMAIN FloatOf
  THEN Flt(v) = Flt(t)
  ELSE (IF v = NoValue THEN Blank ELSE Str(v)) = t
=============================================================================
